------------------------- MODULE ReleaseReaderProofs -------------------------
(***************************************************************************)
(* Proofs about ReleaseReader: whatever other programs do to the tree, how *)
(* often and at which call, and whichever call fails, verdicts are earned  *)
(* and what was read stood at its path.                                    *)
(***************************************************************************)
EXTENDS ReleaseReader, TLAPS

------------------------------------------------------------------------------
(* Places.                                                                 *)

(* Two places are the same only if they are the same name of one directory.*)
LEMMA AtIsInjective ==
  ASSUME NEW d, NEW n, NEW e, NEW m, At(d, n) = At(e, m)
  PROVE  d = e /\ n = m
<1>1. At(d, n).in = d /\ At(d, n).name = n /\ At(e, m).in = e /\ At(e, m).name = m
  BY DEF At
<1> QED
  BY <1>1

(* The names of each directory.                                            *)
LEMMA Places ==
  /\ At("top", "root") \in Place /\ At("runs1", "other") \in Place
  /\ \A h \in Home : At(h, "runs") \in Place /\ At(h, "release") \in Place
  /\ \A d \in Runs : At(d, "selected") \in Place
  /\ \A g \in Digest : At(g, "manifest") \in Place
  BY DEF Place

(* Every place is one of these.                                            *)
LEMMA PlaceIs ==
  ASSUME NEW p \in Place
  PROVE  /\ p = At(p.in, p.name)
         /\ \/ p.in = "top" /\ p.name = "root"
            \/ p.in \in Home /\ p.name \in {"runs", "release"}
            \/ p.in \in Runs /\ p.name = "selected"
            \/ p.in = "runs1" /\ p.name = "other"
            \/ p.in \in Digest /\ p.name = "manifest"
  BY DEF Place, At

(* What fits a name.                                                       *)
LEMMA FitsAre ==
  ASSUME NEW d
  PROVE  /\ Fits(At(d, "root")) = Home /\ Fits(At(d, "runs")) = Runs /\ Fits(At(d, "release")) = Digest
         /\ Fits(At(d, "manifest")) = Manifests /\ Fits(At(d, "selected")) = {"selected1", "selected2"}
         /\ Fits(At(d, "other")) = {"other1"}
  BY DEF Fits, At, Records

(* What fits a place is an object, and no odd one.                         *)
LEMMA FitsObject ==
  ASSUME NEW p \in Place
  PROVE  Fits(p) \subseteq Object /\ Fits(p) \cap Odd = {}
<1>1. p = At(p.in, p.name) /\ p.name \in {"root", "runs", "release", "manifest", "selected", "other"}
  BY PlaceIs
<1> QED
  BY <1>1, FitsAre DEF Object, Dir, File, Home, Runs, Digest, Manifests, Records, Odd

(* The intact release and its neighbour.                                   *)
LEMMA StandingIs ==
  /\ Standing \in [Place -> Object \cup Odd] /\ \A p \in Place : Standing[p] \in Fits(p) \cup Odd
  /\ Standing[At("top", "root")] = "root1" /\ Standing[At("root1", "runs")] = "runs1"
  /\ Standing[At("root1", "release")] = "release1" /\ Standing[At("release1", "manifest")] = "manifest1"
  /\ Standing[At("runs1", "selected")] = "selected1" /\ Standing[At("runs1", "other")] = "other1"
<1>1. ASSUME NEW p \in Place PROVE Standing[p] \in Fits(p) \cup Odd
  <2>1. /\ p = At(p.in, p.name)
         /\ \/ p.in = "top" /\ p.name = "root"
            \/ p.in \in Home /\ p.name \in {"runs", "release"}
            \/ p.in \in Runs /\ p.name = "selected"
            \/ p.in = "runs1" /\ p.name = "other"
            \/ p.in \in Digest /\ p.name = "manifest"
    BY PlaceIs
  <2> QED
    BY <2>1, FitsAre DEF Standing, Home, Runs, Digest, Manifests, Odd
<1>2. \A p \in Place : Standing[p] \in Object \cup Odd
  BY <1>1, FitsObject
<1>3. Standing \in [Place -> Object \cup Odd]
  BY <1>2 DEF Standing
<1>4. /\ Standing[At("top", "root")] = "root1" /\ Standing[At("root1", "runs")] = "runs1"
      /\ Standing[At("root1", "release")] = "release1" /\ Standing[At("release1", "manifest")] = "manifest1"
      /\ Standing[At("runs1", "selected")] = "selected1" /\ Standing[At("runs1", "other")] = "other1"
  BY Places DEF Standing, At, Home, Runs, Digest
<1> QED
  BY <1>1, <1>3, <1>4

(* The walking calls, and those that read.                                 *)
LEMMA Stages ==
  /\ Walking = {"look", "enter", "why", "confirm"}
  /\ Filing = {"open-file", "why-file", "check-file", "read", "read-on", "decode", "recheck"}
  /\ Reading = {"read", "read-on", "decode", "recheck"}
  /\ {"look", "enter", "why", "confirm", "open-file", "why-file", "check-file", "read", "read-on", "decode", "recheck",
       "verify", "find", "names", "scan", "leave"} \subseteq Stage
  BY DEF Walking, Filing, Opening, Reading, Stage

(* An invocation that has just begun.                                      *)
LEMMA IdleType == Idle \in ReaderState
  BY Stages DEF Idle, ReaderState, Chains

(* The invariant holds at the beginning.                                   *)
LEMMA InitInv == Init => IInv
<1> SUFFICES ASSUME Init PROVE IInv
  OBVIOUS
<1>1. entry \in [Place -> Object \cup Odd] /\ \A p \in Place : entry[p] \in Fits(p) \cup Odd
  <2>1. CASE entry = Standing
    BY <2>1, StandingIs
  <2>2. CASE \E p \in Place, v \in Odd : entry = [Standing EXCEPT ![p] = v]
    BY <2>2, StandingIs
  <2> QED
    BY <2>1, <2>2 DEF Init
<1>2. \A p \in Place : entry[p] \in {Standing[p]} \cup Odd
  BY StandingIs DEF Init
<1>3. content \in [File -> Content]
  BY DEF Init, Written, File, Content, Text
<1>4. reader = Idle /\ deeds = 0 /\ ~faulted
  BY DEF Init
<1>5. TypeOK
  <2>1. flawed \in BOOLEAN /\ vanished \in BOOLEAN /\ faulted \in BOOLEAN
    BY Zenon DEF Init, Missing
  <2>2. stamp \in [File -> Nat] /\ deeds \in Nat /\ past = {}
    BY DEF Init
  <2> QED
    BY <1>1, <1>3, <1>4, <2>1, <2>2, IdleType DEF TypeOK
<1>6. OnItsWay /\ OneVersion /\ Confirmed /\ Blameless
  BY <1>4 DEF OnItsWay, OneVersion, Confirmed, Blameless, Idle, Walking, Filing, Opening, Reading, Leaving, Loading
<1>7. Witnessed
  <2>1. Missing(entry) => vanished
    BY Zenon DEF Init
  <2> QED
    BY <1>4, <2>1 DEF Witnessed, Idle
<1>8. Undisturbed
  <2>1. flawed <=> ~Intact(entry, content)
    BY Zenon DEF Init
  <2> QED
    BY <1>2, <1>4, <2>1 DEF Undisturbed, Idle, Walking, Filing, Opening, Reading, Leaving, Loading
<1>9. ReleaseIsBlamed /\ AnswerIsCurrent
  BY <1>4 DEF ReleaseIsBlamed, AnswerIsCurrent, Idle, Leaving
<1> QED
  BY <1>5, <1>6, <1>7, <1>8, <1>9 DEF IInv
------------------------------------------------------------------------------
(* Steps that fail.                                                        *)

(* What the invocation knows from its earlier tasks.                       *)
KeepsTask == /\ reader'.task = reader.task /\ reader'.inside = reader.inside /\ reader'.prior = reader.prior
             /\ reader'.runs = reader.runs /\ reader'.manifest = reader.manifest /\ reader'.flaw = reader.flaw
             /\ reader'.verdict = reader.verdict
KeepsPath == reader'.level = reader.level /\ reader'.chain = reader.chain

(* Only the invocation has moved; a call may have failed. But for the read *)
(* of a file, it still recalls what it has confirmed.                      *)
Acts == /\ UNCHANGED <<entry, content, stamp, deeds, flawed, vanished>>
        /\ past' \in {past, {}} /\ faulted' \in BOOLEAN /\ (faulted => faulted')
Moves == Acts /\ (Recalling(reader') => past' = past)

(* A step in which no call failed.                                         *)
LEMMA GoMoves ==
  ASSUME IInv, NEW r, Go(r)
  PROVE  reader' = r /\ reader \in ReaderState /\ Moves /\ faulted' = faulted
  BY DEF Go, Becomes, Recall, IInv, TypeOK, Moves, Acts

(* A step in which a call failed.                                          *)
LEMMA FaultMoves ==
  ASSUME IInv, NEW r, FaultTo(r)
  PROVE  reader' = r /\ reader \in ReaderState /\ Moves /\ faulted'
  BY DEF FaultTo, Becomes, Recall, IInv, TypeOK, Moves, Acts

(* What is known of what was confirmed is still known.                     *)
LEMMA StillHeld ==
  ASSUME Moves, Recalling(reader'), NEW p, NEW v, Held(p, v)
  PROVE  Held(p, v)'
  BY DEF Moves, Acts, Held

(* A verdict that was earned still is.                                     *)
LEMMA VerdictKeeps ==
  ASSUME IInv, Acts, reader'.verdict = reader.verdict
  PROVE  ReleaseIsBlamed'
  BY DEF IInv, ReleaseIsBlamed, Acts

(* A step that ends a task with a cause keeps the invariant, if the cause  *)
(* is earned.                                                              *)
LEMMA EndKeeps ==
  ASSUME IInv, Moves, NEW c \in Causes, reader.task # "done", reader.at # "leave",
         reader' \in ReaderState, reader'.at = "leave", reader'.causes = {c}, KeepsTask,
         reader'.data = reader.data, reader'.file = reader.file,
         c = "io" => faulted' \/ deeds # 0,
         deeds = 0 /\ ~flawed => c = "io",
         Loading /\ c = "missing" => vanished
  PROVE  IInv'
<1>1. TypeOK'
  BY DEF IInv, TypeOK, Moves, Acts
<1>2. OnItsWay'
  BY Stages DEF IInv, OnItsWay, Loading, KeepsTask
<1>3. OneVersion'
  BY Stages DEF IInv, OneVersion, Loading, Leaving
<1>4. Confirmed'
  <2>1. ~Leaving("load")' /\ ~Leaving("get")' /\ reader'.at \notin Walking /\ reader'.at # "verify"
    BY Stages DEF Leaving
  <2>2. ASSUME reader'.task = "get-end", reader'.prior = {}
        PROVE  reader'.data # "none" /\ Held(At(reader.runs, "selected"), reader.file)'
    <3>1. reader.data # "none" /\ Held(At(reader.runs, "selected"), reader.file)
      BY <2>2 DEF IInv, Confirmed, KeepsTask
    <3> QED
      BY <3>1 DEF Moves, Acts, Recalling, Held, KeepsTask
  <2> QED
    BY <2>1, <2>2 DEF Confirmed, Loading
<1>5. Witnessed'
  BY DEF IInv, Witnessed, Loading, KeepsTask, Moves, Acts
<1>6. Undisturbed'
  BY Stages DEF IInv, Undisturbed, Loading, Leaving, KeepsTask, Moves, Acts,
     ManifestStands, RunsStand, SelectedStands, OtherStands
<1>7. Blameless'
  BY DEF IInv, Blameless, KeepsTask, Moves, Acts
<1>8. AnswerIsCurrent'
  BY DEF IInv, AnswerIsCurrent, Leaving, KeepsTask
<1>9. ReleaseIsBlamed'
  BY VerdictKeeps DEF Moves, KeepsTask
<1> QED
  BY <1>1, <1>2, <1>3, <1>4, <1>5, <1>6, <1>7, <1>8, <1>9 DEF IInv

(* What an invocation that starts to leave is like.                        *)
LEMMA Ends ==
  ASSUME IInv, NEW c \in Causes, reader' = [reader EXCEPT !.at = "leave", !.causes = {c}]
  PROVE  /\ reader' \in ReaderState /\ reader'.at = "leave" /\ reader'.causes = {c} /\ KeepsTask
         /\ reader'.data = reader.data /\ reader'.file = reader.file
<1>1. reader \in ReaderState
  BY DEF IInv, TypeOK
<1>2. reader' \in ReaderState
  BY <1>1, Stages DEF ReaderState
<1> QED
  BY <1>1, <1>2 DEF ReaderState, KeepsTask

(* A refusal keeps the invariant if its cause is earned.                   *)
LEMMA RefuseKeeps ==
  ASSUME IInv, NEW c \in Causes, reader.task # "done", reader.at # "leave", Refuse(c),
         c = "io" => faulted \/ deeds # 0,
         deeds = 0 /\ ~flawed => c = "io",
         Loading /\ c = "missing" => vanished
  PROVE  IInv'
<1> DEFINE r == [reader EXCEPT !.at = "leave", !.causes = {c}]
<1>1. reader' = r /\ Moves /\ faulted' = faulted
  BY GoMoves DEF Refuse
<1> QED
  BY <1>1, Ends, EndKeeps

(* A call that fails is blamed on the machine, rightly.                    *)
LEMMA FaultKeeps ==
  ASSUME IInv, reader.task # "done", reader.at # "leave", FaultRefuse
  PROVE  IInv'
<1> DEFINE r == [reader EXCEPT !.at = "leave", !.causes = {"io"}]
<1>1. reader' = r /\ Moves /\ faulted' /\ "io" \in Causes /\ "io" # "missing"
  BY FaultMoves DEF FaultRefuse, Causes
<1> QED
  BY <1>1, Ends, EndKeeps

------------------------------------------------------------------------------
(* Where the invocation is.                                                *)

(* While it walks, the next component is one of two.                       *)
LEMMA WalkIs ==
  ASSUME IInv, reader.at \in Walking
  PROVE  /\ reader.task # "done" /\ reader.at # "leave" /\ reader.causes = {}
         /\ At(Handle, Component) \in Place /\ Current(Component) \in Fits(At(Handle, Component)) \cup Odd
         /\ Fits(At(Handle, Component)) \subseteq Dir /\ Dir \cap Odd = {}
         /\ \/ /\ reader.level = 0 /\ reader.chain = <<"top">> /\ Handle = "top" /\ Component = "root"
               /\ Fits(At(Handle, Component)) = Home
            \/ /\ reader.level = 1 /\ Handle \in Home /\ Component = IF Loading THEN "release" ELSE "runs"
               /\ reader.chain = IF Loading THEN <<"top", Handle>> ELSE <<Handle>>
               /\ Fits(At(Handle, Component)) = IF Loading THEN Digest ELSE Runs
<1>1. /\ reader.task # "done" /\ reader.at # "leave" /\ reader.causes = {}
      /\ \/ reader.level = 0 /\ reader.chain = <<"top">>
         \/ reader.level = 1 /\ \E h \in Home : reader.chain = IF Loading THEN <<"top", h>> ELSE <<h>>
  BY Stages DEF IInv, OnItsWay
<1>2. Dir \cap Odd = {} /\ Home \subseteq Dir /\ Runs \subseteq Dir /\ Digest \subseteq Dir
  BY DEF Dir, Odd, Home, Runs, Digest
<1>3. CASE reader.level = 0 /\ reader.chain = <<"top">>
  <2>1. Handle = "top" /\ Component = "root"
    BY <1>3 DEF Handle, Component, Walk
  <2> QED
    BY <1>1, <1>2, <1>3, <2>1, Places, FitsAre DEF IInv, TypeOK, Current
<1>4. CASE reader.level = 1 /\ \E h \in Home : reader.chain = IF Loading THEN <<"top", h>> ELSE <<h>>
  <2>1. PICK h \in Home : reader.chain = IF Loading THEN <<"top", h>> ELSE <<h>>
    BY <1>4
  <2>2. Handle = h /\ Component = IF Loading THEN "release" ELSE "runs"
    BY <1>4, <2>1 DEF Handle, Component, Walk
  <2> QED
    BY <1>1, <1>2, <1>4, <2>1, <2>2, Places, FitsAre DEF IInv, TypeOK, Current
<1> QED
  BY <1>1, <1>3, <1>4

(* While it is at a file, its name is one of its directory's.              *)
LEMMA FileIs ==
  ASSUME IInv, reader.at \in Filing \cup {"find"}
  PROVE  /\ reader.task # "done" /\ reader.at # "leave" /\ reader.causes = {}
         /\ At(Handle, reader.name) \in Place
         /\ Current(reader.name) \in Fits(At(Handle, reader.name)) \cup Odd
         /\ Fits(At(Handle, reader.name)) \subseteq File /\ File \cap Odd = {}
         /\ IF Loading THEN /\ reader.name = "manifest" /\ Handle = reader.chain[3] /\ Handle \in Digest
                            /\ Fits(At(Handle, reader.name)) = Manifests
                       ELSE /\ reader.task \in {"get", "list"} /\ Handle = reader.runs /\ reader.runs \in Runs
                            /\ reader.name \in {"selected", "other"} /\ reader.chain = <<reader.runs>>
<1>1. /\ reader.task # "done" /\ reader.at # "leave" /\ reader.causes = {}
      /\ At(Handle, reader.name) \in Place /\ (Loading <=> reader.name = "manifest")
      /\ IF Loading THEN \E h \in Home, g \in Digest : reader.chain = <<"top", h, g>>
                    ELSE reader.task \in {"get", "list"} /\ reader.chain = <<reader.runs>> /\ reader.runs \in Runs
  BY Stages DEF IInv, OnItsWay, Loading
<1>2. File \cap Odd = {} /\ Manifests \subseteq File /\ {"selected1", "selected2", "other1"} \subseteq File
  BY DEF File, Odd, Manifests, Records
<1>3. Current(reader.name) \in Fits(At(Handle, reader.name)) \cup Odd
  BY <1>1 DEF IInv, TypeOK, Current
<1>4. CASE Loading
  <2>1. PICK h \in Home, g \in Digest : reader.chain = <<"top", h, g>>
    BY <1>1, <1>4
  <2>2. Handle = g /\ reader.chain[3] = g
    BY <2>1 DEF Handle
  <2> QED
    BY <1>1, <1>2, <1>3, <1>4, <2>2, FitsAre
<1>5. CASE ~Loading
  <2>1. Handle = reader.runs
    <3>1. PICK d \in Runs : d = reader.runs /\ reader.chain = <<d>>
      BY <1>1, <1>5
    <3> QED
      BY <3>1 DEF Handle
  <2>2. reader.name \in {"selected", "other"}
    <3>1. At(Handle, reader.name).in = Handle /\ At(Handle, reader.name).name = reader.name
      BY DEF At
    <3>2. Handle # "top" /\ Handle \notin Home /\ Handle \notin Digest
      BY <1>1, <1>5, <2>1 DEF Home, Runs, Digest
    <3> QED
      BY <1>1, <3>1, <3>2, PlaceIs
  <2> QED
    BY <1>1, <1>2, <1>3, <1>5, <2>1, <2>2, FitsAre
<1> QED
  BY <1>4, <1>5

(* A step that stays in its directories.                                   *)
LEMMA StaysPut ==
  ASSUME KeepsTask, KeepsPath
  PROVE  Handle' = Handle /\ Component' = Component /\ Loading' = Loading
  BY DEF KeepsTask, KeepsPath, Handle, Component, Walk, Loading

------------------------------------------------------------------------------
(* The steps of the walk.                                                  *)

(* A step to the next call at the same component.                          *)
LEMMA WalkOn ==
  ASSUME IInv, Moves, reader.at \in Walking,
         NEW a \in {"enter", "why", "confirm"}, NEW s \in Fits(At(Handle, Component)),
         NEW k \in Dir \cup Odd \cup {"none"},
         reader' = [reader EXCEPT !.at = a, !.seen = s, !.child = k],
         deeds = 0 => Current(Component) = s /\ (a = "confirm" => k = s) /\ (a = "why" => k = "odd"),
         deeds = 0 /\ ~faulted' => a # "why"
  PROVE  IInv'
<1>1. reader \in ReaderState /\ s \in Object \cup {"none"} /\ a \in Stage
  BY WalkIs, Stages DEF IInv, TypeOK, Object
<1>2. reader' \in ReaderState
  BY <1>1 DEF ReaderState
<1>3. /\ reader'.at = a /\ reader'.at \in Walking \ {"look"} /\ reader'.seen = s /\ reader'.child = k
      /\ reader'.data = reader.data /\ reader'.causes = reader.causes /\ reader'.file = reader.file
      /\ reader'.name = reader.name /\ reader'.todo = reader.todo
  BY <1>1, Stages DEF ReaderState
<1>4. KeepsTask /\ KeepsPath
  BY <1>1 DEF ReaderState, KeepsTask, KeepsPath
<1>5. Handle' = Handle /\ Component' = Component /\ Loading' = Loading
  BY <1>4, StaysPut
<1>6. TypeOK'
  BY <1>2 DEF IInv, TypeOK, Moves, Acts
<1>7. OnItsWay'
  BY <1>3, <1>4, <1>5, WalkIs, Stages DEF IInv, OnItsWay, Loading, KeepsTask, KeepsPath
<1>8. OneVersion'
  BY <1>3, <1>4, Stages DEF IInv, OneVersion, Leaving
<1>9. Witnessed'
  BY <1>3, <1>5 DEF IInv, Witnessed, Moves, Acts
<1>10. Blameless'
  BY <1>3, <1>4, Stages DEF IInv, Blameless, KeepsTask, Moves, Acts
<1>11. Confirmed'
  BY <1>3, <1>4, <1>5, Stages DEF IInv, Confirmed, Leaving, Held, KeepsTask, KeepsPath, Moves, Acts, Recalling
<1>12. Undisturbed'
  BY <1>3, <1>4, <1>5, Stages DEF IInv, Undisturbed, Current, Leaving, Moves, Acts, KeepsTask, KeepsPath,
     ManifestStands, RunsStand, SelectedStands, OtherStands
<1>13. ReleaseIsBlamed' /\ AnswerIsCurrent'
  BY <1>3, <1>4, VerdictKeeps, Stages DEF Moves, IInv, AnswerIsCurrent, Leaving, KeepsTask
<1> QED
  BY <1>6, <1>7, <1>8, <1>9, <1>10, <1>11, <1>12, <1>13 DEF IInv

(* In an intact release every component the walk comes to is there.        *)
LEMMA WalkIsIntact ==
  ASSUME IInv, reader.at \in Walking, deeds = 0, ~flawed
  PROVE  Current(Component) \notin Odd
<1>1. Intact(entry, content)
  BY DEF IInv, Undisturbed
<1>2. reader.level = 1 => Handle = "root1"
  BY DEF IInv, Undisturbed
<1> QED
  BY <1>1, <1>2, WalkIs DEF Intact, Current, Odd

(* The component is looked at.                                             *)
LEMMA LookKeeps == IInv /\ Look => IInv'
<1> SUFFICES ASSUME IInv, Look PROVE IInv'
  OBVIOUS
<1> DEFINE v == Current(Component)
<1>1. reader.at = "look" /\ reader.at \in Walking
  BY Stages DEF Look
<1>2. CASE FaultRefuse
  BY <1>1, <1>2, WalkIs, FaultKeeps
<1>3. CASE v = "absent" /\ Refuse(IF reader.task \in {"load", "open"} THEN "missing" ELSE "unsafe")
  <2> DEFINE c == IF reader.task \in {"load", "open"} THEN "missing" ELSE "unsafe"
  <2>1. c \in Causes /\ c # "io" /\ Refuse(c)
    BY <1>3 DEF Causes
  <2>2. ASSUME deeds = 0, ~flawed PROVE FALSE
    BY <1>1, <1>3, <2>2, WalkIsIntact DEF Odd
  <2>3. ASSUME Loading PROVE vanished
    <3>1. Missing(entry)
      BY <1>1, <1>3, <2>3, WalkIs DEF Missing, Current
    <3> QED
      BY <3>1 DEF IInv, Witnessed
  <2> HIDE DEF c
  <2> QED
    BY <1>1, <2>1, <2>2, <2>3, WalkIs, RefuseKeeps
<1>4. CASE v \in {"link", "odd"} /\ Refuse("unsafe")
  <2>1. ASSUME deeds = 0, ~flawed PROVE FALSE
    BY <1>1, <1>4, <2>1, WalkIsIntact DEF Odd
  <2>2. "unsafe" \in Causes /\ "unsafe" # "io" /\ "unsafe" # "missing"
    BY DEF Causes
  <2> QED
    BY <1>1, <1>4, <2>1, <2>2, WalkIs, RefuseKeeps
<1>5. CASE v \in Dir /\ Go([reader EXCEPT !.at = "enter", !.seen = v])
  <2>1. PICK w : w = v /\ Go([reader EXCEPT !.at = "enter", !.seen = w])
    BY <1>5
  <2>2. w \in Fits(At(Handle, Component))
    BY <1>1, <1>5, <2>1, WalkIs
  <2>3. reader' = [reader EXCEPT !.at = "enter", !.seen = w] /\ reader \in ReaderState /\ Moves
    BY <2>1, GoMoves
  <2>4. PICK k \in Dir \cup Odd \cup {"none"} : k = reader.child
    BY <2>3 DEF ReaderState
  <2>5. reader' = [reader EXCEPT !.at = "enter", !.seen = w, !.child = k]
    BY <2>3, <2>4 DEF ReaderState
  <2> QED
    BY <1>1, <2>1, <2>2, <2>3, <2>5, WalkOn
<1> QED
  BY <1>2, <1>3, <1>4, <1>5 DEF Look

(* A step to the call that tells why the open failed, or to the comparison.*)
LEMMA EnterKeeps == IInv /\ Enter => IInv'
<1> SUFFICES ASSUME IInv, Enter PROVE IInv'
  OBVIOUS
<1> DEFINE v == Current(Component)
<1>1. reader.at = "enter" /\ reader.at \in Walking \ {"look"}
  BY Stages DEF Enter
<1>2. reader \in ReaderState /\ reader.seen \in Fits(At(Handle, Component))
  BY <1>1 DEF IInv, OnItsWay, TypeOK
<1>3. PICK s \in Fits(At(Handle, Component)) : s = reader.seen
  BY <1>2
<1>4. deeds = 0 => v = s /\ v \in Dir /\ v \notin Odd
  BY <1>1, <1>2, <1>3, WalkIs DEF IInv, Undisturbed
<1>5. CASE v \in Dir \cup {"link"} /\ Go([reader EXCEPT !.at = "confirm", !.child = v])
  <2>1. PICK w \in Dir \cup Odd \cup {"none"} : w = v /\ Go([reader EXCEPT !.at = "confirm", !.child = w])
    BY <1>5 DEF Odd
  <2>2. reader' = [reader EXCEPT !.at = "confirm", !.child = w] /\ Moves
    BY <2>1, GoMoves
  <2>3. reader' = [reader EXCEPT !.at = "confirm", !.seen = s, !.child = w]
    BY <1>2, <1>3, <2>2 DEF ReaderState
  <2> QED
    BY <1>1, <1>4, <2>1, <2>2, <2>3, WalkOn
<1>6. CASE v \in Odd /\ Go([reader EXCEPT !.at = "why", !.child = v])
  <2>1. PICK w \in Dir \cup Odd \cup {"none"} : w = v /\ Go([reader EXCEPT !.at = "why", !.child = w])
    BY <1>6
  <2>2. reader' = [reader EXCEPT !.at = "why", !.child = w] /\ Moves
    BY <2>1, GoMoves
  <2>3. reader' = [reader EXCEPT !.at = "why", !.seen = s, !.child = w]
    BY <1>2, <1>3, <2>2 DEF ReaderState
  <2> QED
    BY <1>1, <1>4, <1>6, <2>1, <2>2, <2>3, WalkOn
<1>7. CASE FaultTo([reader EXCEPT !.at = "why", !.child = "odd"])
  <2>1. reader' = [reader EXCEPT !.at = "why", !.child = "odd"] /\ Moves /\ faulted'
    BY <1>7, FaultMoves
  <2>2. reader' = [reader EXCEPT !.at = "why", !.seen = s, !.child = "odd"]
    BY <1>2, <1>3, <2>1 DEF ReaderState
  <2>3. "odd" \in Dir \cup Odd \cup {"none"}
    BY DEF Odd
  <2> QED
    BY <1>1, <1>4, <2>1, <2>2, <2>3, WalkOn
<1> QED
  BY <1>5, <1>6, <1>7 DEF Enter

(* Why the open failed: unless somebody else was at work, a call had.      *)
LEMMA WhyKeeps == IInv /\ Why => IInv'
<1> SUFFICES ASSUME IInv, Why PROVE IInv'
  OBVIOUS
<1> DEFINE v == Current(Component)
<1>1. reader.at = "why" /\ reader.at \in Walking \ {"look"}
  BY Stages DEF Why
<1>2. reader.task # "done" /\ reader.at # "leave"
  BY <1>1, WalkIs
<1>3. deeds = 0 => v = reader.seen /\ reader.child = "odd" /\ faulted
  BY <1>1 DEF IInv, Undisturbed, Blameless
<1>4. {"unsafe", "io"} \subseteq Causes /\ "missing" \notin {"unsafe", "io"}
  BY DEF Causes
<1>5. CASE v # reader.seen /\ Refuse("unsafe")
  BY <1>2, <1>3, <1>4, <1>5, RefuseKeeps
<1>6. CASE v = reader.seen /\ Refuse(IF Loading /\ reader.child = "absent" THEN "unsafe" ELSE "io")
  <2> DEFINE c == IF Loading /\ reader.child = "absent" THEN "unsafe" ELSE "io"
  <2>1. c \in Causes /\ c # "missing" /\ (deeds = 0 => c = "io" /\ faulted) /\ Refuse(c)
    BY <1>3, <1>4, <1>6
  <2> HIDE DEF c
  <2> QED
    BY <1>2, <2>1, RefuseKeeps
<1>7. CASE FaultRefuse
  BY <1>2, <1>7, FaultKeeps
<1> QED
  BY <1>5, <1>6, <1>7 DEF Why

(* The invocation has come to a directory and goes on with a call there.   *)
Arrives(a, l, n) ==
  /\ Moves /\ reader' \in ReaderState
  /\ reader'.at = a /\ reader'.level = l /\ reader'.chain = n
  /\ reader'.task = reader.task /\ reader'.file = reader.file /\ reader'.data = reader.data
  /\ reader'.prior = reader.prior /\ reader'.manifest = reader.manifest /\ reader'.flaw = reader.flaw
  /\ reader'.todo = reader.todo /\ reader'.verdict = reader.verdict

(* The first directory, the evidence root.                                 *)
LEMMA RootKeeps ==
  ASSUME IInv, NEW h \in Home, reader.at \in Walking, reader.level = 0, entry[At("top", "root")] = h,
         Arrives("look", 1, IF Loading THEN <<"top", h>> ELSE <<h>>),
         KeepsTask, reader'.causes = {}
  PROVE  IInv'
<1>1. /\ reader'.at = "look" /\ reader'.level = 1 /\ Loading' = Loading
      /\ reader'.chain = IF Loading THEN <<"top", h>> ELSE <<h>>
  BY DEF Arrives, Loading
<1>2. Handle' = h
  BY <1>1 DEF Handle
<1>3. TypeOK'
  BY DEF Arrives, IInv, TypeOK, Moves, Acts
<1>4. OnItsWay'
  BY <1>1, WalkIs, Stages DEF Arrives, IInv, OnItsWay, Loading, KeepsTask
<1>5. OneVersion' /\ Witnessed'
  BY <1>1, Stages DEF Arrives, IInv, OneVersion, Witnessed, Leaving, Moves, Acts
<1>6. Confirmed'
  BY <1>1, <1>2, Stages DEF Arrives, IInv, Confirmed, Leaving, Held, Moves, Acts, Recalling, KeepsTask
<1>7. Undisturbed'
  <2>1. deeds = 0 => h = "root1"
    BY Places, StandingIs DEF IInv, Undisturbed, Odd, Home
  <2> QED
    BY <1>1, <1>2, <2>1, Stages DEF Arrives, IInv, Undisturbed, Leaving, Moves, Acts, KeepsTask,
       ManifestStands, RunsStand, SelectedStands, OtherStands
<1>8. Blameless'
  BY <1>1 DEF Arrives, IInv, Blameless, Moves, Acts, KeepsTask
<1>9. ReleaseIsBlamed' /\ AnswerIsCurrent'
  BY <1>1, VerdictKeeps, Stages DEF Moves, Arrives, IInv, AnswerIsCurrent, Leaving, KeepsTask
<1> QED
  BY <1>3, <1>4, <1>5, <1>6, <1>7, <1>8, <1>9 DEF IInv

(* The directory of the digest.                                            *)
LEMMA DigestKeeps ==
  ASSUME IInv, NEW h \in Home, NEW g \in Digest, reader.at \in Walking, reader.level = 1, Loading,
         reader.chain = <<"top", h>>, entry[At(h, "release")] = g,
         Arrives("verify", 1, <<"top", h, g>>), KeepsTask, reader'.causes = {}
  PROVE  IInv'
<1>1. /\ reader'.at = "verify" /\ reader'.level = 1 /\ Loading' = Loading /\ reader'.chain = <<"top", h, g>>
      /\ reader'.data = "none"
  BY DEF Arrives, Loading, IInv, OnItsWay
<1>2. TypeOK'
  BY DEF Arrives, IInv, TypeOK, Moves, Acts
<1>3. OnItsWay'
  BY <1>1, WalkIs, Stages DEF Arrives, IInv, OnItsWay, Loading, KeepsTask
<1>4. OneVersion' /\ Witnessed' /\ Confirmed'
  BY <1>1, Stages DEF Arrives, IInv, OneVersion, Witnessed, Confirmed, Loading, Leaving, Moves, Acts
<1>5. Undisturbed'
  <2>1. deeds = 0 => entry[At("top", "root")] = "root1" /\ Handle = "root1"
    BY DEF IInv, Undisturbed
  <2>2. Handle = h
    BY DEF Handle
  <2>3. deeds = 0 => g = "release1"
    BY <2>1, <2>2, Places, StandingIs DEF IInv, Undisturbed, Odd, Digest
  <2> QED
    BY <1>1, <2>1, <2>2, <2>3, Stages DEF Arrives, IInv, Undisturbed, Loading, Leaving, Moves, Acts, KeepsTask,
       ManifestStands, RunsStand, SelectedStands, OtherStands
<1>6. Blameless'
  BY <1>1 DEF Arrives, IInv, Blameless, Moves, Acts, KeepsTask
<1>7. ReleaseIsBlamed' /\ AnswerIsCurrent'
  BY <1>1, VerdictKeeps, Stages DEF Moves, Arrives, IInv, AnswerIsCurrent, Leaving, KeepsTask
<1> QED
  BY <1>2, <1>3, <1>4, <1>5, <1>6, <1>7 DEF IInv

(* The runs directory that is opened for the first time.                   *)
LEMMA RunsKeeps ==
  ASSUME IInv, NEW h \in Home, NEW d \in Runs, reader.at \in Walking, reader.level = 1, reader.task = "open",
         reader.chain = <<h>>, entry[At(h, "runs")] = d,
         Arrives("leave", 2, <<d>>), reader'.inside = reader.inside, reader'.runs = d, reader'.causes = {}
  PROVE  IInv'
<1>1. reader'.at = "leave" /\ reader'.task = "open" /\ ~Loading /\ ~Loading'
  BY DEF Arrives, Loading
<1>2. TypeOK'
  BY DEF Arrives, IInv, TypeOK, Moves, Acts
<1>3. OnItsWay'
  BY <1>1, WalkIs, Stages DEF Arrives, IInv, OnItsWay, Loading
<1>4. OneVersion' /\ Witnessed' /\ Confirmed'
  BY <1>1, Stages DEF Arrives, IInv, OneVersion, Witnessed, Confirmed, Loading, Leaving, Moves, Acts
<1>5. Undisturbed'
  <2>1. deeds = 0 => Handle = "root1"
    BY DEF IInv, Undisturbed
  <2>2. Handle = h
    BY DEF Handle
  <2>3. deeds = 0 => d = "runs1" /\ entry[At("root1", "runs")] = "runs1"
    BY <2>1, <2>2, Places, StandingIs DEF IInv, Undisturbed, Odd, Runs
  <2> QED
    BY <1>1, <2>3, Stages DEF Arrives, IInv, Undisturbed, Loading, Leaving, Moves, Acts,
       ManifestStands, RunsStand, SelectedStands, OtherStands
<1>6. Blameless'
  BY <1>1 DEF Arrives, IInv, Blameless, Moves, Acts
<1>7. ReleaseIsBlamed' /\ AnswerIsCurrent'
  BY <1>1, VerdictKeeps, Stages DEF Moves, Arrives, IInv, AnswerIsCurrent, Leaving
<1> QED
  BY <1>2, <1>3, <1>4, <1>5, <1>6, <1>7 DEF IInv

(* The runs directory again, and a record or the listing that is read in it.*)
LEMMA AgainKeeps ==
  ASSUME IInv, NEW h \in Home, NEW d \in Runs, reader.at \in Walking, reader.level = 1,
         reader.chain = <<h>>, entry[At(h, "runs")] = d, d = reader.runs, NEW a,
         \/ reader.task = "get" /\ a = "find" /\ reader'.name = "selected"
         \/ reader.task = "list" /\ a = "names",
         Arrives(a, 2, <<d>>), reader'.inside, reader'.runs = reader.runs, reader'.causes = {}
  PROVE  IInv'
<1>1. reader'.at = a /\ a \in {"find", "names"} /\ reader'.task = reader.task /\ ~Loading /\ ~Loading'
  BY DEF Arrives, Loading
<1>2. TypeOK'
  BY DEF Arrives, IInv, TypeOK, Moves, Acts
<1>3. OnItsWay'
  <2>1. Handle' = d
    BY DEF Arrives, Handle
  <2>2. At(d, "selected") \in Place /\ reader.todo = {}
    BY Places DEF IInv, OnItsWay
  <2> QED
    BY <1>1, <2>1, <2>2, WalkIs, Stages DEF Arrives, IInv, OnItsWay, Loading
<1>4. OneVersion' /\ Witnessed' /\ Confirmed'
  BY <1>1, Stages DEF Arrives, IInv, OneVersion, Witnessed, Confirmed, Loading, Leaving, Moves, Acts
<1>5. Undisturbed'
  BY <1>1, Stages DEF Arrives, IInv, Undisturbed, Loading, Leaving, Moves, Acts,
       ManifestStands, RunsStand, SelectedStands, OtherStands
<1>6. Blameless'
  BY <1>1 DEF Arrives, IInv, Blameless, Moves, Acts
<1>7. ReleaseIsBlamed' /\ AnswerIsCurrent'
  BY <1>1, VerdictKeeps, Stages DEF Moves, Arrives, IInv, AnswerIsCurrent, Leaving
<1> QED
  BY <1>2, <1>3, <1>4, <1>5, <1>6, <1>7 DEF IInv

(* The runs directory at the end: it is the one all was read in.           *)
LEMMA LastKeeps ==
  ASSUME IInv, NEW h \in Home, NEW d \in Runs, reader.at \in Walking, reader.level = 1,
         reader.chain = <<h>>, entry[At(h, "runs")] = d, d = reader.runs,
         reader.task \in {"get-end", "list-end"},
         Arrives("leave", 2, <<d>>), KeepsTask, reader'.causes = {}
  PROVE  IInv'
<1>1. reader'.at = "leave" /\ reader'.task = reader.task /\ ~Loading /\ ~Loading' /\ Handle = h
  BY DEF Arrives, Loading, Handle
<1>2. TypeOK'
  BY DEF Arrives, IInv, TypeOK, Moves, Acts
<1>3. OnItsWay'
  BY <1>1, WalkIs, Stages DEF Arrives, IInv, OnItsWay, Loading, KeepsTask
<1>4. OneVersion' /\ Witnessed'
  BY <1>1, Stages DEF Arrives, IInv, OneVersion, Witnessed, Loading, Leaving, Moves, Acts
<1>5. Confirmed'
  BY <1>1, Stages DEF Arrives, IInv, Confirmed, Loading, Leaving, Held, Moves, Acts, Recalling, KeepsTask
<1>6. Undisturbed'
  BY <1>1, Stages DEF Arrives, IInv, Undisturbed, Loading, Leaving, Moves, Acts, KeepsTask,
       ManifestStands, RunsStand, SelectedStands, OtherStands
<1>7. Blameless'
  BY <1>1 DEF Arrives, IInv, Blameless, Moves, Acts, KeepsTask
<1>8. ReleaseIsBlamed'
  BY VerdictKeeps DEF Moves, Arrives
<1>9. AnswerIsCurrent'
  <2>1. ASSUME reader.prior = {}
        PROVE  \E e \in Home : Held(At("top", "root"), e)' /\ Held(At(e, "runs"), d)'
    <3>1. Held(At("top", "root"), h) /\ Held(At(h, "runs"), d)
      BY <1>1, <2>1 DEF IInv, Confirmed, Held
    <3>2. Recalling(reader')
      <4>1. reader.task = "get-end" => reader.data # "none"
        BY <2>1 DEF IInv, Confirmed
      <4> QED
        BY <1>1, <4>1 DEF Arrives, Recalling
    <3>3. Moves
      BY DEF Arrives
    <3>4. Held(At("top", "root"), h)' /\ Held(At(h, "runs"), d)'
      BY <3>1, <3>2, <3>3 DEF Moves, Acts, Held
    <3> QED
      BY <3>4
  <2> QED
    BY <1>1, <1>5, <2>1 DEF Arrives, IInv, AnswerIsCurrent, Leaving, KeepsTask, Confirmed, Held
<1> QED
  BY <1>2, <1>3, <1>4, <1>5, <1>6, <1>7, <1>8, <1>9 DEF IInv

(* Appending to a short tuple, and the chains there are.                   *)
LEMMA AppendIs ==
  ASSUME NEW a, NEW b, NEW c
  PROVE  Append(<<a>>, b) = <<a, b>> /\ Append(<<a, b>>, c) = <<a, b, c>>
<1> DEFINE s == Append(<<a>>, b)
           t == Append(<<a, b>>, c)
<1>1. <<a>> \in Seq({a, b, c}) /\ <<a, b>> \in Seq({a, b, c})
  OBVIOUS
<1>2. s \in Seq({a, b, c}) /\ Len(s) = 2 /\ s[1] = a /\ s[2] = b
  BY <1>1
<1>3. t \in Seq({a, b, c}) /\ Len(t) = 3 /\ t[1] = a /\ t[2] = b /\ t[3] = c
  BY <1>1
<1> HIDE DEF s, t
<1>4. s = <<a, b>>
  BY <1>2
<1>5. t = <<a, b, c>>
  BY <1>3
<1> QED
  BY <1>4, <1>5 DEF s, t

(* The directories an invocation may hold open are chains.                 *)
LEMMA ChainsAre ==
  /\ \A h \in Home : <<h>> \in Chains /\ <<"top", h>> \in Chains
  /\ \A d \in Runs : <<d>> \in Chains
  /\ \A h \in Home, g \in Digest : <<"top", h, g>> \in Chains
<1>1. ASSUME NEW d \in {"top"} \cup Home \cup Runs PROVE <<d>> \in Chains
  BY DEF Chains
<1>2. ASSUME NEW h \in Home PROVE <<"top", h>> \in Chains
  BY DEF Chains
<1>3. ASSUME NEW h \in Home, NEW g \in Digest PROVE <<"top", h, g>> \in Chains
  BY DEF Chains
<1> QED
  BY <1>1, <1>2, <1>3

(* What Entered does at each of the two components.                        *)
LEMMA EnteredAt ==
  ASSUME IInv, reader.at \in Walking, NEW d \in Fits(At(Handle, Component)), reader.child = d, Entered
  PROVE  /\ reader.level = 0 =>
              /\ Arrives("look", 1, IF Loading THEN <<"top", d>> ELSE <<d>>) /\ KeepsTask /\ reader'.causes = {}
         /\ reader.level = 1 /\ Loading =>
              \A h \in Home : reader.chain = <<"top", h>> =>
                Arrives("verify", 1, <<"top", h, d>>) /\ KeepsTask /\ reader'.causes = {}
         /\ reader.level = 1 /\ reader.task = "open" =>
              /\ Arrives("leave", 2, <<d>>) /\ reader'.inside = reader.inside /\ reader'.runs = d
              /\ reader'.causes = {}
         /\ reader.level = 1 /\ reader.task \in {"get", "list", "get-end", "list-end"} /\ d # reader.runs =>
              /\ Arrives("leave", 2, <<d>>) /\ KeepsTask /\ reader'.causes = {"unsafe"}
         /\ reader.level = 1 /\ reader.task = "get" /\ d = reader.runs =>
              /\ Arrives("find", 2, <<d>>) /\ reader'.inside /\ reader'.runs = reader.runs /\ reader'.causes = {}
              /\ reader'.name = "selected"
         /\ reader.level = 1 /\ reader.task = "list" /\ d = reader.runs =>
              /\ Arrives("names", 2, <<d>>) /\ reader'.inside /\ reader'.runs = reader.runs /\ reader'.causes = {}
         /\ reader.level = 1 /\ reader.task \in {"get-end", "list-end"} /\ d = reader.runs =>
              /\ Arrives("leave", 2, <<d>>) /\ KeepsTask /\ reader'.causes = {}
<1> DEFINE n == IF Loading THEN Append(reader.chain, d) ELSE <<d>>
           r == [reader EXCEPT !.level = reader.level + 1, !.seen = "none", !.child = "none", !.chain = n]
<1>1. reader \in ReaderState /\ reader.causes = {} /\ reader.level \in {0, 1}
  BY WalkIs DEF IInv, TypeOK
<1>2. /\ n \in Chains
      /\ reader.level = 0 => n = IF Loading THEN <<"top", d>> ELSE <<d>>
      /\ reader.level = 1 /\ Loading => \A h \in Home : reader.chain = <<"top", h>> => n = <<"top", h, d>>
      /\ ~Loading => n = <<d>>
  <2>1. CASE reader.level = 0
    <3>1. reader.chain = <<"top">> /\ d \in Home
      BY <2>1, WalkIs
    <3>2. n = IF Loading THEN <<"top", d>> ELSE <<d>>
      BY <3>1, AppendIs
    <3>3. n \in Chains
      BY <3>1, <3>2, ChainsAre
    <3> HIDE DEF n
    <3> QED
      BY <2>1, <3>2, <3>3
  <2>2. CASE reader.level = 1 /\ Loading
    <3>1. PICK h \in Home : h = Handle /\ reader.chain = <<"top", h>> /\ d \in Digest
      BY <2>2, WalkIs
    <3>2. n = <<"top", h, d>>
      BY <2>2, <3>1, AppendIs
    <3>3. n \in Chains
      BY <3>1, <3>2, ChainsAre
    <3> HIDE DEF n
    <3>4. ASSUME NEW g \in Home, reader.chain = <<"top", g>> PROVE g = h
      BY <3>1, <3>4
    <3> QED
      BY <2>2, <3>2, <3>3, <3>4
  <2>3. CASE reader.level = 1 /\ ~Loading
    <3>1. n = <<d>> /\ d \in Runs
      BY <2>3, WalkIs
    <3>2. n \in Chains
      BY <3>1, ChainsAre
    <3> HIDE DEF n
    <3> QED
      BY <2>3, <3>1, <3>2
  <2> QED
    BY <1>1, <2>1, <2>2, <2>3
<1> HIDE DEF n
<1>3. r \in ReaderState
  <2>1. PICK l \in 0 .. 2 : l = reader.level + 1
    BY <1>1
  <2>2. r = [reader EXCEPT !.level = l, !.seen = "none", !.child = "none", !.chain = n]
    BY <2>1
  <2> HIDE DEF r
  <2> QED
    BY <1>1, <1>2, <2>2 DEF ReaderState
<1>4. /\ r.at = reader.at /\ r.level = reader.level + 1 /\ r.chain = n /\ r.task = reader.task /\ r.file = reader.file
      /\ r.data = reader.data /\ r.prior = reader.prior /\ r.manifest = reader.manifest /\ r.flaw = reader.flaw
      /\ r.todo = reader.todo /\ r.verdict = reader.verdict /\ r.inside = reader.inside /\ r.runs = reader.runs
      /\ r.causes = {}
  BY <1>1 DEF ReaderState
<1>5. IF r.level < 2
        THEN Go([r EXCEPT !.at = "look"])
      ELSE IF Loading
        THEN Go([r EXCEPT !.at = "verify", !.level = 1])
      ELSE IF reader.task = "open"
        THEN Go([r EXCEPT !.at = "leave", !.runs = reader.child])
      ELSE IF reader.child # reader.runs
        THEN Go([r EXCEPT !.at = "leave", !.causes = {"unsafe"}])
      ELSE CASE reader.task = "get" -> Go([r EXCEPT !.at = "find", !.name = "selected", !.inside = TRUE])
             [] reader.task = "list" -> Go([r EXCEPT !.at = "names", !.inside = TRUE])
             [] OTHER -> Go([r EXCEPT !.at = "leave"])
  BY DEF Entered, r, n
<1> HIDE DEF r
<1> USE DEF KeepsTask
<1>6. ASSUME reader.level = 0
      PROVE  Arrives("look", 1, IF Loading THEN <<"top", d>> ELSE <<d>>) /\ KeepsTask /\ reader'.causes = {}
  <2>1. reader' = [r EXCEPT !.at = "look"] /\ Moves
    BY <1>1, <1>4, <1>5, <1>6, GoMoves
  <2> QED
    BY <1>2, <1>3, <1>4, <1>6, <2>1, Stages DEF ReaderState, Arrives
<1>7. ASSUME reader.level = 1, Loading, NEW h \in Home, reader.chain = <<"top", h>>
      PROVE  Arrives("verify", 1, <<"top", h, d>>) /\ KeepsTask /\ reader'.causes = {}
  <2>1. reader' = [r EXCEPT !.at = "verify", !.level = 1] /\ Moves
    BY <1>1, <1>4, <1>5, <1>7, GoMoves
  <2>2. n = <<"top", h, d>>
    BY <1>2, <1>7
  <2>3. reader' \in ReaderState
    <3>1. "verify" \in Stage /\ 1 \in 0 .. 2
      BY Stages
    <3> QED
      BY <1>3, <2>1, <3>1, Zenon DEF ReaderState
  <2> QED
    BY <1>3, <1>4, <2>1, <2>2, <2>3 DEF ReaderState, Arrives
<1>8. ASSUME reader.level = 1, reader.task # "load" PROVE r.level = 2 /\ r.chain = <<d>> /\ ~Loading
  BY <1>2, <1>4, <1>8 DEF Loading
<1>9. ASSUME reader.level = 1, reader.task = "open"
      PROVE  /\ Arrives("leave", 2, <<d>>) /\ reader'.inside = reader.inside /\ reader'.runs = d
             /\ reader'.causes = {}
  <2>1. reader' = [r EXCEPT !.at = "leave", !.runs = d] /\ Moves
    BY <1>1, <1>5, <1>8, <1>9, GoMoves
  <2>2. d \in Runs
    BY <1>9, WalkIs DEF Loading
  <2>3. reader' \in ReaderState
    <3> DEFINE q == [r EXCEPT !.at = "leave"]
    <3>1. q \in ReaderState /\ reader' = [q EXCEPT !.runs = d]
      BY <1>3, <2>1, Stages DEF ReaderState
    <3> HIDE DEF q
    <3> QED
      BY <2>2, <3>1 DEF ReaderState
  <2> QED
    BY <1>3, <1>4, <1>8, <1>9, <2>1, <2>3 DEF ReaderState, Arrives
<1>10. ASSUME reader.level = 1, reader.task \in {"get", "list", "get-end", "list-end"}, d # reader.runs
       PROVE  Arrives("leave", 2, <<d>>) /\ KeepsTask /\ reader'.causes = {"unsafe"}
  <2>1. reader' = [r EXCEPT !.at = "leave", !.causes = {"unsafe"}] /\ Moves
    BY <1>1, <1>5, <1>8, <1>10, GoMoves
  <2>2. {"unsafe"} \subseteq Causes
    BY DEF Causes
  <2> QED
    BY <1>3, <1>4, <1>8, <1>10, <2>1, <2>2, Stages DEF ReaderState, Arrives
<1>11. ASSUME reader.level = 1, reader.task = "get", d = reader.runs
       PROVE  /\ Arrives("find", 2, <<d>>) /\ reader'.inside /\ reader'.runs = reader.runs /\ reader'.causes = {}
              /\ reader'.name = "selected"
  <2>1. reader' = [r EXCEPT !.at = "find", !.name = "selected", !.inside = TRUE] /\ Moves
    BY <1>1, <1>5, <1>8, <1>11, GoMoves
  <2> QED
    BY <1>3, <1>4, <1>8, <1>11, <2>1, Stages DEF ReaderState, Arrives
<1>12. ASSUME reader.level = 1, reader.task = "list", d = reader.runs
       PROVE  Arrives("names", 2, <<d>>) /\ reader'.inside /\ reader'.runs = reader.runs /\ reader'.causes = {}
  <2>1. reader' = [r EXCEPT !.at = "names", !.inside = TRUE] /\ Moves
    BY <1>1, <1>5, <1>8, <1>12, GoMoves
  <2> QED
    BY <1>3, <1>4, <1>8, <1>12, <2>1, Stages DEF ReaderState, Arrives
<1>13. ASSUME reader.level = 1, reader.task \in {"get-end", "list-end"}, d = reader.runs
       PROVE  Arrives("leave", 2, <<d>>) /\ KeepsTask /\ reader'.causes = {}
  <2>1. reader' = [r EXCEPT !.at = "leave"] /\ Moves
    BY <1>1, <1>5, <1>8, <1>13, GoMoves
  <2> QED
    BY <1>3, <1>4, <1>8, <1>13, <2>1, Stages DEF ReaderState, Arrives
<1> HIDE DEF KeepsTask
<1> QED
  BY <1>6, <1>7, <1>9, <1>10, <1>11, <1>12, <1>13

(* The directory that was opened is compared with what is at its name.     *)
LEMMA ConfirmKeeps == IInv /\ Confirm => IInv'
<1> SUFFICES ASSUME IInv, Confirm PROVE IInv'
  OBVIOUS
<1> DEFINE v == Current(Component)
<1>1. reader.at = "confirm" /\ reader.at \in Walking \ {"look"}
  BY Stages DEF Confirm
<1>2. /\ reader \in ReaderState /\ reader.seen \in Fits(At(Handle, Component)) /\ reader.task # "done"
      /\ reader.at # "leave" /\ reader.causes = {}
  BY <1>1, WalkIs DEF IInv, OnItsWay, TypeOK
<1>3. PICK d \in Fits(At(Handle, Component)) : d = reader.seen
  BY <1>2
<1>4. deeds = 0 => v = d /\ reader.child = d
  BY <1>1, <1>3 DEF IInv, Undisturbed
<1>5. CASE v = reader.seen /\ reader.child = reader.seen /\ Entered
  <2>1. d \in Dir /\ reader.child = d /\ entry[At(Handle, Component)] = d
    BY <1>1, <1>3, <1>5, WalkIs DEF Current
  <2>2. CASE reader.level = 0
    <3>1. d \in Home /\ entry[At("top", "root")] = d
      BY <1>1, <2>1, <2>2, WalkIs
    <3> QED
      BY <1>1, <1>5, <2>1, <2>2, <3>1, EnteredAt, RootKeeps
  <2>3. CASE reader.level = 1 /\ Loading
    <3>1. PICK h \in Home : h = Handle
      BY <1>1, <2>3, WalkIs
    <3>2. d \in Digest /\ reader.chain = <<"top", h>> /\ entry[At(h, "release")] = d
      BY <1>1, <2>1, <2>3, <3>1, WalkIs
    <3> QED
      BY <1>1, <1>5, <2>1, <2>3, <3>1, <3>2, EnteredAt, DigestKeeps
  <2>4. CASE reader.level = 1 /\ ~Loading
    <3>1. PICK h \in Home : h = Handle
      BY <1>1, <2>4, WalkIs
    <3>2. d \in Runs /\ reader.chain = <<h>> /\ entry[At(h, "runs")] = d
      BY <1>1, <2>1, <2>4, <3>1, WalkIs
    <3>3. reader.task \in {"open", "get", "list", "get-end", "list-end"}
      BY <1>2, <2>4 DEF ReaderState, Loading
    <3>4. CASE reader.task = "open"
      BY <1>1, <1>5, <2>1, <2>4, <3>2, <3>4, EnteredAt, RunsKeeps
    <3>5. CASE reader.task # "open" /\ d # reader.runs
      <4>1. deeds # 0
        <5>1. deeds = 0 => Handle = "root1" /\ reader.runs = "runs1" /\ entry[At("root1", "runs")] = "runs1"
          BY <1>1, <2>4, <3>3, <3>5 DEF IInv, Undisturbed, RunsStand
        <5> QED
          BY <3>1, <3>2, <3>5, <5>1
      <4>2. Arrives("leave", 2, <<d>>) /\ KeepsTask /\ reader'.causes = {"unsafe"}
        BY <1>1, <1>5, <2>1, <2>4, <3>3, <3>5, EnteredAt
      <4>3. "unsafe" \in Causes /\ "unsafe" # "io" /\ "unsafe" # "missing"
        BY DEF Causes
      <4> QED
        BY <1>2, <4>1, <4>2, <4>3, EndKeeps DEF Arrives
    <3>6. CASE reader.task \in {"get", "list"} /\ d = reader.runs
      BY <1>1, <1>5, <2>1, <2>4, <3>2, <3>6, EnteredAt, AgainKeeps
    <3>7. CASE reader.task \in {"get-end", "list-end"} /\ d = reader.runs
      BY <1>1, <1>5, <2>1, <2>4, <3>2, <3>7, EnteredAt, LastKeeps
    <3> QED
      BY <3>3, <3>4, <3>5, <3>6, <3>7
  <2> QED
    BY <1>1, <2>2, <2>3, <2>4, WalkIs
<1>6. CASE ~(v = reader.seen /\ reader.child = reader.seen) /\ Refuse("unsafe")
  <2>1. deeds # 0
    BY <1>3, <1>4, <1>6
  <2>2. "unsafe" \in Causes /\ "unsafe" # "io" /\ "unsafe" # "missing"
    BY DEF Causes
  <2> QED
    BY <1>2, <1>6, <2>1, <2>2, RefuseKeeps
<1>7. CASE FaultTo([reader EXCEPT !.at = "why", !.child = "odd"])
  <2>1. reader' = [reader EXCEPT !.at = "why", !.child = "odd"] /\ Moves /\ faulted'
    BY <1>7, FaultMoves
  <2>2. reader' = [reader EXCEPT !.at = "why", !.seen = d, !.child = "odd"]
    BY <1>2, <1>3, <2>1 DEF ReaderState
  <2>3. "odd" \in Dir \cup Odd \cup {"none"}
    BY DEF Odd
  <2> QED
    BY <1>1, <1>4, <2>1, <2>2, <2>3, WalkOn
<1>8. CASE FaultRefuse
  BY <1>2, <1>8, FaultKeeps
<1> QED
  BY <1>5, <1>6, <1>7, <1>8 DEF Confirm

------------------------------------------------------------------------------
(* The steps at a file.                                                    *)

(* The load is at one of its directories, the manifest's or the one above. *)
LEMMA VerifyIs ==
  ASSUME IInv, reader.at = "verify"
  PROVE  /\ Loading /\ reader.level \in {1, 2} /\ reader.causes = {} /\ reader.prior = {}
         /\ \E h \in Home, g \in Digest :
              /\ reader.chain = <<"top", h, g>>
              /\ Handle = g /\ reader.chain[1] = "top" /\ reader.chain[2] = h /\ reader.chain[3] = g
         /\ Walk[1] = "root" /\ Walk[2] = "release"
<1>1. /\ Loading /\ reader.level \in {1, 2} /\ reader.causes = {} /\ reader.prior = {}
      /\ \E h \in Home, g \in Digest : reader.chain = <<"top", h, g>>
  BY Stages DEF IInv, OnItsWay, Loading
<1>2. PICK h \in Home, g \in Digest : reader.chain = <<"top", h, g>>
  BY <1>1
<1> QED
  BY <1>1, <1>2 DEF Handle, Walk

(* Each directory is still at its name, one by one.                        *)
LEMMA VerifyKeeps == IInv /\ Verify => IInv'
<1> SUFFICES ASSUME IInv, Verify PROVE IInv'
  OBVIOUS
<1> DEFINE v == entry[At(reader.chain[reader.level], Walk[reader.level])]
<1>1. reader.at = "verify" /\ reader.at # "leave" /\ reader.task # "done" /\ reader.task = "load"
  BY VerifyIs DEF Verify, Loading
<1>2. PICK h \in Home, g \in Digest :
        /\ reader.chain = <<"top", h, g>>
        /\ Handle = g /\ reader.chain[1] = "top" /\ reader.chain[2] = h /\ reader.chain[3] = g
  BY <1>1, VerifyIs
<1>3. reader \in ReaderState /\ Walk[1] = "root" /\ Walk[2] = "release" /\ reader.causes = {}
  BY <1>1, VerifyIs DEF IInv, TypeOK
<1>4. /\ reader.level = 1 => v = entry[At("top", "root")] /\ reader.chain[reader.level + 1] = h
      /\ reader.level = 2 => v = entry[At(h, "release")] /\ reader.chain[reader.level + 1] = g
  BY <1>2, <1>3
<1>5. CASE v # reader.chain[reader.level + 1] /\ Refuse("unsafe")
  <2>1. deeds = 0 => reader.chain = <<"top", "root1", "release1">>
                     /\ entry[At("top", "root")] = "root1" /\ entry[At("root1", "release")] = "release1"
    BY <1>1 DEF IInv, Undisturbed, Loading
  <2>2. deeds # 0
    BY <1>1, <1>2, <1>4, <1>5, <2>1, VerifyIs
  <2>3. "unsafe" \in Causes /\ "unsafe" # "io" /\ "unsafe" # "missing"
    BY DEF Causes
  <2> QED
    BY <1>1, <1>5, <2>2, <2>3, RefuseKeeps
<1>6. CASE /\ v = reader.chain[reader.level + 1]
           /\ Go(IF reader.level < 2 THEN [reader EXCEPT !.level = 2]
                 ELSE IF reader.data = "none" THEN [reader EXCEPT !.at = "find", !.name = "manifest"]
                 ELSE [reader EXCEPT !.at = "leave"])
  <2> DEFINE r == IF reader.level < 2 THEN [reader EXCEPT !.level = 2]
                  ELSE IF reader.data = "none" THEN [reader EXCEPT !.at = "find", !.name = "manifest"]
                  ELSE [reader EXCEPT !.at = "leave"]
  <2>1. reader' = r /\ Moves /\ faulted' = faulted
    BY <1>6, GoMoves
  <2>2. CASE reader.level = 1
    <3>1. reader' = [reader EXCEPT !.level = 2]
      BY <2>1, <2>2
    <3>2. /\ reader' \in ReaderState /\ KeepsTask /\ reader'.chain = reader.chain /\ reader'.level = 2
          /\ reader'.at = "verify" /\ reader'.data = reader.data /\ reader'.file = reader.file
          /\ reader'.causes = {} /\ reader'.todo = reader.todo
      BY <1>1, <1>3, <3>1 DEF ReaderState, KeepsTask
    <3>3. TypeOK'
      BY <2>1, <3>2 DEF IInv, TypeOK, Moves, Acts
    <3>4. OnItsWay'
      BY <1>1, <1>2, <3>2, Stages DEF IInv, OnItsWay, Loading, KeepsTask
    <3>5. OneVersion' /\ Witnessed'
      BY <1>1, <2>1, <3>2, Stages DEF IInv, OneVersion, Witnessed, Loading, Leaving, Moves, Acts, KeepsTask
    <3>6. Confirmed'
      <4>1. Held(At("top", "root"), h)
        BY <1>4, <1>6, <2>2 DEF Held
      <4>2. reader.data # "none" => Held(At(g, "manifest"), reader.file)
        BY <1>1, <1>2 DEF IInv, Confirmed, Loading
      <4>3. reader'.chain[2] = h /\ reader'.chain[3] = g
        BY <1>2, <3>2
      <4> QED
        BY <1>1, <2>1, <3>2, <4>1, <4>2, <4>3, Stages
          DEF Confirmed, Loading, Leaving, Held, Moves, Acts, Recalling, KeepsTask
    <3>7. Undisturbed'
      BY <1>1, <2>1, <3>2, Stages DEF IInv, Undisturbed, Loading, Leaving, Moves, Acts, KeepsTask,
         ManifestStands, RunsStand, SelectedStands, OtherStands
    <3>8. Blameless'
      BY <1>1, <2>1, <3>2 DEF IInv, Blameless, Moves, Acts, KeepsTask
    <3>9. ReleaseIsBlamed' /\ AnswerIsCurrent'
      BY <1>1, <2>1, <3>2, VerdictKeeps DEF Moves, IInv, AnswerIsCurrent, Leaving, KeepsTask
    <3> QED
      BY <3>3, <3>4, <3>5, <3>6, <3>7, <3>8, <3>9 DEF IInv
  <2>3. CASE reader.level = 2 /\ reader.data = "none"
    <3>1. reader' = [reader EXCEPT !.at = "find", !.name = "manifest"]
      BY <2>1, <2>3
    <3>2. /\ reader' \in ReaderState /\ KeepsTask /\ reader'.chain = reader.chain /\ reader'.level = 2
          /\ reader'.at = "find" /\ reader'.data = reader.data /\ reader'.file = reader.file
          /\ reader'.causes = {} /\ reader'.todo = reader.todo /\ reader'.name = "manifest"
      BY <1>1, <1>3, <2>3, <3>1, Stages DEF ReaderState, KeepsTask
    <3>3. TypeOK'
      BY <2>1, <3>2 DEF IInv, TypeOK, Moves, Acts
    <3>4. OnItsWay'
      <4>1. Handle' = g /\ At(g, "manifest") \in Place
        BY <1>2, <3>2, Places DEF Handle
      <4> QED
        BY <1>1, <1>2, <3>2, <4>1, Stages DEF IInv, OnItsWay, Loading, KeepsTask
    <3>5. OneVersion' /\ Witnessed' /\ Confirmed'
      BY <1>1, <2>1, <3>2, Stages DEF IInv, OneVersion, Witnessed, Confirmed, Loading, Leaving, Moves, Acts, KeepsTask
    <3>6. Undisturbed'
      BY <1>1, <2>1, <3>2, Stages DEF IInv, Undisturbed, Loading, Leaving, Moves, Acts, KeepsTask,
         ManifestStands, RunsStand, SelectedStands, OtherStands
    <3>7. Blameless'
      BY <1>1, <2>1, <3>2 DEF IInv, Blameless, Moves, Acts, KeepsTask
    <3>8. ReleaseIsBlamed' /\ AnswerIsCurrent'
      BY <1>1, <2>1, <3>2, VerdictKeeps DEF Moves, IInv, AnswerIsCurrent, Leaving, KeepsTask
    <3> QED
      BY <3>3, <3>4, <3>5, <3>6, <3>7, <3>8 DEF IInv
  <2>4. CASE reader.level = 2 /\ reader.data # "none"
    <3>1. reader' = [reader EXCEPT !.at = "leave"]
      BY <2>1, <2>4
    <3>2. /\ reader' \in ReaderState /\ KeepsTask /\ reader'.chain = reader.chain
          /\ reader'.at = "leave" /\ reader'.data = reader.data /\ reader'.file = reader.file
          /\ reader'.causes = {} /\ reader'.todo = reader.todo
      BY <1>1, <1>3, <3>1, Stages DEF ReaderState, KeepsTask
    <3>3. TypeOK'
      BY <2>1, <3>2 DEF IInv, TypeOK, Moves, Acts
    <3>4. OnItsWay'
      BY <1>1, <1>2, <3>2, Stages DEF IInv, OnItsWay, Loading, KeepsTask
    <3>5. OneVersion' /\ Witnessed'
      BY <1>1, <2>1, <3>2, Stages DEF IInv, OneVersion, Witnessed, Loading, Leaving, Moves, Acts, KeepsTask
    <3>6. Confirmed'
      BY <1>1, <1>2, <2>4, <3>2, Stages DEF IInv, Confirmed, Loading, Leaving, KeepsTask
    <3>7. Undisturbed'
      BY <1>1, <2>1, <2>4, <3>2, Stages DEF IInv, Undisturbed, Loading, Leaving, Moves, Acts, KeepsTask,
         ManifestStands, RunsStand, SelectedStands, OtherStands
    <3>8. Blameless'
      BY <1>1, <2>1, <3>2 DEF IInv, Blameless, Moves, Acts, KeepsTask
    <3>9. AnswerIsCurrent'
      <4>1. Held(At("top", "root"), h) /\ Held(At(g, "manifest"), reader.file) /\ Held(At(h, "release"), g)
        BY <1>1, <1>2, <1>4, <1>6, <2>4 DEF IInv, Confirmed, Loading, Held
      <4>2. Handle' = g /\ Walk'[1] = "root" /\ Walk'[2] = "release"
        BY <1>1, <1>2, <3>2 DEF Handle, Walk, Loading, KeepsTask
      <4>3. reader'.chain[1] = "top" /\ reader'.chain[2] = h /\ reader'.chain[3] = g
        BY <1>2, <3>2
      <4>4. \A i \in 1 .. 2 : Held(At(reader'.chain[i], Walk'[i]), reader'.chain[i + 1])
        BY <2>1, <2>4, <3>2, <4>1, <4>2, <4>3 DEF Held, Moves, Acts, Recalling
      <4> QED
        BY <1>1, <2>1, <2>4, <3>2, <4>1, <4>2, <4>4
          DEF IInv, AnswerIsCurrent, Leaving, KeepsTask, Held, Moves, Acts, Recalling
    <3>10. ReleaseIsBlamed'
      BY <2>1, <3>2, VerdictKeeps DEF Moves, KeepsTask
    <3> QED
      BY <3>3, <3>4, <3>5, <3>6, <3>7, <3>8, <3>9, <3>10 DEF IInv
  <2> QED
    BY <1>1, <2>2, <2>3, <2>4, VerifyIs
<1>7. CASE FaultRefuse
  BY <1>1, <1>7, FaultKeeps
<1> QED
  BY <1>5, <1>6, <1>7 DEF Verify

(* The invocation goes on with another call in the same directories.       *)
Stays == /\ Acts /\ KeepsTask /\ KeepsPath /\ reader' \in ReaderState
         /\ reader'.causes = reader.causes /\ reader'.name = reader.name /\ reader'.todo = reader.todo

(* A step to the next call at the same file.                               *)
LEMMA FileOn ==
  ASSUME IInv, Stays, reader.at \in Filing \cup {"find"}, reader'.at \in Filing,
         reader'.seen \in Fits(At(Handle, reader.name)),
         reader'.at \in Reading => reader'.file = reader'.seen,
         reader'.at = "read-on" => reader'.half # "none",
         reader'.at \in {"decode", "recheck"} => reader'.data # "none",
         reader'.saw <= stamp[reader'.seen],
         reader'.at = "read-on" /\ reader'.saw = stamp[reader'.seen] => reader'.half = content[reader'.seen],
         reader'.at \in {"decode", "recheck"} /\ reader'.saw = stamp[reader'.seen] => reader'.data # "torn",
         deeds = 0 =>
           /\ Current(reader.name) = reader'.seen /\ content[reader'.seen] # "huge"
           /\ stamp[reader'.seen] = reader'.saw
           /\ reader'.at = "check-file" => reader'.file = reader'.seen
           /\ reader'.at = "why-file" => reader'.file = "odd"
           /\ reader'.at = "read-on" => reader'.half = content[reader'.seen]
           /\ reader'.at \in {"decode", "recheck"} => reader'.data = content[reader'.seen]
           /\ reader'.at = "recheck" /\ Loading => reader'.data \in Text,
         deeds = 0 /\ ~faulted' => reader'.at # "why-file"
  PROVE  IInv'
<1>1. Acts /\ KeepsTask /\ KeepsPath /\ reader'.causes = {} /\ reader'.name = reader.name /\ reader'.todo = reader.todo
  BY FileIs DEF Stays
<1>2. Handle' = Handle /\ Loading' = Loading
  BY <1>1, StaysPut
<1>3. reader'.at \notin Walking \cup {"leave", "verify", "find", "names", "scan"}
  BY Stages
<1>4. TypeOK'
  BY DEF IInv, TypeOK, Acts, Stays
<1>5. OnItsWay'
  BY <1>1, <1>2, <1>3, FileIs, Stages DEF IInv, OnItsWay, Loading, KeepsTask, KeepsPath
<1>6. OneVersion'
  BY <1>1, <1>3, Stages DEF OneVersion, Leaving, Acts
<1>7. Witnessed'
  BY <1>1, <1>2 DEF IInv, Witnessed, Acts
<1>8. Confirmed'
  <2>1. reader.task \notin {"get-end", "list-end"}
    BY FileIs DEF Loading
  <2> QED
    BY <1>1, <1>3, <2>1 DEF Confirmed, Leaving, KeepsTask
<1>9. Blameless'
  BY <1>1, <1>3, FileIs, Stages DEF IInv, Blameless, KeepsTask, Acts
<1>10. Undisturbed'
  <2> SUFFICES ASSUME deeds = 0 PROVE Undisturbed'
    BY <1>1 DEF Undisturbed, Acts
  <2>1. /\ Current(reader.name)' = reader'.seen /\ content'[reader'.seen] # "huge" /\ stamp'[reader'.seen] = reader'.saw
        /\ reader'.at = "check-file" => reader'.file = reader'.seen
        /\ reader'.at = "why-file" => reader'.file = "odd"
        /\ reader'.at = "read-on" => reader'.half = content'[reader'.seen]
        /\ reader'.at \in {"decode", "recheck"} => reader'.data = content'[reader'.seen]
        /\ reader'.at = "recheck" /\ Loading' => reader'.data \in Text
    BY <1>1, <1>2 DEF Current, Acts
  <2>2. Loading' =>
          /\ reader'.chain = <<"top", "root1", "release1">>
          /\ entry'[At("top", "root")] = "root1" /\ entry'[At("root1", "release")] = "release1"
    BY <1>1, <1>2 DEF IInv, Undisturbed, Acts, KeepsPath
  <2>3. /\ (flawed <=> ~Intact(entry, content))' /\ \A p \in Place : entry'[p] \in {Standing[p]} \cup Odd
        /\ reader'.task \in {"open", "get", "get-end", "list", "list-end"} =>
             ManifestStands' /\ reader'.manifest = content'["manifest1"]
        /\ reader'.task \in {"get", "get-end", "list", "list-end"} => RunsStand'
    BY <1>1 DEF IInv, Undisturbed, Acts, KeepsTask, ManifestStands, RunsStand
  <2>4. reader'.task = "list" =>
          /\ \A n \in reader'.todo : entry'[At(reader'.runs, n)] # "absent"
          /\ ~reader'.flaw =>
               /\ SelectedStands' /\ content'["selected1"] = reader'.manifest
               /\ OtherStands' \/ "other" \in reader'.todo \/ reader'.name = "other"
    BY <1>1 DEF IInv, Undisturbed, Acts, KeepsTask, SelectedStands, OtherStands
  <2>5. reader'.task \notin {"get-end", "list-end"}
    BY <1>1, FileIs DEF Loading, KeepsTask
  <2> QED
    BY <1>3, <2>1, <2>2, <2>3, <2>4, <2>5, Stages DEF Undisturbed, Leaving
<1>11. ReleaseIsBlamed' /\ AnswerIsCurrent'
  BY <1>1, <1>3, VerdictKeeps DEF IInv, AnswerIsCurrent, Leaving, KeepsTask
<1> QED
  BY <1>4, <1>5, <1>6, <1>7, <1>8, <1>9, <1>10, <1>11 DEF IInv

(* What the invocation holds while it is at a file.                        *)
LEMMA FileHas ==
  ASSUME IInv, reader.at \in Filing
  PROVE  /\ reader \in ReaderState /\ reader.seen \in Fits(At(Handle, reader.name))
         /\ reader.seen \in File /\ stamp[reader.seen] \in Nat /\ content[reader.seen] \in Content
         /\ reader.at \in Reading => reader.file = reader.seen
         /\ reader.saw \in Nat /\ reader.saw <= stamp[reader.seen]
         /\ reader.task # "done" /\ reader.at # "leave"
<1>1. reader \in ReaderState /\ reader.seen \in Fits(At(Handle, reader.name)) /\ reader.saw \in Nat
  BY DEF IInv, TypeOK, OnItsWay, ReaderState
<1>2. reader.seen \in File /\ reader.task # "done" /\ reader.at # "leave"
  BY <1>1, FileIs
<1>3. /\ stamp[reader.seen] \in Nat /\ content[reader.seen] \in Content
      /\ reader.at \in Reading => reader.file = reader.seen
      /\ reader.saw <= stamp[reader.seen]
  BY <1>2 DEF IInv, TypeOK, OnItsWay, OneVersion
<1> QED
  BY <1>1, <1>2, <1>3

(* In an intact release every file that is asked for is there.             *)
LEMMA FileIsIntact ==
  ASSUME IInv, reader.at \in Filing \cup {"find"}, deeds = 0, ~flawed
  PROVE  Current(reader.name) \in File /\ content[Current(reader.name)] \in Text
<1>1. Intact(entry, content)
  BY DEF IInv, Undisturbed
<1>2. CASE Loading
  <2>1. reader.name = "manifest" /\ Handle = reader.chain[3] /\ reader.chain = <<"top", "root1", "release1">>
    BY <1>2, FileIs DEF IInv, Undisturbed
  <2>2. Handle = "release1"
    BY <2>1
  <2> QED
    BY <1>1, <2>1, <2>2 DEF Intact, Current, File, Manifests
<1>3. CASE ~Loading
  <2>1. /\ reader.task \in {"get", "list"} /\ Handle = reader.runs /\ reader.name \in {"selected", "other"}
        /\ reader.runs = "runs1"
    BY <1>3, FileIs DEF IInv, Undisturbed, RunsStand
  <2>2. reader.task = "get" => reader.name = "selected"
    BY <1>3, <2>1 DEF IInv, OnItsWay
  <2>3. reader.task = "list" => Current(reader.name) # "absent"
    <3>1. CASE reader.at = "find"
      BY <2>1, <3>1 DEF IInv, Undisturbed
    <3>2. CASE reader.at \in Filing
      <4>1. Current(reader.name) = reader.seen /\ reader.seen \in Fits(At(Handle, reader.name))
        BY <3>2 DEF IInv, Undisturbed, OnItsWay
      <4> QED
        BY <4>1, FileIs DEF Odd
    <3> QED
      BY <3>1, <3>2
  <2>4. content["selected1"] \in Text /\ (entry[At("runs1", "other")] = "other1" => content["other1"] \in Text)
    BY <1>1 DEF Intact
  <2> QED
    BY <1>1, <2>1, <2>2, <2>3, <2>4 DEF Intact, Current, File, Records
<1> QED
  BY <1>2, <1>3

(* The file is looked at.                                                  *)
LEMMA FindKeeps == IInv /\ Find => IInv'
<1> SUFFICES ASSUME IInv, Find PROVE IInv'
  OBVIOUS
<1> DEFINE v == Current(reader.name)
<1>1. reader.at = "find" /\ reader.at # "leave" /\ reader.task # "done"
  BY FileIs DEF Find
<1>2. /\ v \in Fits(At(Handle, reader.name)) \cup Odd /\ Fits(At(Handle, reader.name)) \subseteq File
      /\ File \cap Odd = {}
  BY <1>1, FileIs
<1>3. deeds = 0 /\ ~flawed => v \in File /\ content[v] \in Text
  BY <1>1, FileIsIntact
<1>4. "huge" \notin Text
  BY DEF Text
<1>5. CASE v = "absent" /\ Refuse(IF reader.task = "list" THEN "corrupt" ELSE "missing")
  <2> DEFINE c == IF reader.task = "list" THEN "corrupt" ELSE "missing"
  <2>1. c \in Causes /\ c # "io" /\ Refuse(c)
    BY <1>5 DEF Causes
  <2>2. ~(deeds = 0 /\ ~flawed)
    BY <1>2, <1>3, <1>5 DEF Odd
  <2>3. ASSUME Loading PROVE vanished
    <3>1. Handle \in Digest /\ reader.name = "manifest"
      BY <1>1, <2>3, FileIs
    <3>2. Missing(entry)
      BY <1>5, <3>1 DEF Missing, Current
    <3> QED
      BY <3>2 DEF IInv, Witnessed
  <2> HIDE DEF c
  <2> QED
    BY <1>1, <2>1, <2>2, <2>3, RefuseKeeps
<1>6. CASE v = "link" /\ Refuse("unsafe")
  <2>1. ~(deeds = 0 /\ ~flawed) /\ "unsafe" \in Causes /\ "unsafe" # "io" /\ "unsafe" # "missing"
    BY <1>2, <1>3, <1>6 DEF Odd, Causes
  <2> QED
    BY <1>1, <1>6, <2>1, RefuseKeeps
<1>7. CASE v = "odd" /\ Refuse(IF Loading THEN "unsafe" ELSE "corrupt")
  <2> DEFINE c == IF Loading THEN "unsafe" ELSE "corrupt"
  <2>1. ~(deeds = 0 /\ ~flawed) /\ c \in Causes /\ c # "io" /\ c # "missing" /\ Refuse(c)
    BY <1>2, <1>3, <1>7 DEF Odd, Causes
  <2> HIDE DEF c
  <2> QED
    BY <1>1, <2>1, RefuseKeeps
<1>8. CASE v \in File /\ content[v] = "huge" /\ Refuse("large")
  <2>1. ~(deeds = 0 /\ ~flawed) /\ "large" \in Causes /\ "large" # "io" /\ "large" # "missing"
    BY <1>3, <1>4, <1>8 DEF Causes
  <2> QED
    BY <1>1, <1>8, <2>1, RefuseKeeps
<1>9. CASE v \in File /\ content[v] # "huge" /\ Go([reader EXCEPT !.at = "open-file", !.seen = v, !.saw = stamp[v]])
  <2>1. PICK s \in Fits(At(Handle, reader.name)), w \in Nat : s = v /\ w = stamp[s]
    BY <1>2, <1>9 DEF IInv, TypeOK
  <2>2. reader' = [reader EXCEPT !.at = "open-file", !.seen = s, !.saw = w] /\ reader \in ReaderState /\ Moves
    BY <1>9, <2>1, GoMoves
  <2>3. s \in Object
    BY <1>9, <2>1 DEF Object
  <2>4. reader' \in ReaderState
    BY <2>2, <2>3, Stages DEF ReaderState
  <2>5. Stays /\ reader'.at = "open-file" /\ reader'.seen = s /\ reader'.saw = w
    BY <2>2, <2>4 DEF ReaderState, Stays, Moves, KeepsTask, KeepsPath
  <2> QED
    BY <1>1, <1>9, <2>1, <2>5, FileOn, Stages
<1>10. CASE FaultRefuse
  BY <1>1, <1>10, FaultKeeps
<1> QED
  BY <1>5, <1>6, <1>7, <1>8, <1>9, <1>10 DEF Find

(* The file is opened.                                                     *)
LEMMA OpenFileKeeps == IInv /\ OpenFile => IInv'
<1> SUFFICES ASSUME IInv, OpenFile PROVE IInv'
  OBVIOUS
<1> DEFINE v == Current(reader.name)
<1>1. reader.at = "open-file" /\ reader.at \in Filing
  BY Stages DEF OpenFile
<1>2. /\ reader \in ReaderState /\ reader.saw <= stamp[reader.seen] /\ reader.seen \in File /\ File \cap Odd = {}
      /\ reader.seen \in Fits(At(Handle, reader.name))
  BY <1>1, FileHas, FileIs
<1>3. deeds = 0 => v = reader.seen /\ content[reader.seen] # "huge" /\ stamp[reader.seen] = reader.saw
  BY <1>1 DEF IInv, Undisturbed
<1>4. CASE v \in File \cup {"link"} /\ Go([reader EXCEPT !.at = "check-file", !.file = v])
  <2>1. PICK k \in File \cup Odd \cup {"none"} : k = v
    BY <1>4 DEF Odd
  <2>2. reader' = [reader EXCEPT !.at = "check-file", !.file = k] /\ Moves
    BY <1>4, <2>1, GoMoves
  <2>3. reader' \in ReaderState
    BY <1>2, <2>2, Stages DEF ReaderState
  <2>4. Stays /\ reader'.at = "check-file" /\ reader'.seen = reader.seen /\ reader'.saw = reader.saw /\ reader'.file = k
    BY <1>2, <2>2, <2>3 DEF ReaderState, Stays, Moves, KeepsTask, KeepsPath
  <2> QED
    BY <1>1, <1>2, <1>3, <2>1, <2>4, FileOn, Stages
<1>5. CASE v \in Odd /\ Go([reader EXCEPT !.at = "why-file", !.file = v])
  <2>1. PICK k \in File \cup Odd \cup {"none"} : k = v
    BY <1>5
  <2>2. reader' = [reader EXCEPT !.at = "why-file", !.file = k] /\ Moves
    BY <1>5, <2>1, GoMoves
  <2>3. reader' \in ReaderState
    BY <1>2, <2>2, Stages DEF ReaderState
  <2>4. Stays /\ reader'.at = "why-file" /\ reader'.seen = reader.seen /\ reader'.saw = reader.saw
    BY <1>2, <2>2, <2>3 DEF ReaderState, Stays, Moves, KeepsTask, KeepsPath
  <2>5. deeds # 0
    BY <1>2, <1>3, <1>5
  <2> QED
    BY <1>1, <1>2, <2>4, <2>5, FileOn, Stages
<1>6. CASE FaultTo([reader EXCEPT !.at = "why-file", !.file = "odd"])
  <2>1. reader' = [reader EXCEPT !.at = "why-file", !.file = "odd"] /\ Moves /\ faulted'
    BY <1>6, FaultMoves
  <2>2. "odd" \in File \cup Odd \cup {"none"}
    BY DEF Odd
  <2>3. reader' \in ReaderState
    BY <1>2, <2>1, <2>2, Stages DEF ReaderState
  <2>4. Stays /\ reader'.at = "why-file" /\ reader'.seen = reader.seen /\ reader'.saw = reader.saw /\ reader'.file = "odd"
    BY <1>2, <2>1, <2>3 DEF ReaderState, Stays, Moves, KeepsTask, KeepsPath
  <2> QED
    BY <1>1, <1>2, <1>3, <2>1, <2>4, FileOn, Stages
<1> QED
  BY <1>4, <1>5, <1>6 DEF OpenFile

(* A path that does not lead to the file that was seen.                    *)
LEMMA ChangedIs ==
  ASSUME NEW v
  PROVE  ChangedTo(v) \in Causes /\ ChangedTo(v) # "io" /\ ChangedTo(v) # "missing"
  BY DEF ChangedTo, Causes

(* Why the open failed: unless somebody else was at work, a call had.      *)
LEMMA WhyFileKeeps == IInv /\ WhyFile => IInv'
<1> SUFFICES ASSUME IInv, WhyFile PROVE IInv'
  OBVIOUS
<1> DEFINE v == Current(reader.name)
<1>1. reader.at = "why-file" /\ reader.at \in Filing /\ reader.task # "done" /\ reader.at # "leave"
  BY Stages, FileIs DEF WhyFile
<1>2. deeds = 0 => Same(v) /\ reader.file = "odd" /\ faulted
  BY <1>1 DEF IInv, Undisturbed, Blameless, Same
<1>3. CASE ~Same(v) /\ Refuse(ChangedTo(v))
  BY <1>1, <1>2, <1>3, ChangedIs, RefuseKeeps
<1>4. CASE Same(v) /\ Refuse(IF Loading /\ reader.file = "absent" THEN "unsafe" ELSE "io")
  <2> DEFINE c == IF Loading /\ reader.file = "absent" THEN "unsafe" ELSE "io"
  <2>1. c \in Causes /\ c # "missing" /\ (deeds = 0 => c = "io" /\ faulted) /\ Refuse(c)
    BY <1>2, <1>4 DEF Causes
  <2> HIDE DEF c
  <2> QED
    BY <1>1, <2>1, RefuseKeeps
<1>5. CASE FaultRefuse
  BY <1>1, <1>5, FaultKeeps
<1> QED
  BY <1>3, <1>4, <1>5 DEF WhyFile

(* The file that was opened, and the one at the path, are the one seen.    *)
LEMMA CheckFileKeeps == IInv /\ CheckFile => IInv'
<1> SUFFICES ASSUME IInv, CheckFile PROVE IInv'
  OBVIOUS
<1> DEFINE v == Current(reader.name)
<1>1. reader.at = "check-file" /\ reader.at \in Filing /\ reader.task # "done" /\ reader.at # "leave"
  BY Stages, FileIs DEF CheckFile
<1>2. deeds = 0 => Same(v) /\ Same(reader.file) /\ v = reader.seen /\ content[reader.seen] # "huge"
                   /\ stamp[reader.seen] = reader.saw
  BY <1>1 DEF IInv, Undisturbed, Same
<1>3. CASE ~Same(v) /\ Refuse(ChangedTo(v))
  BY <1>1, <1>2, <1>3, ChangedIs, RefuseKeeps
<1>4. CASE ~Same(reader.file) /\ Refuse(IF Loading THEN "unsafe" ELSE "corrupt")
  <2> DEFINE c == IF Loading THEN "unsafe" ELSE "corrupt"
  <2>1. c \in Causes /\ c # "missing" /\ c # "io" /\ Refuse(c)
    BY <1>4 DEF Causes
  <2> HIDE DEF c
  <2> QED
    BY <1>1, <1>2, <1>4, <2>1, RefuseKeeps
<1>5. CASE Same(v) /\ Same(reader.file) /\ Go([reader EXCEPT !.at = "read"])
  <2>1. reader' = [reader EXCEPT !.at = "read"] /\ Moves /\ reader \in ReaderState
    BY <1>5, GoMoves
  <2>2. reader' \in ReaderState
    BY <2>1, Stages DEF ReaderState
  <2>3. /\ Stays /\ reader'.at = "read" /\ reader'.seen = reader.seen /\ reader'.saw = reader.saw
        /\ reader'.file = reader.file
    BY <2>1, <2>2 DEF ReaderState, Stays, Moves, KeepsTask, KeepsPath
  <2> QED
    BY <1>1, <1>2, <1>5, <2>3, FileHas, FileOn, Stages DEF Same
<1>6. CASE FaultRefuse
  BY <1>1, <1>6, FaultKeeps
<1> QED
  BY <1>3, <1>4, <1>5, <1>6 DEF CheckFile

(* The first call that reads: what it returns is what the file holds.      *)
LEMMA ReadKeeps == IInv /\ Read => IInv'
<1> SUFFICES ASSUME IInv, Read PROVE IInv'
  OBVIOUS
<1>1. reader.at = "read" /\ reader.at \in Reading \cap Filing /\ reader.task # "done" /\ reader.at # "leave"
  BY Stages, FileIs DEF Read
<1>2. /\ reader.file = reader.seen /\ content[reader.seen] \in Content /\ "none" \notin Content
      /\ reader.seen \in Fits(At(Handle, reader.name)) /\ reader.saw <= stamp[reader.seen]
  BY <1>1, FileHas DEF Content, Text
<1>3. deeds = 0 => /\ Current(reader.name) = reader.seen /\ content[reader.seen] # "huge"
                   /\ stamp[reader.seen] = reader.saw
  BY <1>1 DEF IInv, Undisturbed
<1>4. CASE Go([reader EXCEPT !.at = "read-on", !.half = content[reader.file]])
  <2>1. PICK h \in Content : h = content[reader.seen]
    BY <1>2
  <2>2. reader' = [reader EXCEPT !.at = "read-on", !.half = h] /\ Moves /\ reader \in ReaderState
    BY <1>2, <1>4, <2>1, GoMoves
  <2>3. reader' \in ReaderState
    BY <2>2, Stages DEF ReaderState
  <2>4. /\ Stays /\ reader'.at = "read-on" /\ reader'.seen = reader.seen /\ reader'.saw = reader.saw
        /\ reader'.file = reader.file /\ reader'.half = h
    BY <2>2, <2>3 DEF ReaderState, Stays, Moves, KeepsTask, KeepsPath
  <2> QED
    BY <1>1, <1>2, <1>3, <2>1, <2>4, FileOn, Stages
<1>5. CASE FaultRefuse
  BY <1>1, <1>5, FaultKeeps
<1> QED
  BY <1>4, <1>5 DEF Read

(* The last: if the stamp is still the same it is one version of the file. *)
LEMMA ReadOnKeeps == IInv /\ ReadOn => IInv'
<1> SUFFICES ASSUME IInv, ReadOn PROVE IInv'
  OBVIOUS
<1> DEFINE text == IF content[reader.file] = reader.half THEN reader.half ELSE "torn"
           a == IF Loading THEN "decode" ELSE "recheck"
<1>1. reader.at = "read-on" /\ reader.at \in Reading \cap Filing /\ reader.task # "done" /\ reader.at # "leave"
  BY Stages, FileIs DEF ReadOn
<1>2. /\ reader.file = reader.seen /\ content[reader.seen] \in Content
      /\ "none" \notin Content /\ "torn" \notin Content
      /\ reader.seen \in Fits(At(Handle, reader.name)) /\ reader.saw <= stamp[reader.seen]
  BY <1>1, FileHas DEF Content, Text
<1>3. deeds = 0 => /\ Current(reader.name) = reader.seen /\ content[reader.seen] # "huge"
                   /\ stamp[reader.seen] = reader.saw /\ reader.half = content[reader.seen]
  BY <1>1 DEF IInv, Undisturbed
<1>4. reader.saw = stamp[reader.seen] => reader.half = content[reader.seen]
  BY <1>1 DEF IInv, OneVersion
<1>5. CASE /\ Becomes([reader EXCEPT !.at = IF Loading THEN "decode" ELSE "recheck", !.data = text, !.half = "none"])
           /\ past' = {} /\ UNCHANGED faulted
  <2>1. PICK x \in Content \cup {"torn"} : x = text
    BY <1>2
  <2>2. PICK b \in {"decode", "recheck"} : b = a
    OBVIOUS
  <2>3. reader' = [reader EXCEPT !.at = b, !.data = x, !.half = "none"] /\ Acts /\ reader \in ReaderState
    BY <1>5, <2>1, <2>2 DEF Becomes, Acts, IInv, TypeOK
  <2>4. reader' \in ReaderState
    <3> DEFINE q == [reader EXCEPT !.at = b]
               r == [q EXCEPT !.half = "none"]
    <3>1. q \in ReaderState
      BY <2>3, Stages DEF ReaderState
    <3>2. reader' = [r EXCEPT !.data = x]
      BY <2>3
    <3> HIDE DEF q
    <3>3. r \in ReaderState
      BY <3>1 DEF ReaderState
    <3> HIDE DEF r
    <3> QED
      BY <3>2, <3>3 DEF ReaderState
  <2>5. /\ Stays /\ reader'.at = b /\ reader'.seen = reader.seen /\ reader'.saw = reader.saw
        /\ reader'.file = reader.file /\ reader'.data = x
    BY <2>3, <2>4 DEF ReaderState, Stays, KeepsTask, KeepsPath
  <2>6. reader.saw = stamp[reader.seen] => x = content[reader.seen]
    BY <1>2, <1>4, <2>1
  <2> QED
    BY <1>1, <1>2, <1>3, <2>1, <2>2, <2>5, <2>6, FileOn, Stages
<1>6. CASE FaultRefuse
  BY <1>1, <1>6, FaultKeeps
<1> QED
  BY <1>5, <1>6 DEF ReadOn

(* What was read of a manifest is decoded.                                 *)
LEMMA DecodeKeeps == IInv /\ Decode => IInv'
<1> SUFFICES ASSUME IInv, Decode PROVE IInv'
  OBVIOUS
<1>1. reader.at = "decode" /\ reader.at \in Reading \cap Filing /\ reader.task # "done" /\ reader.at # "leave"
  BY Stages, FileIs DEF Decode
<1>2. /\ reader.file = reader.seen /\ reader.seen \in Fits(At(Handle, reader.name))
      /\ reader.saw <= stamp[reader.seen] /\ content[reader.seen] \in Content
      /\ Content = Text \cup {"junk", "huge"} /\ Text = {"one", "two"}
  BY <1>1, FileHas DEF Content, Text
<1>3. deeds = 0 => /\ Current(reader.name) = reader.seen /\ content[reader.seen] # "huge"
                   /\ stamp[reader.seen] = reader.saw /\ reader.data = content[reader.seen] /\ Same(reader.file)
  BY <1>1, <1>2 DEF IInv, Undisturbed, Same
<1>4. reader.data # "none" /\ (reader.saw = stamp[reader.seen] => reader.data # "torn")
  BY <1>1 DEF IInv, OneVersion, OnItsWay
<1>5. deeds = 0 /\ ~flawed => reader.data \in Text
  BY <1>1, <1>3, FileIsIntact
<1>6. CASE reader.data = "huge" /\ Refuse("large")
  <2>1. deeds # 0 /\ "large" \in Causes /\ "large" # "io" /\ "large" # "missing"
    BY <1>3, <1>6 DEF Causes
  <2> QED
    BY <1>1, <1>6, <2>1, RefuseKeeps
<1>7. CASE reader.data \in {"junk", "torn"} /\ Refuse("corrupt")
  <2>1. ~(deeds = 0 /\ ~flawed) /\ "corrupt" \in Causes /\ "corrupt" # "io" /\ "corrupt" # "missing"
    BY <1>2, <1>5, <1>7 DEF Causes
  <2> QED
    BY <1>1, <1>7, <2>1, RefuseKeeps
<1>8. CASE ~Same(reader.file) /\ Refuse("unsafe")
  <2>1. deeds # 0 /\ "unsafe" \in Causes /\ "unsafe" # "io" /\ "unsafe" # "missing"
    BY <1>3, <1>8 DEF Causes
  <2> QED
    BY <1>1, <1>8, <2>1, RefuseKeeps
<1>9. CASE reader.data \in Text \cup {"torn"} /\ Go([reader EXCEPT !.at = "recheck"])
  <2>1. reader' = [reader EXCEPT !.at = "recheck"] /\ Moves /\ reader \in ReaderState
    BY <1>9, GoMoves
  <2>2. reader' \in ReaderState
    BY <2>1, Stages DEF ReaderState
  <2>3. /\ Stays /\ reader'.at = "recheck" /\ reader'.seen = reader.seen /\ reader'.saw = reader.saw
        /\ reader'.file = reader.file /\ reader'.data = reader.data
    BY <2>1, <2>2 DEF ReaderState, Stays, Moves, KeepsTask, KeepsPath
  <2>4. deeds = 0 => reader.data \in Text
    BY <1>2, <1>3, <1>9
  <2> QED
    BY <1>1, <1>2, <1>3, <1>4, <2>3, <2>4, FileOn, Stages
<1>10. CASE FaultRefuse
  BY <1>1, <1>10, FaultKeeps
<1> QED
  BY <1>6, <1>7, <1>8, <1>9, <1>10 DEF Decode

(* A file was read, and its path still leads to it: what holds then.       *)
LEMMA Agrees ==
  ASSUME IInv, reader.at = "recheck", Same(Current(reader.name))
  PROVE  /\ reader.file = reader.seen /\ Current(reader.name) = reader.file /\ reader.data \notin {"none", "torn"}
         /\ reader.task # "done" /\ reader.causes = {} /\ reader.prior = {} /\ reader \in ReaderState
         /\ IF Loading THEN \E h \in Home, g \in Digest : reader.chain = <<"top", h, g>> /\ reader.chain[3] = g
                                                          /\ entry[At(g, "manifest")] = reader.file
                       ELSE entry[At(reader.runs, reader.name)] = reader.file
         /\ deeds = 0 =>
              /\ reader.data = content[reader.seen] /\ (Loading => reader.data \in Text)
              /\ reader.name = "manifest" => reader.seen = "manifest1"
              /\ reader.name = "selected" => reader.seen = "selected1"
              /\ reader.name = "other" => reader.seen = "other1"
              /\ Loading => ManifestStands
              /\ ~Loading /\ reader.name = "selected" => SelectedStands
              /\ ~Loading /\ reader.name = "other" => reader.runs = "runs1" /\ entry[At("runs1", "other")] = "other1"
<1>1. reader.at \in Reading \cap Filing
  BY Stages
<1>2. /\ reader.file = reader.seen /\ Current(reader.name) = reader.file /\ reader.data \notin {"none", "torn"}
      /\ reader.task # "done" /\ reader.causes = {} /\ reader \in ReaderState
  BY <1>1, FileHas, FileIs DEF IInv, OnItsWay, OneVersion, Same
<1>3. reader.prior = {}
  BY <1>1, FileIs DEF IInv, OnItsWay, Loading
<1>4. IF Loading THEN \E h \in Home, g \in Digest : reader.chain = <<"top", h, g>> /\ reader.chain[3] = g
                                                    /\ entry[At(g, "manifest")] = reader.file
                 ELSE entry[At(reader.runs, reader.name)] = reader.file
  <2>1. CASE Loading
    <3>1. PICK h \in Home, g \in Digest : reader.chain = <<"top", h, g>>
      BY <1>1, <2>1 DEF IInv, OnItsWay
    <3>2. reader.chain[3] = g /\ Handle = g /\ reader.name = "manifest"
      BY <1>1, <2>1, <3>1, FileIs
    <3> QED
      BY <1>2, <2>1, <3>1, <3>2 DEF Current
  <2>2. CASE ~Loading
    BY <1>1, <1>2, <2>2, FileIs DEF Current
  <2> QED
    BY <2>1, <2>2
<1>5. ASSUME deeds = 0
      PROVE  /\ reader.data = content[reader.seen] /\ (Loading => reader.data \in Text)
             /\ reader.name = "manifest" => reader.seen = "manifest1"
             /\ reader.name = "selected" => reader.seen = "selected1"
             /\ reader.name = "other" => reader.seen = "other1"
             /\ Loading => ManifestStands
             /\ ~Loading /\ reader.name = "selected" => SelectedStands
             /\ ~Loading /\ reader.name = "other" => reader.runs = "runs1" /\ entry[At("runs1", "other")] = "other1"
  <2>1. reader.data = content[reader.seen] /\ (Loading => reader.data \in Text)
    BY <1>1, <1>5 DEF IInv, Undisturbed
  <2>2. /\ At(Handle, reader.name) \in Place /\ entry[At(Handle, reader.name)] = reader.seen
        /\ reader.seen \notin Odd /\ reader.seen = Standing[At(Handle, reader.name)]
    BY <1>1, <1>2, <1>5, FileIs, FileHas DEF IInv, Undisturbed, Current
  <2>3. CASE Loading
    <3>1. reader.chain = <<"top", "root1", "release1">> /\ reader.name = "manifest"
          /\ entry[At("top", "root")] = "root1" /\ entry[At("root1", "release")] = "release1"
      BY <1>1, <1>5, <2>3, FileIs DEF IInv, Undisturbed
    <3>2. Handle = "release1"
      BY <3>1 DEF Handle
    <3> QED
      BY <2>1, <2>2, <2>3, <3>1, <3>2, StandingIs DEF ManifestStands
  <2>4. CASE ~Loading
    <3>1. /\ reader.task \in {"get", "list"} /\ Handle = reader.runs /\ reader.name \in {"selected", "other"}
          /\ reader.runs = "runs1"
      BY <1>1, <1>5, <2>4, FileIs DEF IInv, Undisturbed, RunsStand
    <3> QED
      BY <2>1, <2>2, <2>4, <3>1, StandingIs DEF SelectedStands
  <2> QED
    BY <2>3, <2>4
<1> QED
  BY <1>2, <1>3, <1>4, <1>5

(* The load goes back over its directories.                                *)
LEMMA AcceptManifest ==
  ASSUME IInv, reader.at = "recheck", Same(Current(reader.name)), Loading,
         Go([reader EXCEPT !.at = "verify", !.level = 1])
  PROVE  IInv'
<1>1. reader' = [reader EXCEPT !.at = "verify", !.level = 1] /\ Moves /\ reader \in ReaderState
  BY GoMoves
<1>2. PICK h \in Home, g \in Digest :
        reader.chain = <<"top", h, g>> /\ reader.chain[3] = g /\ entry[At(g, "manifest")] = reader.file
  BY Agrees
<1>3. reader' \in ReaderState
  <2> DEFINE q == [reader EXCEPT !.at = "verify"]
  <2>1. q \in ReaderState /\ reader' = [q EXCEPT !.level = 1]
    BY <1>1, Stages DEF ReaderState
  <2> HIDE DEF q
  <2> QED
    BY <2>1 DEF ReaderState
<1>4. /\ KeepsTask /\ reader'.chain = reader.chain /\ reader'.level = 1
      /\ reader'.at = "verify" /\ reader'.data = reader.data /\ reader'.file = reader.file
      /\ reader'.causes = {} /\ reader'.todo = reader.todo
  BY <1>1, Agrees DEF ReaderState, KeepsTask
<1>5. TypeOK'
  BY <1>1, <1>3 DEF IInv, TypeOK, Moves, Acts
<1>6. OnItsWay'
  BY <1>2, <1>4, Agrees, Stages DEF IInv, OnItsWay, Loading, KeepsTask
<1>7. OneVersion' /\ Witnessed'
  BY <1>1, <1>4, Agrees, Stages DEF IInv, OneVersion, Witnessed, Loading, Leaving, Moves, Acts, KeepsTask
<1>8. Confirmed'
  BY <1>1, <1>2, <1>4, Stages DEF Confirmed, Loading, Leaving, Held, Moves, Acts, KeepsTask
<1>9. Undisturbed'
  BY <1>1, <1>4, Agrees, Stages DEF IInv, Undisturbed, Loading, Leaving, Moves, Acts, KeepsTask,
     ManifestStands, RunsStand, SelectedStands, OtherStands
<1>10. Blameless'
  BY <1>1, <1>4, Agrees DEF IInv, Blameless, Moves, Acts, KeepsTask
<1>11. ReleaseIsBlamed' /\ AnswerIsCurrent'
  BY <1>1, <1>4, VerdictKeeps DEF Moves, IInv, AnswerIsCurrent, Leaving, KeepsTask
<1> QED
  BY <1>5, <1>6, <1>7, <1>8, <1>9, <1>10, <1>11 DEF IInv

(* The selected record is accepted.                                        *)
LEMMA AcceptRecord ==
  ASSUME IInv, reader.at = "recheck", Same(Current(reader.name)), reader.task = "get",
         Go([reader EXCEPT !.at = "leave"])
  PROVE  IInv'
<1>1. reader' = [reader EXCEPT !.at = "leave"] /\ Moves /\ reader \in ReaderState
  BY GoMoves
<1>2. reader.name = "selected" /\ reader.inside /\ reader.runs \in Runs /\ ~Loading
  BY Stages DEF IInv, OnItsWay, Loading
<1>3. reader' \in ReaderState
  BY <1>1, Stages DEF ReaderState
<1>4. /\ KeepsTask /\ reader'.chain = reader.chain
      /\ reader'.at = "leave" /\ reader'.data = reader.data /\ reader'.file = reader.file
      /\ reader'.causes = {} /\ reader'.todo = reader.todo
  BY <1>1, Agrees DEF ReaderState, KeepsTask
<1>5. TypeOK'
  BY <1>1, <1>3 DEF IInv, TypeOK, Moves, Acts
<1>6. OnItsWay'
  BY <1>2, <1>4, Agrees, Stages DEF IInv, OnItsWay, Loading, KeepsTask
<1>7. OneVersion' /\ Witnessed'
  BY <1>1, <1>2, <1>4, Agrees, Stages DEF IInv, OneVersion, Witnessed, Loading, Leaving, Moves, Acts, KeepsTask
<1>8. Confirmed'
  BY <1>1, <1>2, <1>4, Agrees, Stages DEF Confirmed, Loading, Leaving, Held, Moves, Acts, KeepsTask
<1>9. Undisturbed'
  BY <1>1, <1>2, <1>4, Agrees, Stages DEF IInv, Undisturbed, Loading, Leaving, Moves, Acts, KeepsTask,
     ManifestStands, RunsStand, SelectedStands, OtherStands
<1>10. Blameless'
  BY <1>1, <1>4, Agrees DEF IInv, Blameless, Moves, Acts, KeepsTask
<1>11. ReleaseIsBlamed' /\ AnswerIsCurrent'
  BY <1>1, <1>4, VerdictKeeps DEF Moves, IInv, AnswerIsCurrent, Leaving, KeepsTask
<1> QED
  BY <1>5, <1>6, <1>7, <1>8, <1>9, <1>10, <1>11 DEF IInv

(* A listed record is accepted: another one with the run set of the        *)
(* manifest is the flaw the audit would find.                              *)
LEMMA AcceptListed ==
  ASSUME IInv, reader.at = "recheck", Same(Current(reader.name)), reader.task = "list", reader.data \in Text,
         Go([reader EXCEPT !.at = "scan", !.seen = "none", !.saw = 0, !.file = "none", !.data = "none",
                           !.flaw = @ \/ (reader.name = "other" /\ reader.data = reader.manifest)])
  PROVE  IInv'
<1> DEFINE b == reader.flaw \/ (reader.name = "other" /\ reader.data = reader.manifest)
<1>1. b \in BOOLEAN
  <2>1. reader.flaw \in BOOLEAN
    BY DEF IInv, TypeOK, ReaderState
  <2> QED
    BY <2>1, Zenon
<1>2. PICK f \in BOOLEAN : f = b
  BY <1>1
<1>3. /\ reader' = [reader EXCEPT !.at = "scan", !.seen = "none", !.saw = 0, !.file = "none", !.data = "none", !.flaw = f]
      /\ Moves /\ reader \in ReaderState
  BY <1>2, GoMoves
<1> HIDE DEF b
<1>4. /\ reader.inside /\ reader.runs \in Runs /\ ~Loading /\ reader.chain = <<reader.runs>>
      /\ reader.name \in {"selected", "other"} /\ \A n \in reader.todo : At(reader.runs, n) \in Place
  BY Stages, FileIs DEF IInv, OnItsWay, Loading
<1>5. reader' \in ReaderState
  <2> DEFINE q == [reader EXCEPT !.at = "scan", !.seen = "none", !.saw = 0]
             r == [q EXCEPT !.file = "none"]
             s == [r EXCEPT !.data = "none"]
  <2>1. q \in ReaderState
    BY <1>3, Stages DEF ReaderState
  <2>2. reader' = [s EXCEPT !.flaw = f]
    BY <1>3
  <2> HIDE DEF q
  <2>3. r \in ReaderState
    BY <2>1 DEF ReaderState
  <2> HIDE DEF r
  <2>4. s \in ReaderState
    BY <2>3 DEF ReaderState
  <2> HIDE DEF s
  <2> QED
    BY <2>2, <2>4 DEF ReaderState
<1>6. /\ reader'.task = "list" /\ reader'.inside = reader.inside /\ reader'.prior = reader.prior
      /\ reader'.runs = reader.runs /\ reader'.manifest = reader.manifest /\ reader'.verdict = reader.verdict
      /\ reader'.chain = reader.chain /\ reader'.at = "scan" /\ reader'.causes = {} /\ reader'.todo = reader.todo
      /\ reader'.flaw = f
  BY <1>3, Agrees DEF ReaderState
<1>7. TypeOK'
  BY <1>3, <1>5 DEF IInv, TypeOK, Moves, Acts
<1>8. OnItsWay'
  BY <1>4, <1>6, Agrees, Stages DEF OnItsWay, Loading
<1>9. OneVersion' /\ Witnessed' /\ Confirmed'
  BY <1>3, <1>4, <1>6, Stages DEF IInv, OneVersion, Witnessed, Confirmed, Loading, Leaving, Moves, Acts
<1>10. Undisturbed'
  <2>1. deeds = 0 /\ ~f => ~reader.flaw /\ (OtherStands \/ "other" \in reader.todo)
    <3>1. SUFFICES ASSUME deeds = 0, ~f PROVE ~reader.flaw /\ (OtherStands \/ "other" \in reader.todo)
      OBVIOUS
    <3>2. ~reader.flaw /\ (reader.name = "other" => reader.data # reader.manifest)
      BY <1>2, <3>1 DEF b
    <3>3. OtherStands \/ "other" \in reader.todo \/ reader.name = "other"
      BY <3>1, <3>2, Stages DEF IInv, Undisturbed
    <3>4. ASSUME reader.name = "other" PROVE OtherStands
      BY <1>4, <3>1, <3>2, <3>4, Agrees DEF OtherStands
    <3> QED
      BY <3>2, <3>3, <3>4
  <2>2. ASSUME deeds = 0 PROVE \A n \in reader.todo : entry[At(reader.runs, n)] # "absent"
    BY <2>2, Stages DEF IInv, Undisturbed
  <2> QED
    BY <1>3, <1>4, <1>6, <2>1, <2>2, Stages DEF IInv, Undisturbed, Loading, Leaving, Moves, Acts,
       ManifestStands, RunsStand, SelectedStands, OtherStands
<1>11. Blameless'
  <2>1. ASSUME deeds = 0, ~flawed PROVE ~f
    <3>1. ~reader.flaw
      BY <2>1 DEF IInv, Blameless
    <3>2. Intact(entry, content) /\ reader.manifest = content["manifest1"]
      BY <2>1 DEF IInv, Undisturbed
    <3>3. reader.name = "other" => reader.data = content["other1"] /\ entry[At("runs1", "other")] = "other1"
      BY <1>4, <2>1, Agrees
    <3> QED
      BY <1>2, <3>1, <3>2, <3>3 DEF b, Intact
  <2> QED
    BY <1>3, <1>6, <2>1, Agrees DEF IInv, Blameless, Moves, Acts
<1>12. ReleaseIsBlamed' /\ AnswerIsCurrent'
  BY <1>3, <1>6, VerdictKeeps DEF Moves, IInv, AnswerIsCurrent, Leaving
<1> QED
  BY <1>7, <1>8, <1>9, <1>10, <1>11, <1>12 DEF IInv

(* The path still leads to the file that was read.                         *)
LEMMA RecheckKeeps == IInv /\ Recheck => IInv'
<1> SUFFICES ASSUME IInv, Recheck PROVE IInv'
  OBVIOUS
<1> DEFINE v == Current(reader.name)
<1>1. reader.at = "recheck" /\ reader.at \in Reading \cap Filing /\ reader.task # "done" /\ reader.at # "leave"
  BY Stages, FileIs DEF Recheck
<1>2. deeds = 0 => Same(v) /\ v = reader.seen /\ reader.data = content[reader.seen]
  BY <1>1 DEF IInv, Undisturbed, Same
<1>3. CASE ~Same(v) /\ Refuse(ChangedTo(v))
  BY <1>1, <1>2, <1>3, ChangedIs, RefuseKeeps
<1>4. CASE reader.data \notin Text /\ Refuse("corrupt")
  <2>1. ~(deeds = 0 /\ ~flawed)
    BY <1>1, <1>2, <1>4, FileIsIntact
  <2>2. "corrupt" \in Causes /\ "corrupt" # "io" /\ "corrupt" # "missing"
    BY DEF Causes
  <2> QED
    BY <1>1, <1>4, <2>1, <2>2, RefuseKeeps
<1>5. CASE Same(v) /\ (Loading \/ reader.data \in Text) /\ Accepted
  <2>1. reader.task \in {"load", "get", "list"}
    BY <1>1, FileIs DEF Loading
  <2>2. CASE reader.task = "load"
    <3>1. Go([reader EXCEPT !.at = "verify", !.level = 1])
      BY <1>5, <2>2 DEF Accepted, Loading
    <3> QED
      BY <1>1, <1>5, <2>2, <3>1, AcceptManifest DEF Loading
  <2>3. CASE reader.task = "get"
    <3>1. Go([reader EXCEPT !.at = "leave"])
      BY <1>5, <2>3 DEF Accepted, Loading
    <3> QED
      BY <1>1, <1>5, <2>3, <3>1, AcceptRecord
  <2>4. CASE reader.task = "list"
    <3>1. Go([reader EXCEPT !.at = "scan", !.seen = "none", !.saw = 0, !.file = "none", !.data = "none",
                            !.flaw = @ \/ (reader.name = "other" /\ reader.data = reader.manifest)])
      BY <1>5, <2>4 DEF Accepted, Loading
    <3> QED
      BY <1>1, <1>5, <2>4, <3>1, AcceptListed DEF Loading
  <2> QED
    BY <2>1, <2>2, <2>3, <2>4
<1>6. CASE FaultRefuse
  BY <1>1, <1>6, FaultKeeps
<1> QED
  BY <1>3, <1>4, <1>5, <1>6 DEF Recheck

------------------------------------------------------------------------------
(* The steps of the listing.                                               *)

(* Where the listing is.                                                   *)
LEMMA ListIs ==
  ASSUME IInv, reader.at \in {"names", "scan"}
  PROVE  /\ reader.task = "list" /\ ~Loading /\ reader.inside /\ reader.runs \in Runs /\ Handle = reader.runs
         /\ reader.chain = <<reader.runs>> /\ reader.causes = {} /\ reader.prior = {} /\ reader \in ReaderState
         /\ \A n \in reader.todo : At(reader.runs, n) \in Place
<1>1. /\ reader.task = "list" /\ ~Loading /\ reader.inside /\ reader.runs \in Runs
      /\ reader.chain = <<reader.runs>> /\ reader.causes = {} /\ reader.prior = {} /\ reader \in ReaderState
      /\ \A n \in reader.todo : At(reader.runs, n) \in Place
  BY DEF IInv, TypeOK, OnItsWay, Loading
<1>2. PICK d : d = reader.runs /\ reader.chain = <<d>>
  BY <1>1
<1> QED
  BY <1>1, <1>2 DEF Handle

(* The names of the directory are read.                                    *)
LEMMA NamesKeeps == IInv /\ Names => IInv'
<1> SUFFICES ASSUME IInv, Names PROVE IInv'
  OBVIOUS
<1> DEFINE names == {p.name : p \in {p \in Place : p.in = Handle /\ entry[p] # "absent"}}
<1>1. reader.at = "names" /\ reader.task # "done" /\ reader.at # "leave"
  BY ListIs DEF Names
<1>2. CASE Go([reader EXCEPT !.at = "scan", !.todo = names])
  <2>1. PICK T : T = names
    OBVIOUS
  <2>2. reader' = [reader EXCEPT !.at = "scan", !.todo = T] /\ Moves /\ reader \in ReaderState
    BY <1>2, <2>1, GoMoves
  <2>3. /\ T \subseteq {"selected", "other"}
        /\ \A n \in T : At(reader.runs, n) \in Place /\ entry[At(reader.runs, n)] # "absent"
    <3>1. ASSUME NEW n \in T
          PROVE  n \in {"selected", "other"} /\ At(reader.runs, n) \in Place /\ entry[At(reader.runs, n)] # "absent"
      <4>1. PICK p \in Place : p.in = Handle /\ entry[p] # "absent" /\ p.name = n
        BY <2>1, <3>1
      <4>2. p = At(reader.runs, n)
        BY <1>1, <4>1, PlaceIs, ListIs
      <4>3. reader.runs \notin Home /\ reader.runs \notin Digest /\ reader.runs # "top"
        BY <1>1, ListIs DEF Runs, Home, Digest
      <4> QED
        BY <1>1, <4>1, <4>2, <4>3, PlaceIs, ListIs
    <3> QED
      BY <3>1
  <2>4. reader.runs = "runs1" /\ entry[At("runs1", "other")] # "absent" => "other" \in T
    <3>1. ASSUME reader.runs = "runs1", entry[At("runs1", "other")] # "absent" PROVE "other" \in T
      <4>1. At("runs1", "other").name = "other" /\ At("runs1", "other").in = "runs1"
        BY DEF At
      <4>2. Handle = "runs1"
        BY <1>1, <3>1, ListIs
      <4> QED
        BY <2>1, <3>1, <4>1, <4>2, Places
    <3> QED
      BY <3>1
  <2>5. reader' \in ReaderState
    <3> DEFINE q == [reader EXCEPT !.at = "scan"]
    <3>1. q \in ReaderState /\ reader' = [q EXCEPT !.todo = T]
      BY <2>2, Stages DEF ReaderState
    <3> HIDE DEF q
    <3> QED
      BY <2>3, <3>1 DEF ReaderState
  <2>6. KeepsTask /\ KeepsPath /\ reader'.at = "scan" /\ reader'.causes = {} /\ reader'.todo = T
    BY <1>1, <2>2, ListIs DEF ReaderState, KeepsTask, KeepsPath
  <2>7. TypeOK'
    BY <2>2, <2>5 DEF IInv, TypeOK, Moves, Acts
  <2>8. OnItsWay'
    BY <1>1, <2>3, <2>6, ListIs, Stages DEF OnItsWay, Loading, KeepsTask, KeepsPath
  <2>9. OneVersion' /\ Witnessed' /\ Confirmed'
    BY <1>1, <2>2, <2>6, ListIs, Stages DEF IInv, OneVersion, Witnessed, Confirmed, Loading, Leaving, Moves, Acts, KeepsTask
  <2>10. Undisturbed'
    <3>1. deeds = 0 => OtherStands \/ "other" \in T
      <4>1. deeds = 0 => RunsStand
        BY <1>1, ListIs DEF IInv, Undisturbed
      <4> QED
        BY <2>4, <4>1 DEF RunsStand, OtherStands
    <3> QED
      BY <1>1, <2>2, <2>3, <2>6, <3>1, ListIs, Stages DEF IInv, Undisturbed, Loading, Leaving, Moves, Acts, KeepsTask,
         ManifestStands, RunsStand, SelectedStands, OtherStands
  <2>11. Blameless'
    BY <1>1, <2>2, <2>6, ListIs DEF IInv, Blameless, Moves, Acts, KeepsTask
  <2>12. ReleaseIsBlamed' /\ AnswerIsCurrent'
    BY <2>2, <2>6, VerdictKeeps DEF Moves, IInv, AnswerIsCurrent, Leaving, KeepsTask
  <2> QED
    BY <2>7, <2>8, <2>9, <2>10, <2>11, <2>12 DEF IInv
<1>3. CASE FaultRefuse
  BY <1>1, <1>3, FaultKeeps
<1> QED
  BY <1>2, <1>3 DEF Names

(* The next record is looked at, or there is none left.                    *)
LEMMA ScanKeeps == IInv /\ Scan => IInv'
<1> SUFFICES ASSUME IInv, Scan PROVE IInv'
  OBVIOUS
<1>1. reader.at = "scan" /\ reader.task # "done" /\ reader.at # "leave"
  BY ListIs DEF Scan
<1>2. CASE reader.todo = {} /\ Go([reader EXCEPT !.at = "leave", !.name = "none"])
  <2>1. reader' = [reader EXCEPT !.at = "leave", !.name = "none"] /\ Moves /\ reader \in ReaderState
    BY <1>2, GoMoves
  <2>2. reader' \in ReaderState
    BY <2>1, Stages DEF ReaderState
  <2>3. KeepsTask /\ reader'.at = "leave" /\ reader'.causes = {} /\ reader'.todo = {}
    BY <1>1, <1>2, <2>1, ListIs DEF ReaderState, KeepsTask
  <2>4. TypeOK'
    BY <2>1, <2>2 DEF IInv, TypeOK, Moves, Acts
  <2>5. OnItsWay'
    BY <1>1, <2>3, ListIs, Stages DEF OnItsWay, Loading, KeepsTask
  <2>6. OneVersion' /\ Witnessed' /\ Confirmed'
    BY <1>1, <2>1, <2>3, ListIs, Stages DEF IInv, OneVersion, Witnessed, Confirmed, Loading, Leaving, Moves, Acts, KeepsTask
  <2>7. Undisturbed'
    <3>1. deeds = 0 /\ ~reader.flaw => OtherStands
      BY <1>1, <1>2, ListIs DEF IInv, Undisturbed
    <3> QED
      BY <1>1, <2>1, <2>3, <3>1, ListIs, Stages DEF IInv, Undisturbed, Loading, Leaving, Moves, Acts, KeepsTask,
         ManifestStands, RunsStand, SelectedStands, OtherStands
  <2>8. Blameless'
    BY <1>1, <2>1, <2>3, ListIs DEF IInv, Blameless, Moves, Acts, KeepsTask
  <2>9. ReleaseIsBlamed' /\ AnswerIsCurrent'
    BY <1>1, <2>1, <2>3, ListIs, VerdictKeeps DEF Moves, IInv, AnswerIsCurrent, Leaving, KeepsTask
  <2> QED
    BY <2>4, <2>5, <2>6, <2>7, <2>8, <2>9 DEF IInv
<1>3. CASE \E n \in reader.todo : Go([reader EXCEPT !.at = "find", !.name = n, !.todo = @ \ {n}])
  <2>1. PICK n \in reader.todo : Go([reader EXCEPT !.at = "find", !.name = n, !.todo = @ \ {n}])
    BY <1>3
  <2>2. PICK T : T = reader.todo \ {n}
    OBVIOUS
  <2>3. reader' = [reader EXCEPT !.at = "find", !.name = n, !.todo = T] /\ Moves /\ reader \in ReaderState
    BY <2>1, <2>2, GoMoves
  <2>4. n \in {"selected", "other"} /\ T \subseteq {"selected", "other"} /\ At(reader.runs, n) \in Place
    BY <1>1, <2>1, <2>2, <2>3, ListIs DEF ReaderState
  <2>5. reader' \in ReaderState
    <3> DEFINE q == [reader EXCEPT !.at = "find"]
               r == [q EXCEPT !.name = n]
    <3>1. q \in ReaderState /\ reader' = [r EXCEPT !.todo = T]
      BY <2>3, Stages DEF ReaderState
    <3> HIDE DEF q
    <3>2. r \in ReaderState
      BY <2>4, <3>1 DEF ReaderState
    <3> HIDE DEF r
    <3> QED
      BY <2>4, <3>1, <3>2 DEF ReaderState
  <2>6. KeepsTask /\ KeepsPath /\ reader'.at = "find" /\ reader'.causes = {} /\ reader'.todo = T /\ reader'.name = n
    BY <1>1, <2>3, ListIs DEF ReaderState, KeepsTask, KeepsPath
  <2>7. Handle' = reader.runs
    BY <1>1, <2>6, ListIs, StaysPut
  <2>8. TypeOK'
    BY <2>3, <2>5 DEF IInv, TypeOK, Moves, Acts
  <2>9. OnItsWay'
    BY <1>1, <2>2, <2>4, <2>6, <2>7, ListIs, Stages DEF OnItsWay, Loading, KeepsTask, KeepsPath
  <2>10. OneVersion' /\ Witnessed' /\ Confirmed'
    BY <1>1, <2>3, <2>6, ListIs, Stages DEF IInv, OneVersion, Witnessed, Confirmed, Loading, Leaving, Moves, Acts, KeepsTask
  <2>11. Undisturbed'
    <3>1. deeds = 0 => \A m \in reader.todo : entry[At(reader.runs, m)] # "absent"
      BY <1>1, ListIs DEF IInv, Undisturbed
    <3>2. deeds = 0 /\ ~reader.flaw => OtherStands \/ "other" \in T \/ n = "other"
      BY <1>1, <2>2, ListIs DEF IInv, Undisturbed
    <3>3. deeds = 0 => Current(reader.name)' # "absent"
      BY <2>3, <2>6, <2>7, <3>1 DEF Current, Moves, Acts
    <3> QED
      BY <1>1, <2>2, <2>3, <2>6, <3>1, <3>2, <3>3, ListIs, Stages DEF IInv, Undisturbed, Loading, Leaving, Moves, Acts,
         KeepsTask, ManifestStands, RunsStand, SelectedStands, OtherStands
  <2>12. Blameless'
    BY <1>1, <2>3, <2>6, ListIs DEF IInv, Blameless, Moves, Acts, KeepsTask
  <2>13. ReleaseIsBlamed' /\ AnswerIsCurrent'
    BY <2>3, <2>6, VerdictKeeps DEF Moves, IInv, AnswerIsCurrent, Leaving, KeepsTask
  <2> QED
    BY <2>8, <2>9, <2>10, <2>11, <2>12, <2>13 DEF IInv
<1>4. CASE FaultRefuse
  BY <1>1, <1>4, FaultKeeps
<1> QED
  BY <1>2, <1>3, <1>4 DEF Scan

------------------------------------------------------------------------------
(* The end of a task.                                                      *)

(* What the errors of a task are, when one of its calls or somebody else   *)
(* is to blame for each.                                                   *)
Earned(C) == /\ C \subseteq Causes
             /\ "io" \in C => faulted' \/ deeds # 0
             /\ deeds = 0 /\ ~flawed /\ C # {} => "io" \in C

(* The invocation has its verdict.                                         *)
LEMMA DecideKeeps ==
  ASSUME IInv, Moves, NEW v \in {"operational", "invalid", "missing", "audited"}, reader' = Decide(v),
         v = "operational" => faulted' \/ deeds # 0,
         v = "invalid" => flawed \/ deeds # 0,
         v = "missing" => vanished,
         v = "audited" => ~flawed \/ deeds # 0
  PROVE  IInv'
<1>1. reader' = [Idle EXCEPT !.task = "done", !.at = "leave", !.verdict = v] /\ Idle \in ReaderState
  BY IdleType DEF Decide
<1>2. reader' \in ReaderState
  <2> DEFINE q == [Idle EXCEPT !.task = "done"]
             r == [q EXCEPT !.at = "leave"]
  <2>1. q \in ReaderState
    BY <1>1 DEF ReaderState
  <2>2. reader' = [r EXCEPT !.verdict = v]
    BY <1>1
  <2> HIDE DEF q
  <2>3. r \in ReaderState
    BY <2>1, Stages DEF ReaderState
  <2> HIDE DEF r
  <2> QED
    BY <2>2, <2>3 DEF ReaderState
<1>3. /\ reader'.task = "done" /\ reader'.at = "leave" /\ reader'.verdict = v
      /\ reader'.causes = {} /\ reader'.prior = {} /\ ~reader'.flaw /\ ~reader'.inside /\ reader'.manifest = "none"
  BY <1>1 DEF Idle
<1>4. TypeOK'
  BY <1>2 DEF IInv, TypeOK, Moves, Acts
<1>5. OnItsWay' /\ OneVersion' /\ Witnessed' /\ Confirmed'
  BY <1>3, Stages DEF IInv, OnItsWay, OneVersion, Witnessed, Confirmed, Loading, Leaving, Moves, Acts
<1>6. Undisturbed'
  BY <1>3, Stages DEF IInv, Undisturbed, Loading, Leaving, Moves, Acts
<1>7. Blameless'
  BY <1>3 DEF Blameless
<1>8. ReleaseIsBlamed'
  <2>1. deeds \in Nat
    BY DEF IInv, TypeOK
  <2> QED
    BY <1>3, <2>1 DEF ReleaseIsBlamed, Moves, Acts
<1>9. AnswerIsCurrent'
  BY <1>3 DEF AnswerIsCurrent, Leaving
<1> QED
  BY <1>4, <1>5, <1>6, <1>7, <1>8, <1>9 DEF IInv

(* What the next task begins with.                                         *)
LEMMA ProceedIs ==
  ASSUME NEW t \in {"open", "get", "get-end", "list", "list-end"}, NEW r \in ReaderState, NEW q, q = Proceed(t, r)
  PROVE  /\ q \in ReaderState /\ q.task = t /\ q.at = "look" /\ q.level = 0 /\ q.chain = <<"top">>
         /\ q.causes = {} /\ ~q.inside /\ q.todo = {} /\ q.verdict = "none"
         /\ q.runs = r.runs /\ q.manifest = r.manifest /\ q.flaw = r.flaw /\ q.prior = r.prior
         /\ t = "get-end" => q.data = r.data /\ q.file = r.file
<1>1. PICK d \in Content \cup {"torn", "none"} : d = IF t = "get-end" THEN r.data ELSE "none"
  BY DEF ReaderState
<1>2. PICK f \in File \cup Odd \cup {"none"} : f = IF t = "get-end" THEN r.file ELSE "none"
  BY DEF ReaderState
<1>3. q = [Idle EXCEPT !.task = t, !.runs = r.runs, !.manifest = r.manifest, !.flaw = r.flaw,
                       !.prior = r.prior, !.data = d, !.file = f]
  BY <1>1, <1>2 DEF Proceed
<1>4. q \in ReaderState
  <2> DEFINE q1 == [Idle EXCEPT !.task = t]
             q2 == [q1 EXCEPT !.runs = r.runs]
             q3 == [q2 EXCEPT !.manifest = r.manifest]
             q4 == [q3 EXCEPT !.flaw = r.flaw]
             q5 == [q4 EXCEPT !.prior = r.prior]
             q6 == [q5 EXCEPT !.data = d]
  <2>1. q1 \in ReaderState
    BY IdleType DEF ReaderState
  <2>2. q = [q6 EXCEPT !.file = f]
    BY <1>3
  <2> HIDE DEF q1
  <2>3. q2 \in ReaderState
    BY <2>1 DEF ReaderState
  <2> HIDE DEF q2
  <2>4. q3 \in ReaderState
    BY <2>3 DEF ReaderState
  <2> HIDE DEF q3
  <2>5. q4 \in ReaderState
    BY <2>4 DEF ReaderState
  <2> HIDE DEF q4
  <2>6. q5 \in ReaderState
    BY <2>5 DEF ReaderState
  <2> HIDE DEF q5
  <2>7. q6 \in ReaderState
    BY <2>6 DEF ReaderState
  <2> HIDE DEF q6
  <2> QED
    BY <2>2, <2>7 DEF ReaderState
<1>5. /\ q.task = t /\ q.at = "look" /\ q.level = 0 /\ q.chain = <<"top">>
      /\ q.causes = {} /\ ~q.inside /\ q.todo = {} /\ q.verdict = "none"
      /\ q.runs = r.runs /\ q.manifest = r.manifest /\ q.flaw = r.flaw /\ q.prior = r.prior
      /\ q.data = d /\ q.file = f
  BY <1>3 DEF Idle
<1> QED
  BY <1>1, <1>2, <1>4, <1>5

(* The invocation begins its next task.                                    *)
LEMMA ProceedKeeps ==
  ASSUME IInv, Moves, NEW t \in {"open", "get", "get-end", "list", "list-end"}, NEW r \in ReaderState,
         reader' = Proceed(t, r),
         t # "open" => r.runs \in Runs,
         r.prior # {} => t \in {"get-end", "list-end"},
         r.manifest # "torn",
         t = "get-end" /\ r.prior = {} => r.data # "none" /\ Held(At(r.runs, "selected"), r.file),
         deeds = 0 => ManifestStands /\ r.manifest = content["manifest1"],
         deeds = 0 /\ t # "open" => r.runs = "runs1" /\ entry[At("root1", "runs")] = "runs1",
         deeds = 0 /\ t = "get-end" /\ r.prior = {} => SelectedStands /\ r.data = content["selected1"],
         deeds = 0 /\ ~r.flaw /\ t \in {"list", "list-end"} => SelectedStands /\ content["selected1"] = r.manifest,
         deeds = 0 /\ ~r.flaw /\ t = "list-end" /\ r.prior = {} => OtherStands /\ r.manifest = reader.manifest,
         deeds = 0 /\ ~flawed => ~r.flaw,
         Earned(r.prior)
  PROVE  IInv'
<1>1. /\ reader' \in ReaderState /\ reader'.task = t /\ reader'.at = "look" /\ reader'.level = 0 /\ reader'.chain = <<"top">>
      /\ reader'.causes = {} /\ ~reader'.inside /\ reader'.todo = {} /\ reader'.verdict = "none"
      /\ reader'.runs = r.runs /\ reader'.manifest = r.manifest /\ reader'.flaw = r.flaw /\ reader'.prior = r.prior
      /\ t = "get-end" => reader'.data = r.data /\ reader'.file = r.file
  BY ProceedIs
<1>2. ~Loading' /\ reader'.at \notin Filing \cup {"leave", "verify", "find", "names", "scan"}
  BY <1>1, Stages DEF Loading
<1>3. TypeOK'
  BY <1>1 DEF IInv, TypeOK, Moves, Acts
<1>4. OnItsWay'
  BY <1>1, <1>2, Stages DEF OnItsWay, Loading
<1>5. OneVersion' /\ Witnessed'
  BY <1>1, <1>2, Stages DEF IInv, OneVersion, Witnessed, Moves, Acts
<1>6. Confirmed'
  BY <1>1, <1>2, Stages DEF Confirmed, Leaving, Held, Moves, Acts, Recalling
<1>7. Undisturbed'
  BY <1>1, <1>2, Stages DEF IInv, Undisturbed, Leaving, Moves, Acts, ManifestStands, RunsStand, SelectedStands, OtherStands
<1>8. Blameless'
  BY <1>1 DEF Earned, Blameless, Moves, Acts
<1>9. ReleaseIsBlamed' /\ AnswerIsCurrent'
  BY <1>1, <1>2 DEF ReleaseIsBlamed, AnswerIsCurrent, Leaving
<1> QED
  BY <1>3, <1>4, <1>5, <1>6, <1>7, <1>8, <1>9 DEF IInv

(* The manifest was loaded, or not.                                        *)
LEMMA LoadKeeps ==
  ASSUME IInv, Moves, NEW C, Earned(C), reader.task = "load", reader.at = "leave", reader' = Load(C),
         C = {} => reader.causes = {}, "missing" \in C => vanished
  PROVE  IInv'
<1>1. reader \in ReaderState /\ reader.prior = {} /\ Loading
  BY DEF IInv, TypeOK, OnItsWay, Loading
<1>2. CASE C = {}
  <2> DEFINE r == [reader EXCEPT !.manifest = reader.data]
  <2>1. reader' = Proceed("open", r)
    BY <1>2 DEF Load
  <2>2. r \in ReaderState
    BY <1>1 DEF ReaderState
  <2>3. r.manifest = reader.data /\ r.prior = {} /\ r.flaw = reader.flaw
    BY <1>1 DEF ReaderState
  <2>4. Leaving("load")
    BY <1>1, <1>2 DEF Leaving
  <2>5. reader.data # "torn" /\ reader.data # "none"
    BY <1>1, <2>4 DEF IInv, OneVersion, Confirmed
  <2>6. deeds = 0 => ManifestStands /\ reader.data = content["manifest1"]
    BY <1>1, <2>4, <2>5 DEF IInv, Undisturbed
  <2>7. (deeds = 0 /\ ~flawed => ~reader.flaw) /\ Earned({})
    BY DEF IInv, Blameless, Earned
  <2> HIDE DEF r
  <2> QED
    BY <2>1, <2>2, <2>3, <2>5, <2>6, <2>7, ProceedKeeps
<1>3. CASE C # {}
  <2>1. \/ "io" \in C /\ reader' = Decide("operational")
        \/ C = {"missing"} /\ "io" \notin C /\ reader' = Decide("missing")
        \/ "io" \notin C /\ reader' = Decide("invalid")
    BY <1>3 DEF Load
  <2> QED
    BY <1>3, <2>1, DecideKeeps DEF Earned
<1> QED
  BY <1>2, <1>3

(* The evidence store was opened, or not.                                  *)
LEMMA OpenKeeps ==
  ASSUME IInv, Moves, NEW C, Earned(C), reader.task = "open", reader.at = "leave", reader' = Open(C),
         C = {} => reader.causes = {}
  PROVE  IInv'
<1>1. reader \in ReaderState /\ reader.prior = {}
  BY DEF IInv, TypeOK, OnItsWay
<1>2. CASE C = {}
  <2>1. reader' = Proceed("get", reader)
    BY <1>2 DEF Open
  <2>2. Leaving("open") /\ reader.runs \in Runs
    BY <1>1, <1>2 DEF IInv, OnItsWay, Leaving
  <2>3. reader.manifest # "torn"
    BY DEF IInv, AnswerIsCurrent
  <2>4. deeds = 0 => ManifestStands /\ reader.manifest = content["manifest1"]
                     /\ reader.runs = "runs1" /\ entry[At("root1", "runs")] = "runs1"
    BY <2>2 DEF IInv, Undisturbed, RunsStand
  <2>5. (deeds = 0 /\ ~flawed => ~reader.flaw) /\ Earned({})
    BY DEF IInv, Blameless, Earned
  <2> QED
    BY <1>1, <2>1, <2>2, <2>3, <2>4, <2>5, ProceedKeeps
<1>3. CASE C # {}
  <2>1. ("io" \in C /\ reader' = Decide("operational")) \/ ("io" \notin C /\ reader' = Decide("invalid"))
    BY <1>3 DEF Open
  <2> QED
    BY <1>3, <2>1, DecideKeeps DEF Earned
<1> QED
  BY <1>2, <1>3

(* What the later tasks go on with.                                        *)
LEMMA LaterHas ==
  ASSUME IInv, reader.task \in {"get", "get-end", "list", "list-end"}
  PROVE  /\ reader \in ReaderState /\ reader.runs \in Runs /\ reader.manifest # "torn"
         /\ deeds = 0 => /\ ManifestStands /\ reader.manifest = content["manifest1"]
                         /\ reader.runs = "runs1" /\ entry[At("root1", "runs")] = "runs1"
                         /\ (flawed <=> ~Intact(entry, content))
         /\ deeds = 0 /\ ~flawed => ~reader.flaw
<1>1. reader \in ReaderState /\ reader.runs \in Runs /\ reader.manifest # "torn"
  BY DEF IInv, TypeOK, OnItsWay, AnswerIsCurrent
<1>2. deeds = 0 => /\ ManifestStands /\ reader.manifest = content["manifest1"]
                   /\ reader.runs = "runs1" /\ entry[At("root1", "runs")] = "runs1"
                   /\ (flawed <=> ~Intact(entry, content))
  BY DEF IInv, Undisturbed, RunsStand
<1>3. deeds = 0 /\ ~flawed => ~reader.flaw
  BY DEF IInv, Blameless
<1> QED
  BY <1>1, <1>2, <1>3

(* A record was read, or not: what came of it waits for the last look at   *)
(* the runs directory.                                                     *)
LEMMA WaitKeeps ==
  ASSUME IInv, Moves, NEW C, Earned(C), reader.at = "leave", reader.inside, NEW t,
         (reader.task = "get" /\ t = "get-end") \/ (reader.task = "list" /\ t = "list-end"),
         reader' = Proceed(t, [reader EXCEPT !.prior = C]), C = {} => reader.causes = {}
  PROVE  IInv'
<1> DEFINE r == [reader EXCEPT !.prior = C]
<1>1. reader \in ReaderState /\ reader.prior = {} /\ C \subseteq Causes
  BY LaterHas DEF IInv, OnItsWay, Earned
<1>2. r \in ReaderState
  BY <1>1 DEF ReaderState
<1>3. /\ r.prior = C /\ r.manifest = reader.manifest /\ r.flaw = reader.flaw /\ r.runs = reader.runs
      /\ r.data = reader.data /\ r.file = reader.file
  BY <1>1 DEF ReaderState
<1> HIDE DEF r
<1>4. CASE t = "get-end"
  <2>1. C = {} => Leaving("get")
    BY <1>1, <1>4 DEF Leaving
  <2>2. C = {} => /\ reader.data # "none" /\ Held(At(reader.runs, "selected"), reader.file)
                  /\ deeds = 0 => SelectedStands /\ reader.data = content["selected1"]
    BY <2>1 DEF IInv, Confirmed, Undisturbed
  <2>3. reader' = Proceed("get-end", r)
    BY <1>4 DEF r
  <2> QED
    BY <1>2, <1>3, <1>4, <2>2, <2>3, LaterHas, ProceedKeeps
<1>5. CASE t = "list-end"
  <2>1. C = {} => Leaving("list")
    BY <1>1, <1>5 DEF Leaving
  <2>2. deeds = 0 /\ ~reader.flaw => /\ SelectedStands /\ content["selected1"] = reader.manifest
                                     /\ C = {} => OtherStands
    BY <1>5, <2>1 DEF IInv, Undisturbed
  <2>3. reader' = Proceed("list-end", r)
    BY <1>5 DEF r
  <2> QED
    BY <1>2, <1>3, <1>5, <2>2, <2>3, LaterHas, ProceedKeeps
<1> QED
  BY <1>4, <1>5

(* The selected record is what the manifest says, or the audit has a flaw. *)
LEMMA AuditKeeps ==
  ASSUME IInv, Moves, NEW C, Earned(C), reader.at = "leave", reader.task \in {"get", "get-end"}, reader' = Audit(C),
         C = {} => reader.task = "get-end" /\ reader.prior = {}
  PROVE  IInv'
<1>1. CASE "io" \in C
  <2>1. reader' = Decide("operational")
    BY <1>1 DEF Audit
  <2> QED
    BY <1>1, <2>1, DecideKeeps DEF Earned
<1>2. CASE "io" \notin C
  <2> DEFINE b == C # {} \/ reader.data # reader.manifest
  <2>1. PICK f \in BOOLEAN : f = b
    <3>1. b \in BOOLEAN
      BY Zenon
    <3> QED
      BY <3>1
  <2> HIDE DEF b
  <2> DEFINE q == [reader EXCEPT !.flaw = f]
             r == [q EXCEPT !.prior = {}]
  <2>2. reader' = Proceed("list", r)
    BY <1>2, <2>1 DEF Audit, b
  <2>3. reader \in ReaderState /\ q \in ReaderState
    BY LaterHas DEF ReaderState
  <2>4. /\ r.prior = {} /\ r.manifest = reader.manifest /\ r.flaw = f /\ r.runs = reader.runs
    BY <2>3 DEF ReaderState
  <2> HIDE DEF q
  <2>5. r \in ReaderState
    BY <2>3 DEF ReaderState
  <2> HIDE DEF r
  <2>6. ~f => C = {} /\ reader.data = reader.manifest
    BY <2>1 DEF b
  <2>7. deeds = 0 /\ C = {} => SelectedStands /\ reader.data = content["selected1"]
    BY DEF IInv, Undisturbed
  <2>8. deeds = 0 /\ ~flawed => ~f
    <3>1. deeds = 0 /\ ~flawed => C = {}
      BY <1>2 DEF Earned
    <3>2. deeds = 0 /\ ~flawed => Intact(entry, content) /\ reader.manifest = content["manifest1"]
      BY LaterHas
    <3> QED
      BY <2>1, <2>7, <3>1, <3>2 DEF b, Intact
  <2>9. Earned({})
    BY DEF Earned
  <2> QED
    BY <2>2, <2>4, <2>5, <2>6, <2>7, <2>8, <2>9, LaterHas, ProceedKeeps
<1> QED
  BY <1>1, <1>2

(* The audit is over.                                                      *)
LEMMA JudgeKeeps ==
  ASSUME IInv, Moves, NEW C, Earned(C), reader.at = "leave", reader.task \in {"list", "list-end"}, reader' = Judge(C),
         C = {} => reader.task = "list-end" /\ reader.prior = {}
  PROVE  IInv'
<1>1. \/ "io" \in C /\ reader' = Decide("operational")
      \/ "io" \notin C /\ (C # {} \/ reader.flaw) /\ reader' = Decide("invalid")
      \/ C = {} /\ ~reader.flaw /\ reader' = Decide("audited")
  BY DEF Judge
<1>2. CASE "io" \in C /\ reader' = Decide("operational")
  BY <1>2, DecideKeeps DEF Earned
<1>3. CASE "io" \notin C /\ (C # {} \/ reader.flaw) /\ reader' = Decide("invalid")
  BY <1>3, LaterHas, DecideKeeps DEF Earned
<1>4. CASE C = {} /\ ~reader.flaw /\ reader' = Decide("audited")
  <2>1. deeds = 0 => OtherStands /\ SelectedStands /\ content["selected1"] = reader.manifest
    BY <1>4 DEF IInv, Undisturbed
  <2>2. deeds = 0 => Intact(entry, content)
    BY <2>1, LaterHas DEF Intact, ManifestStands, SelectedStands, OtherStands
  <2> QED
    BY <1>4, <2>2, LaterHas, DecideKeeps
<1> QED
  BY <1>1, <1>2, <1>3, <1>4

(* What is open is closed, and the invocation goes on with its next task.  *)
LEMMA LeaveKeeps == IInv /\ Leave => IInv'
<1> SUFFICES ASSUME IInv, Leave PROVE IInv'
  OBVIOUS
<1>1. reader.at = "leave" /\ reader.task # "done" /\ reader \in ReaderState
  BY DEF Leave, IInv, TypeOK
<1>2. PICK C : /\ reader' = Returned(C) /\ Moves
               /\ (C = reader.causes /\ faulted' = faulted) \/ (C = reader.causes \cup {"io"} /\ faulted')
  <2>1. CASE Go(Returned(reader.causes))
    BY <2>1, GoMoves
  <2>2. CASE FaultTo(Returned(reader.causes \cup {"io"}))
    BY <2>2, FaultMoves
  <2> QED
    BY <2>1, <2>2 DEF Leave
<1>3. reader.causes \subseteq Causes /\ reader.prior \subseteq Causes /\ "io" \in Causes
  BY <1>1 DEF ReaderState, Causes
<1>4. /\ deeds = 0 /\ ~faulted => "io" \notin reader.causes \cup reader.prior
      /\ deeds = 0 /\ ~flawed /\ reader.causes # {} => "io" \in reader.causes
      /\ deeds = 0 /\ ~flawed /\ reader.prior # {} => "io" \in reader.prior
  BY DEF IInv, Blameless
<1>5. (faulted => faulted') /\ faulted \in BOOLEAN /\ faulted' \in BOOLEAN
  BY <1>2 DEF Moves, Acts, IInv, TypeOK
<1>6. Earned(C)
  BY <1>2, <1>3, <1>4, <1>5 DEF Earned
<1>7. Earned(reader.prior \cup C)
  BY <1>2, <1>3, <1>4, <1>5 DEF Earned
<1>8. C = {} => reader.causes = {}
  BY <1>2
<1>9. reader.task \in {"load", "open", "get", "get-end", "list", "list-end"}
  BY <1>1 DEF ReaderState
<1>10. CASE reader.task = "load"
  <2>1. reader' = Load(C)
    BY <1>2, <1>10 DEF Returned
  <2>2. "missing" \in C => vanished
    BY <1>2, <1>10 DEF IInv, Witnessed, Loading
  <2> QED
    BY <1>1, <1>2, <1>6, <1>8, <1>10, <2>1, <2>2, LoadKeeps
<1>11. CASE reader.task = "open"
  <2>1. reader' = Open(C)
    BY <1>2, <1>11 DEF Returned
  <2> QED
    BY <1>1, <1>2, <1>6, <1>8, <1>11, <2>1, OpenKeeps
<1>12. CASE reader.task = "get"
  <2>1. CASE reader.inside
    <3>1. reader' = Proceed("get-end", [reader EXCEPT !.prior = C])
      BY <1>2, <1>12, <2>1 DEF Returned
    <3> QED
      BY <1>1, <1>2, <1>6, <1>8, <1>12, <2>1, <3>1, WaitKeeps
  <2>2. CASE ~reader.inside
    <3>1. reader' = Audit(C)
      BY <1>2, <1>12, <2>2 DEF Returned
    <3>2. C # {}
      BY <1>1, <1>8, <1>12, <2>2 DEF IInv, OnItsWay
    <3> QED
      BY <1>1, <1>2, <1>6, <1>12, <3>1, <3>2, AuditKeeps
  <2> QED
    BY <2>1, <2>2
<1>13. CASE reader.task = "get-end"
  <2>1. reader' = Audit(reader.prior \cup C)
    BY <1>2, <1>13 DEF Returned
  <2>2. reader.prior \cup C = {} => reader.prior = {}
    OBVIOUS
  <2> QED
    BY <1>1, <1>2, <1>7, <1>13, <2>1, <2>2, AuditKeeps
<1>14. CASE reader.task = "list"
  <2>1. CASE reader.inside
    <3>1. reader' = Proceed("list-end", [reader EXCEPT !.prior = C])
      BY <1>2, <1>14, <2>1 DEF Returned
    <3> QED
      BY <1>1, <1>2, <1>6, <1>8, <1>14, <2>1, <3>1, WaitKeeps
  <2>2. CASE ~reader.inside
    <3>1. reader' = Judge(C)
      BY <1>2, <1>14, <2>2 DEF Returned
    <3>2. C # {}
      BY <1>1, <1>8, <1>14, <2>2 DEF IInv, OnItsWay
    <3> QED
      BY <1>1, <1>2, <1>6, <1>14, <3>1, <3>2, JudgeKeeps
  <2> QED
    BY <2>1, <2>2
<1>15. CASE reader.task = "list-end"
  <2>1. reader' = Judge(reader.prior \cup C)
    BY <1>2, <1>15 DEF Returned
  <2>2. reader.prior \cup C = {} => reader.prior = {}
    OBVIOUS
  <2> QED
    BY <1>1, <1>2, <1>7, <1>15, <2>1, <2>2, JudgeKeeps
<1> QED
  BY <1>9, <1>10, <1>11, <1>12, <1>13, <1>14, <1>15

------------------------------------------------------------------------------
(* Other programs.                                                         *)

(* The places that are confirmed.                                          *)
LEMMA ConfirmedPlaces ==
  ASSUME IInv
  PROVE  /\ Loading /\ (reader.at = "verify" \/ Leaving("load")) =>
              \E h \in Home, g \in Digest :
                /\ reader.chain = <<"top", h, g>> /\ Handle = g
                /\ reader.chain[1] = "top" /\ reader.chain[2] = h /\ reader.chain[3] = g
                /\ Walk[1] = "root" /\ Walk[2] = "release"
                /\ At(h, "release") \in Place /\ At(g, "manifest") \in Place
         /\ reader.task \in {"get", "get-end", "list-end"} => At(reader.runs, "selected") \in Place
         /\ Leaving("load") => Loading /\ reader.data # "none"
<1>1. ASSUME Loading, reader.at = "verify" \/ Leaving("load")
      PROVE  \E h \in Home, g \in Digest :
               /\ reader.chain = <<"top", h, g>> /\ Handle = g
               /\ reader.chain[1] = "top" /\ reader.chain[2] = h /\ reader.chain[3] = g
               /\ Walk[1] = "root" /\ Walk[2] = "release"
               /\ At(h, "release") \in Place /\ At(g, "manifest") \in Place
  <2>1. PICK h \in Home, g \in Digest : reader.chain = <<"top", h, g>>
    BY <1>1, VerifyIs DEF IInv, Confirmed
  <2>2. /\ Handle = g /\ reader.chain[1] = "top" /\ reader.chain[2] = h /\ reader.chain[3] = g
        /\ Walk[1] = "root" /\ Walk[2] = "release"
    BY <1>1, <2>1 DEF Handle, Walk
  <2> QED
    BY <2>1, <2>2, Places
<1>2. reader.task \in {"get", "get-end", "list-end"} => At(reader.runs, "selected") \in Place
  BY Places DEF IInv, OnItsWay
<1>3. Leaving("load") => Loading /\ reader.data # "none"
  BY DEF IInv, Confirmed, Leaving, Loading
<1> QED
  BY <1>1, <1>2, <1>3

(* A deed of another program leaves the invocation where it is.            *)
LEMMA DeedKeeps ==
  ASSUME IInv, Deed, TypeOK', OneVersion', Missing(entry)' => vanished', vanished => vanished',
         \A q \in Place, w \in Object \cup Odd \cup {"none"} : Recalling(reader) /\ Held(q, w) => Held(q, w)'
  PROVE  IInv'
<1>1. reader' = reader /\ deeds' = deeds + 1 /\ faulted' = faulted /\ flawed' = flawed /\ deeds' # 0 /\ deeds' > 0
  BY DEF Deed, IInv, TypeOK
<1>2. Loading' = Loading /\ Handle' = Handle /\ Walk' = Walk /\ \A t : Leaving(t)' = Leaving(t)
  BY <1>1 DEF Loading, Handle, Walk, Leaving
<1>3. OnItsWay'
  BY <1>1, <1>2 DEF IInv, OnItsWay, Component
<1>4. At("top", "root") \in Place /\ \A h \in Home : At(h, "runs") \in Place
  BY Places
<1>5. /\ reader.file \in Object \cup Odd \cup {"none"} /\ reader.runs \in Object \cup Odd \cup {"none"}
      /\ Home \subseteq Object /\ Digest \subseteq Object
  <2>1. reader \in ReaderState
    BY DEF IInv, TypeOK
  <2> QED
    BY <2>1 DEF ReaderState, Object, Dir
<1>6. PICK f \in Object \cup Odd \cup {"none"}, r \in Object \cup Odd \cup {"none"} : f = reader.file /\ r = reader.runs
  BY <1>5
<1>7. Confirmed'
  <2>1. ASSUME Loading, reader.at = "verify", reader.data # "none"
        PROVE  /\ Held(At(reader.chain[3], "manifest"), reader.file)'
               /\ reader.level = 2 => Held(At("top", "root"), reader.chain[2])'
    <3>1. PICK h \in Home, g \in Digest : reader.chain[2] = h /\ reader.chain[3] = g /\ At(g, "manifest") \in Place
      BY <2>1, ConfirmedPlaces
    <3>2. Held(At(g, "manifest"), f) /\ (reader.level = 2 => Held(At("top", "root"), h))
      BY <1>6, <2>1, <3>1 DEF IInv, Confirmed
    <3>3. Held(At(g, "manifest"), f)' /\ (reader.level = 2 => Held(At("top", "root"), h)')
      BY <1>4, <1>5, <2>1, <3>1, <3>2 DEF Recalling
    <3> QED
      BY <1>1, <1>6, <3>1, <3>3 DEF Held
  <2>2. ASSUME Leaving("get") \/ (reader.task = "get-end" /\ reader.prior = {})
        PROVE  reader.data # "none" /\ Held(At(reader.runs, "selected"), reader.file)'
    <3>1. reader.data # "none" /\ Held(At(r, "selected"), f) /\ At(r, "selected") \in Place
      BY <1>6, <2>2, ConfirmedPlaces DEF IInv, Confirmed, Leaving
    <3>2. Held(At(r, "selected"), f)'
      BY <3>1 DEF Recalling
    <3> QED
      BY <1>1, <1>6, <3>1, <3>2 DEF Held
  <2>3. ASSUME reader.task \in {"get-end", "list-end"}, reader.prior = {}, reader.at \in Walking, reader.level = 1
        PROVE  Held(At("top", "root"), Handle)'
    <3>1. PICK h \in Home : h = Handle
      BY <2>3, WalkIs
    <3>2. Held(At("top", "root"), h) /\ (reader.task = "get-end" => reader.data # "none")
      BY <2>3, <3>1 DEF IInv, Confirmed
    <3>3. Held(At("top", "root"), h)'
      BY <1>4, <1>5, <2>3, <3>2 DEF Recalling
    <3> QED
      BY <1>2, <3>1, <3>3 DEF Held
  <2>4. Leaving("load") => reader.data # "none" /\ \E h \in Home, g \in Digest : reader.chain = <<"top", h, g>>
    BY DEF IInv, Confirmed
  <2> QED
    BY <1>1, <1>2, <2>1, <2>2, <2>3, <2>4 DEF Confirmed
<1>8. AnswerIsCurrent'
  <2>1. ASSUME Leaving("load")
        PROVE  /\ \A i \in 1 .. 2 : Held(At(reader.chain[i], Walk[i]), reader.chain[i + 1])'
               /\ Held(At(Handle, "manifest"), reader.file)'
    <3>1. PICK h \in Home, g \in Digest :
            /\ Handle = g /\ reader.chain[1] = "top" /\ reader.chain[2] = h /\ reader.chain[3] = g
            /\ Walk[1] = "root" /\ Walk[2] = "release" /\ At(h, "release") \in Place /\ At(g, "manifest") \in Place
      BY <2>1, ConfirmedPlaces
    <3>2. /\ \A i \in 1 .. 2 : Held(At(reader.chain[i], Walk[i]), reader.chain[i + 1])
          /\ Held(At(g, "manifest"), f)
      BY <1>6, <2>1, <3>1 DEF IInv, AnswerIsCurrent
    <3>3. Held(At("top", "root"), h) /\ Held(At(h, "release"), g)
      BY <3>1, <3>2
    <3>4. Held(At("top", "root"), h)' /\ Held(At(h, "release"), g)' /\ Held(At(g, "manifest"), f)'
      BY <1>4, <1>5, <2>1, <3>1, <3>2, <3>3, ConfirmedPlaces DEF Recalling
    <3> QED
      BY <1>1, <1>2, <1>6, <3>1, <3>4 DEF Held
  <2>2. ASSUME Leaving("get-end") \/ Leaving("list-end")
        PROVE  \E d \in Home : Held(At("top", "root"), d)' /\ Held(At(d, "runs"), reader.runs)'
    <3>1. PICK d \in Home : Held(At("top", "root"), d) /\ Held(At(d, "runs"), r)
      BY <1>6, <2>2 DEF IInv, AnswerIsCurrent
    <3>2. Recalling(reader)
      BY <2>2 DEF IInv, Confirmed, Leaving, Recalling
    <3>3. Held(At("top", "root"), d)' /\ Held(At(d, "runs"), r)'
      BY <1>4, <1>5, <3>1, <3>2
    <3> QED
      BY <1>1, <1>6, <3>3 DEF Held
  <2>3. Leaving("get-end") => Held(At(reader.runs, "selected"), reader.file)'
    BY <1>1, <1>7 DEF Confirmed, Leaving
  <2>4. reader.manifest # "torn"
    BY DEF IInv, AnswerIsCurrent
  <2> QED
    BY <1>1, <1>2, <2>1, <2>2, <2>3, <2>4 DEF AnswerIsCurrent
<1>9. Witnessed'
  BY <1>1, <1>2 DEF IInv, Witnessed
<1>10. Undisturbed' /\ Blameless'
  BY <1>1 DEF Undisturbed, Blameless
<1>11. ReleaseIsBlamed'
  BY <1>1 DEF IInv, ReleaseIsBlamed
<1> QED
  BY <1>3, <1>7, <1>8, <1>9, <1>10, <1>11 DEF IInv

(* A name is given something else: what it led to is recalled.             *)
LEMMA ReplaceKeeps ==
  ASSUME IInv, NEW p \in Place, NEW v \in Fits(p) \cup Odd, Replace(p, v)
  PROVE  IInv'
<1>1. /\ Deed /\ UNCHANGED <<content, stamp>> /\ reader' = reader /\ faulted' = faulted /\ flawed' = flawed
      /\ deeds' = deeds + 1
      /\ entry' = [q \in Place |-> IF q = p THEN v ELSE IF v \in Object /\ entry[q] = v THEN "absent" ELSE entry[q]]
      /\ past' = IF ~Recalling(reader) THEN {}
                 ELSE past \cup {[place |-> q, held |-> entry[q]] : q \in {q \in Place : entry'[q] # entry[q]}}
  BY DEF Replace, Deed
<1>2. vanished' = (vanished \/ Missing(entry'))
  BY DEF Replace
<1>3. TypeOK'
  <2>1. \A q \in Place : entry'[q] \in Fits(q) \cup Odd
    BY <1>1 DEF IInv, TypeOK, Odd
  <2>2. entry' \in [Place -> Object \cup Odd]
    BY <1>1, <2>1, FitsObject
  <2>3. past' \subseteq [place : Place, held : Object \cup Odd]
    <3>1. \A q \in Place : entry[q] \in Object \cup Odd
      BY DEF IInv, TypeOK
    <3>2. ASSUME NEW x \in past' PROVE x \in [place : Place, held : Object \cup Odd]
      <4>1. x \in past \/ \E q \in Place : x = [place |-> q, held |-> entry[q]]
        BY <1>1, <3>2
      <4> QED
        BY <3>1, <4>1 DEF IInv, TypeOK
    <3> QED
      BY <3>2
  <2>4. vanished' \in BOOLEAN
    BY <1>2, Zenon
  <2> QED
    BY <1>1, <2>1, <2>2, <2>3, <2>4 DEF IInv, TypeOK
<1>4. OneVersion'
  BY <1>1 DEF IInv, OneVersion, Loading, Leaving
<1>5. (Missing(entry)' => vanished') /\ (vanished => vanished')
  BY <1>2, Zenon DEF Missing
<1>6. ASSUME NEW q \in Place, NEW w \in Object \cup Odd \cup {"none"}, Recalling(reader), Held(q, w)
      PROVE  Held(q, w)'
  <2>1. CASE [place |-> q, held |-> w] \in past
    BY <1>1, <1>6, <2>1 DEF Held
  <2>2. CASE entry[q] = w /\ entry'[q] = w
    BY <2>2 DEF Held
  <2>3. CASE entry[q] = w /\ entry'[q] # w
    BY <1>1, <1>6, <2>3 DEF Held
  <2> QED
    BY <1>6, <2>1, <2>2, <2>3 DEF Held
<1> QED
  BY <1>1, <1>3, <1>4, <1>5, <1>6, DeedKeeps

(* A file is rewritten: it has another stamp.                              *)
LEMMA RewriteKeeps ==
  ASSUME IInv, NEW f \in File, NEW c \in Content, Rewrite(f, c)
  PROVE  IInv'
<1>1. /\ Deed /\ UNCHANGED <<entry, past, vanished>> /\ reader' = reader /\ faulted' = faulted /\ flawed' = flawed
      /\ deeds' = deeds + 1
      /\ content' = [content EXCEPT ![f] = c] /\ stamp' = [stamp EXCEPT ![f] = @ + 1]
  BY DEF Rewrite, Deed
<1>2. TypeOK'
  BY <1>1 DEF IInv, TypeOK
<1>3. OneVersion'
  <2>1. reader.at \in Filing => reader.seen \in File /\ stamp[reader.seen] \in Nat /\ reader.saw \in Nat
    BY FileHas
  <2>2. ASSUME reader.at \in Filing
        PROVE  /\ reader.saw <= stamp'[reader.seen]
               /\ reader.saw = stamp'[reader.seen] =>
                    reader.saw = stamp[reader.seen] /\ content'[reader.seen] = content[reader.seen]
    <3>1. reader.saw <= stamp[reader.seen]
      BY <2>2 DEF IInv, OneVersion
    <3>2. CASE reader.seen = f
      BY <1>1, <2>1, <2>2, <3>1, <3>2 DEF IInv, TypeOK
    <3>3. CASE reader.seen # f
      BY <1>1, <2>1, <2>2, <3>1, <3>3 DEF IInv, TypeOK
    <3> QED
      BY <3>2, <3>3
  <2> QED
    BY <1>1, <2>2, Stages DEF IInv, OneVersion, Loading, Leaving
<1>4. (Missing(entry)' => vanished') /\ (vanished => vanished')
  <2>1. Missing(entry)' <=> Missing(entry)
    BY <1>1 DEF Missing
  <2> QED
    BY <1>1, <2>1 DEF IInv, Witnessed
<1>5. \A q \in Place, w \in Object \cup Odd \cup {"none"} : Recalling(reader) /\ Held(q, w) => Held(q, w)'
  BY <1>1 DEF Held
<1> QED
  BY <1>1, <1>2, <1>3, <1>4, <1>5, DeedKeeps

------------------------------------------------------------------------------
(* The theorems.                                                           *)

(* Stuttering changes nothing.                                             *)
LEMMA StutterKeeps == IInv /\ UNCHANGED vars => IInv'
<1> SUFFICES ASSUME IInv, UNCHANGED vars PROVE IInv'
  OBVIOUS
<1> USE DEF vars
<1>1. Handle' = Handle /\ Component' = Component /\ Loading' = Loading
  BY DEF Handle, Component, Walk, Loading
<1>2. /\ At(Handle, Component)' = At(Handle, Component)
      /\ At(Handle, reader.name)' = At(Handle, reader.name)
      /\ Leaving("open")' = Leaving("open")
  BY <1>1 DEF Leaving
<1>3. TypeOK' /\ OneVersion'
  <2>1. TypeOK'
    BY DEF IInv, TypeOK
  <2>2. OneVersion'
    BY DEF IInv, OneVersion, Loading, Leaving
  <2> QED
    BY <2>1, <2>2
<1>4. OnItsWay'
  BY <1>1, <1>2 DEF IInv, OnItsWay
<1>5. Confirmed' /\ AnswerIsCurrent'
  BY DEF IInv, Confirmed, AnswerIsCurrent, Held, Loading, Leaving, Handle, Walk
<1>6. Witnessed' /\ Blameless' /\ ReleaseIsBlamed'
  BY DEF IInv, Witnessed, Missing, Blameless, ReleaseIsBlamed, Loading
<1>7. Undisturbed'
  <2>1. Current(Component)' = Current(Component) /\ Current(reader.name)' = Current(reader.name)
    BY <1>1 DEF Current
  <2>2. Intact(entry, content)' <=> Intact(entry, content)
    BY DEF Intact
  <2>3. /\ ManifestStands' <=> ManifestStands
        /\ RunsStand' <=> RunsStand
        /\ SelectedStands' <=> SelectedStands
        /\ OtherStands' <=> OtherStands
    BY DEF ManifestStands, RunsStand, SelectedStands, OtherStands
  <2>4. \A t \in {"load", "open", "get", "list"} : Leaving(t)' <=> Leaving(t)
    BY DEF Leaving
  <2> QED
    BY <1>1, <2>1, <2>2, <2>3, <2>4 DEF IInv, Undisturbed
<1> QED
  BY <1>3, <1>4, <1>5, <1>6, <1>7 DEF IInv

(* The invariant holds at every step, however many changes other programs  *)
(* make and whichever calls fail.                                          *)
THEOREM Invariance == Spec => []IInv
<1>1. IInv /\ [Next]_vars => IInv'
  <2> SUFFICES ASSUME IInv, [Next]_vars PROVE IInv'
    OBVIOUS
  <2>1. CASE Step
    BY <2>1, LookKeeps, EnterKeeps, WhyKeeps, ConfirmKeeps, VerifyKeeps, FindKeeps, OpenFileKeeps, WhyFileKeeps,
       CheckFileKeeps, ReadKeeps, ReadOnKeeps, DecodeKeeps, RecheckKeeps, NamesKeeps, ScanKeeps, LeaveKeeps DEF Step
  <2>2. CASE \E p \in Place : \E v \in Fits(p) \cup Odd : Replace(p, v)
    BY <2>2, ReplaceKeeps
  <2>3. CASE \E f \in File, c \in Content : Rewrite(f, c)
    BY <2>3, RewriteKeeps
  <2>4. CASE UNCHANGED vars
    BY <2>4, StutterKeeps
  <2> QED
    BY <2>1, <2>2, <2>3, <2>4 DEF Next
<1> QED
  BY InitInv, <1>1, PTL DEF Spec

------------------------------------------------------------------------------
(* From a failure to the verdict.                                          *)

KeepsPrior == reader'.task = reader.task /\ reader'.prior = reader.prior /\ reader'.verdict = reader.verdict

(* A step within a task: a failure is taken note of at once, or the second *)
(* look at the name will do that.                                          *)
Continues ==
  /\ KeepsPrior /\ deeds' = deeds
  /\ \/ faulted' = faulted /\ "io" \notin reader'.causes /\ reader'.at \notin {"why", "why-file"}
     \/ faulted' /\ ("io" \in reader'.causes \/ reader'.at \in {"why", "why-file"})

(* Where no open has failed yet, such a step loses nothing.                *)
LEMMA ContinuesTraces ==
  ASSUME IInv, Traced, reader.at \notin {"leave", "why", "why-file"}, reader.task # "done", Continues
  PROVE  Traced'
<1>1. reader.causes = {} /\ faulted \in BOOLEAN /\ deeds \in Nat
  BY DEF IInv, OnItsWay, TypeOK
<1>2. reader'.task # "done" => reader'.verdict = "none"
  BY DEF Traced, Continues, KeepsPrior
<1>3. ASSUME ~faulted', deeds' < 2
      PROVE  /\ "io" \notin reader'.causes \cup reader'.prior /\ reader'.verdict # "operational"
             /\ reader'.at \notin {"why", "why-file"}
  BY <1>1, <1>3 DEF Traced, Continues, KeepsPrior
<1>4. ASSUME faulted', deeds' = 0
      PROVE  reader'.task # "done" /\ (reader'.at \in {"why", "why-file"} \/ "io" \in reader'.causes \cup reader'.prior)
  BY <1>1, <1>4 DEF Traced, Continues, KeepsPrior
<1> QED
  BY <1>2, <1>3, <1>4 DEF Traced

(* A call that succeeds.                                                   *)
LEMMA GoContinues ==
  ASSUME NEW r, Go(r), r.task = reader.task, r.prior = reader.prior, r.verdict = reader.verdict,
         "io" \notin r.causes, r.at \notin {"why", "why-file"}
  PROVE  Continues
  BY DEF Go, Becomes, Continues, KeepsPrior

(* A call whose outcome is refused.                                        *)
LEMMA RefuseContinues ==
  ASSUME IInv, NEW c, c # "io", Refuse(c)
  PROVE  Continues
<1> DEFINE r == [reader EXCEPT !.at = "leave", !.causes = {c}]
<1>1. Go(r) /\ reader \in ReaderState
  BY DEF Refuse, IInv, TypeOK
<1>2. /\ r.task = reader.task /\ r.prior = reader.prior /\ r.verdict = reader.verdict
      /\ r.causes = {c} /\ r.at = "leave"
  BY <1>1 DEF ReaderState
<1> HIDE DEF r
<1> QED
  BY <1>1, <1>2, GoContinues

(* A call that fails.                                                      *)
LEMMA FaultContinues ==
  ASSUME NEW r, FaultTo(r), r.task = reader.task, r.prior = reader.prior, r.verdict = reader.verdict,
         "io" \in r.causes \/ r.at \in {"why", "why-file"}
  PROVE  Continues
  BY DEF FaultTo, Becomes, Continues, KeepsPrior

(* A call that fails and is refused for it.                                *)
LEMMA FaultRefuseContinues ==
  ASSUME IInv, FaultRefuse
  PROVE  Continues
<1> DEFINE r == [reader EXCEPT !.at = "leave", !.causes = {"io"}]
<1>1. FaultTo(r) /\ reader \in ReaderState
  BY DEF FaultRefuse, IInv, TypeOK
<1>2. r.task = reader.task /\ r.prior = reader.prior /\ r.verdict = reader.verdict /\ r.causes = {"io"}
  BY <1>1 DEF ReaderState
<1> HIDE DEF r
<1> QED
  BY <1>1, <1>2, FaultContinues

(* The look at a name.                                                     *)
LEMMA LookContinues == IInv /\ Look => Continues
<1> SUFFICES ASSUME IInv, Look PROVE Continues
  OBVIOUS
<1>1. reader \in ReaderState /\ reader.causes = {}
  BY DEF IInv, TypeOK, OnItsWay, Look
<1>2. CASE \E c \in {"missing", "unsafe"} : Refuse(c)
  BY <1>2, RefuseContinues
<1>3. CASE Go([reader EXCEPT !.at = "enter", !.seen = Current(Component)])
  <2> DEFINE r == [reader EXCEPT !.at = "enter", !.seen = Current(Component)]
  <2>1. r.task = reader.task /\ r.prior = reader.prior /\ r.verdict = reader.verdict /\ r.causes = {} /\ r.at = "enter"
    BY <1>1 DEF ReaderState
  <2> HIDE DEF r
  <2> QED
    BY <1>3, <2>1, GoContinues DEF r
<1> QED
  BY <1>2, <1>3, FaultRefuseContinues DEF Look

(* A directory was opened and is the one looked at.                        *)
LEMMA EnteredContinues ==
  ASSUME IInv, reader.at = "confirm", reader.child = reader.seen, Entered
  PROVE  Continues
<1>1. /\ reader.at \in Walking /\ reader.level \in {0, 1} /\ reader.task # "done" /\ reader \in ReaderState
      /\ reader.level = 1 /\ Loading => \E h \in Home : reader.chain = <<"top", h>>
      /\ reader.child \in Fits(At(Handle, Component))
  <2>1. reader.at \in Walking \ {"look"} /\ reader \in ReaderState
    BY DEF Walking, IInv, TypeOK
  <2>2. /\ reader.task # "done"
        /\ \/ reader.level = 0 /\ reader.chain = <<"top">>
           \/ reader.level = 1 /\ \E h \in Home : reader.chain = IF Loading THEN <<"top", h>> ELSE <<h>>
        /\ reader.seen \in Fits(At(Handle, Component))
    BY <2>1 DEF IInv, OnItsWay
  <2>3. reader.level = 1 /\ Loading => \E h \in Home : reader.chain = <<"top", h>>
    BY <2>2
  <2>4. reader.level \in {0, 1} /\ reader.child \in Fits(At(Handle, Component))
    BY <2>2
  <2> QED
    BY <2>1, <2>2, <2>3, <2>4
<1>2. reader.task \in {"load", "open", "get", "get-end", "list", "list-end"} /\ (Loading <=> reader.task = "load")
  BY <1>1 DEF ReaderState, Loading
<1>3. /\ KeepsPrior /\ reader'.causes \in {{}, {"unsafe"}}
      /\ reader'.at \in {"look", "verify", "leave", "find", "names"}
  BY <1>1, <1>2, EnteredAt DEF Arrives, KeepsTask, KeepsPrior
<1>4. faulted' = faulted /\ deeds' = deeds
  <2>1. \E r : Go(r)
    BY DEF Entered
  <2> QED
    BY <2>1 DEF Go, Becomes
<1> QED
  BY <1>3, <1>4 DEF Continues

(* The comparison of what was opened with what is at the name.             *)
LEMMA ConfirmContinues == IInv /\ Confirm => Continues
<1> SUFFICES ASSUME IInv, Confirm PROVE Continues
  OBVIOUS
<1>1. reader \in ReaderState /\ reader.at = "confirm"
  BY DEF IInv, TypeOK, Confirm
<1>2. CASE reader.child = reader.seen /\ Entered
  BY <1>1, <1>2, EnteredContinues
<1>3. CASE Refuse("unsafe")
  BY <1>3, RefuseContinues
<1>4. CASE FaultTo([reader EXCEPT !.at = "why", !.child = "odd"])
  <2> DEFINE r == [reader EXCEPT !.at = "why", !.child = "odd"]
  <2>1. r.task = reader.task /\ r.prior = reader.prior /\ r.verdict = reader.verdict /\ r.at = "why"
    BY <1>1 DEF ReaderState
  <2> HIDE DEF r
  <2> QED
    BY <1>4, <2>1, FaultContinues DEF r
<1> QED
  BY <1>2, <1>3, <1>4, FaultRefuseContinues DEF Confirm

(* The way back over the open directories.                                 *)
LEMMA VerifyContinues == IInv /\ Verify => Continues
<1> SUFFICES ASSUME IInv, Verify PROVE Continues
  OBVIOUS
<1>1. reader \in ReaderState /\ reader.causes = {} /\ reader.at = "verify"
  BY DEF IInv, TypeOK, OnItsWay, Verify
<1>2. CASE Refuse("unsafe")
  BY <1>2, RefuseContinues
<1>3. CASE \E r \in {[reader EXCEPT !.level = 2], [reader EXCEPT !.at = "find", !.name = "manifest"],
                     [reader EXCEPT !.at = "leave"]} : Go(r)
  <2>1. PICK r \in {[reader EXCEPT !.level = 2], [reader EXCEPT !.at = "find", !.name = "manifest"],
                    [reader EXCEPT !.at = "leave"]} : Go(r)
    BY <1>3
  <2>2. /\ r.task = reader.task /\ r.prior = reader.prior /\ r.verdict = reader.verdict
        /\ r.causes = {} /\ r.at \notin {"why", "why-file"}
    BY <1>1, <2>1 DEF ReaderState
  <2> QED
    BY <2>1, <2>2, GoContinues
<1> QED
  BY <1>2, <1>3, FaultRefuseContinues DEF Verify

(* The look at a file.                                                     *)
LEMMA FindContinues == IInv /\ Find => Continues
<1> SUFFICES ASSUME IInv, Find PROVE Continues
  OBVIOUS
<1>1. reader \in ReaderState /\ reader.causes = {}
  BY DEF IInv, TypeOK, OnItsWay, Find
<1>2. CASE \E c \in {"corrupt", "missing", "unsafe", "large"} : Refuse(c)
  BY <1>2, RefuseContinues
<1>3. CASE \E v, n : Go([reader EXCEPT !.at = "open-file", !.seen = v, !.saw = n])
  <2>1. PICK v, n : Go([reader EXCEPT !.at = "open-file", !.seen = v, !.saw = n])
    BY <1>3
  <2> DEFINE r == [reader EXCEPT !.at = "open-file", !.seen = v, !.saw = n]
  <2>2. r.task = reader.task /\ r.prior = reader.prior /\ r.verdict = reader.verdict /\ r.causes = {} /\ r.at = "open-file"
    BY <1>1 DEF ReaderState
  <2> HIDE DEF r
  <2> QED
    BY <2>1, <2>2, GoContinues DEF r
<1> QED
  BY <1>2, <1>3, FaultRefuseContinues DEF Find

(* The comparison of the open file with the path.                          *)
LEMMA CheckFileContinues == IInv /\ CheckFile => Continues
<1> SUFFICES ASSUME IInv, CheckFile PROVE Continues
  OBVIOUS
<1>1. reader \in ReaderState /\ reader.causes = {}
  BY DEF IInv, TypeOK, OnItsWay, CheckFile
<1>2. CASE \E c \in {"corrupt", "unsafe"} : Refuse(c)
  BY <1>2, RefuseContinues
<1>3. CASE Go([reader EXCEPT !.at = "read"])
  <2> DEFINE r == [reader EXCEPT !.at = "read"]
  <2>1. r.task = reader.task /\ r.prior = reader.prior /\ r.verdict = reader.verdict /\ r.causes = {} /\ r.at = "read"
    BY <1>1 DEF ReaderState
  <2> HIDE DEF r
  <2> QED
    BY <1>3, <2>1, GoContinues DEF r
<1> QED
  BY <1>2, <1>3, FaultRefuseContinues DEF CheckFile, ChangedTo

(* The two halves of a read.                                               *)
LEMMA ReadContinues == IInv /\ (Read \/ ReadOn) => Continues
<1> SUFFICES ASSUME IInv, Read \/ ReadOn PROVE Continues
  OBVIOUS
<1>1. reader \in ReaderState /\ reader.causes = {}
  BY DEF IInv, TypeOK, OnItsWay, Read, ReadOn
<1>2. CASE FaultRefuse
  BY <1>2, FaultRefuseContinues
<1>3. ASSUME NEW h, reader' = [reader EXCEPT !.at = "read-on", !.half = h], faulted' = faulted, deeds' = deeds
      PROVE  Continues
  BY <1>1, <1>3 DEF ReaderState, Continues, KeepsPrior
<1>4. ASSUME NEW a \in {"decode", "recheck"}, NEW d, faulted' = faulted, deeds' = deeds,
             reader' = [reader EXCEPT !.at = a, !.data = d, !.half = "none"]
      PROVE  Continues
  BY <1>1, <1>4 DEF ReaderState, Continues, KeepsPrior
<1>5. CASE Read
  BY <1>2, <1>3, <1>5 DEF Read, Go, Becomes
<1>6. CASE ReadOn
  <2> DEFINE a == IF Loading THEN "decode" ELSE "recheck"
  <2>1. a \in {"decode", "recheck"}
    OBVIOUS
  <2>2. FaultRefuse \/ \E d : /\ reader' = [reader EXCEPT !.at = a, !.data = d, !.half = "none"]
                              /\ faulted' = faulted /\ deeds' = deeds
    BY <1>6 DEF ReadOn, Becomes
  <2> HIDE DEF a
  <2> QED
    BY <1>2, <1>4, <2>1, <2>2
<1> QED
  BY <1>5, <1>6

(* What the load makes of the bytes.                                       *)
LEMMA DecodeContinues == IInv /\ Decode => Continues
<1> SUFFICES ASSUME IInv, Decode PROVE Continues
  OBVIOUS
<1>1. reader \in ReaderState /\ reader.causes = {}
  BY DEF IInv, TypeOK, OnItsWay, Decode
<1>2. CASE \E c \in {"large", "corrupt", "unsafe"} : Refuse(c)
  BY <1>2, RefuseContinues
<1>3. CASE Go([reader EXCEPT !.at = "recheck"])
  <2> DEFINE r == [reader EXCEPT !.at = "recheck"]
  <2>1. r.task = reader.task /\ r.prior = reader.prior /\ r.verdict = reader.verdict /\ r.causes = {} /\ r.at = "recheck"
    BY <1>1 DEF ReaderState
  <2> HIDE DEF r
  <2> QED
    BY <1>3, <2>1, GoContinues DEF r
<1> QED
  BY <1>2, <1>3, FaultRefuseContinues DEF Decode

(* The comparison after the read.                                          *)
LEMMA RecheckContinues == IInv /\ Recheck => Continues
<1> SUFFICES ASSUME IInv, Recheck PROVE Continues
  OBVIOUS
<1>1. reader \in ReaderState /\ reader.causes = {} /\ (Loading \/ reader.task \in {"get", "list"})
  BY Stages DEF IInv, TypeOK, OnItsWay, Recheck
<1>2. CASE \E c \in {"corrupt", "unsafe"} : Refuse(c)
  BY <1>2, RefuseContinues
<1>3. CASE Accepted
  <2>1. PICK r : /\ Go(r)
                 /\ \/ r = [reader EXCEPT !.at = "verify", !.level = 1]
                    \/ r = [reader EXCEPT !.at = "leave"]
                    \/ \E f : r = [reader EXCEPT !.at = "scan", !.seen = "none", !.saw = 0, !.file = "none",
                                                 !.data = "none", !.flaw = f]
    BY <1>1, <1>3 DEF Accepted, Loading
  <2>2. /\ r.task = reader.task /\ r.prior = reader.prior /\ r.verdict = reader.verdict
        /\ r.causes = {} /\ r.at \notin {"why", "why-file"}
    BY <1>1, <2>1 DEF ReaderState
  <2> QED
    BY <2>1, <2>2, GoContinues
<1> QED
  BY <1>2, <1>3, FaultRefuseContinues DEF Recheck, ChangedTo

(* The names of a listing, and the choice of the next one.                 *)
LEMMA ListContinues == IInv /\ (Names \/ Scan) => Continues
<1> SUFFICES ASSUME IInv, Names \/ Scan PROVE Continues
  OBVIOUS
<1>1. reader \in ReaderState /\ reader.causes = {}
  BY DEF IInv, TypeOK, OnItsWay, Names, Scan
<1>2. CASE FaultRefuse
  BY <1>2, FaultRefuseContinues
<1>3. CASE \E r : /\ Go(r)
                  /\ \/ \E s : r = [reader EXCEPT !.at = "scan", !.todo = s]
                     \/ r = [reader EXCEPT !.at = "leave", !.name = "none"]
                     \/ \E n, s : r = [reader EXCEPT !.at = "find", !.name = n, !.todo = s]
  <2>1. PICK r : /\ Go(r)
                 /\ \/ \E s : r = [reader EXCEPT !.at = "scan", !.todo = s]
                    \/ r = [reader EXCEPT !.at = "leave", !.name = "none"]
                    \/ \E n, s : r = [reader EXCEPT !.at = "find", !.name = n, !.todo = s]
    BY <1>3
  <2>2. /\ r.task = reader.task /\ r.prior = reader.prior /\ r.verdict = reader.verdict
        /\ r.causes = {} /\ r.at \notin {"why", "why-file"}
    BY <1>1, <2>1 DEF ReaderState
  <2> QED
    BY <2>1, <2>2, GoContinues
<1> QED
  BY <1>2, <1>3 DEF Names, Scan

(* An open that finds something else than was looked at: one change.       *)
LEMMA EnterTraces == IInv /\ Traced /\ Enter => Traced'
<1> SUFFICES ASSUME IInv, Traced, Enter PROVE Traced'
  OBVIOUS
<1> DEFINE v == Current(Component)
<1>1. reader.at = "enter" /\ reader.at \in Walking /\ reader \in ReaderState /\ reader.causes = {}
  BY Stages DEF Enter, IInv, TypeOK, OnItsWay
<1>2. reader.task # "done" /\ reader.at \notin {"leave", "why", "why-file"} /\ reader.seen \notin Odd
  BY <1>1, WalkIs DEF IInv, OnItsWay
<1>3. CASE Go([reader EXCEPT !.at = "confirm", !.child = v])
  <2> DEFINE r == [reader EXCEPT !.at = "confirm", !.child = v]
  <2>1. r.task = reader.task /\ r.prior = reader.prior /\ r.verdict = reader.verdict /\ r.causes = {} /\ r.at = "confirm"
    BY <1>1 DEF ReaderState
  <2> HIDE DEF r
  <2> QED
    BY <1>2, <1>3, <2>1, GoContinues, ContinuesTraces DEF r
<1>4. CASE v \in Odd /\ Go([reader EXCEPT !.at = "why", !.child = v])
  <2>1. /\ reader' = [reader EXCEPT !.at = "why", !.child = v] /\ faulted' = faulted /\ deeds' = deeds /\ entry' = entry
    BY <1>4 DEF Go, Becomes
  <2>2. /\ KeepsPrior /\ reader'.causes = {} /\ reader'.at = "why" /\ reader'.seen = reader.seen
        /\ reader'.level = reader.level /\ reader'.chain = reader.chain
    BY <1>1, <2>1 DEF ReaderState, KeepsPrior
  <2>3. Current(Component)' = v
    BY <2>1, <2>2 DEF Current, Component, Walk, Handle, Loading, KeepsPrior
  <2> QED
    BY <1>1, <1>2, <1>4, <2>1, <2>2, <2>3 DEF Traced, KeepsPrior
<1>5. CASE FaultTo([reader EXCEPT !.at = "why", !.child = "odd"])
  <2> DEFINE r == [reader EXCEPT !.at = "why", !.child = "odd"]
  <2>1. r.task = reader.task /\ r.prior = reader.prior /\ r.verdict = reader.verdict /\ r.at = "why"
    BY <1>1 DEF ReaderState
  <2> HIDE DEF r
  <2> QED
    BY <1>2, <1>5, <2>1, FaultContinues, ContinuesTraces DEF r
<1> QED
  BY <1>3, <1>4, <1>5 DEF Enter

(* The same for a file.                                                    *)
LEMMA OpenFileTraces == IInv /\ Traced /\ OpenFile => Traced'
<1> SUFFICES ASSUME IInv, Traced, OpenFile PROVE Traced'
  OBVIOUS
<1> DEFINE v == Current(reader.name)
<1>1. reader.at = "open-file" /\ reader.at \in Filing /\ reader \in ReaderState /\ reader.causes = {}
  BY Stages DEF OpenFile, IInv, TypeOK, OnItsWay
<1>2. reader.task # "done" /\ reader.at \notin {"leave", "why", "why-file"} /\ reader.seen \notin Odd
  BY <1>1, FileIs DEF IInv, OnItsWay
<1>3. CASE Go([reader EXCEPT !.at = "check-file", !.file = v])
  <2> DEFINE r == [reader EXCEPT !.at = "check-file", !.file = v]
  <2>1. r.task = reader.task /\ r.prior = reader.prior /\ r.verdict = reader.verdict /\ r.causes = {} /\ r.at = "check-file"
    BY <1>1 DEF ReaderState
  <2> HIDE DEF r
  <2> QED
    BY <1>2, <1>3, <2>1, GoContinues, ContinuesTraces DEF r
<1>4. CASE v \in Odd /\ Go([reader EXCEPT !.at = "why-file", !.file = v])
  <2>1. /\ reader' = [reader EXCEPT !.at = "why-file", !.file = v] /\ faulted' = faulted /\ deeds' = deeds /\ entry' = entry
    BY <1>4 DEF Go, Becomes
  <2>2. /\ KeepsPrior /\ reader'.causes = {} /\ reader'.at = "why-file" /\ reader'.seen = reader.seen
        /\ reader'.name = reader.name /\ reader'.chain = reader.chain
    BY <1>1, <2>1 DEF ReaderState, KeepsPrior
  <2>3. Current(reader.name)' = v
    BY <2>1, <2>2 DEF Current, Handle
  <2> QED
    BY <1>1, <1>2, <1>4, <2>1, <2>2, <2>3 DEF Traced, KeepsPrior
<1>5. CASE FaultTo([reader EXCEPT !.at = "why-file", !.file = "odd"])
  <2> DEFINE r == [reader EXCEPT !.at = "why-file", !.file = "odd"]
  <2>1. r.task = reader.task /\ r.prior = reader.prior /\ r.verdict = reader.verdict /\ r.at = "why-file"
    BY <1>1 DEF ReaderState
  <2> HIDE DEF r
  <2> QED
    BY <1>2, <1>5, <2>1, FaultContinues, ContinuesTraces DEF r
<1> QED
  BY <1>3, <1>4, <1>5 DEF OpenFile

(* The second look blames the machine, if nobody was at work, and it does  *)
(* not for one change.                                                     *)
LEMMA JudgesTraces ==
  ASSUME IInv, Traced, reader.at \in {"why", "why-file"}, reader.task # "done", NEW c, Refuse(c),
         c = "io" => faulted \/ ~(deeds < 2),
         deeds = 0 => c = "io"
  PROVE  Traced'
<1>1. /\ reader' = [reader EXCEPT !.at = "leave", !.causes = {c}] /\ faulted' = faulted /\ deeds' = deeds
      /\ reader \in ReaderState
  BY DEF Refuse, Go, Becomes, IInv, TypeOK
<1>2. KeepsPrior /\ reader'.causes = {c} /\ reader'.at = "leave"
  BY <1>1 DEF ReaderState, KeepsPrior
<1> QED
  BY <1>1, <1>2 DEF Traced, KeepsPrior

(* A call that fails there is blamed at once.                              *)
LEMMA FaultTraces ==
  ASSUME IInv, Traced, reader.task # "done", FaultRefuse
  PROVE  Traced'
<1>1. /\ reader' = [reader EXCEPT !.at = "leave", !.causes = {"io"}] /\ faulted' /\ deeds' = deeds /\ reader \in ReaderState
  BY DEF FaultRefuse, FaultTo, Becomes, IInv, TypeOK
<1>2. KeepsPrior /\ reader'.causes = {"io"} /\ reader'.at = "leave"
  BY <1>1 DEF ReaderState, KeepsPrior
<1> QED
  BY <1>1, <1>2 DEF Traced, KeepsPrior

(* The second look at a directory.                                         *)
LEMMA WhyTraces == IInv /\ Traced /\ Why => Traced'
<1> SUFFICES ASSUME IInv, Traced, Why PROVE Traced'
  OBVIOUS
<1> DEFINE v == Current(Component)
<1>1. reader.at = "why" /\ reader.at \in Walking \ {"look"}
  BY Stages DEF Why
<1>2. reader.task # "done" /\ deeds \in Nat
  BY <1>1, WalkIs DEF IInv, TypeOK
<1>3. deeds = 0 => v = reader.seen /\ reader.child = "odd"
  BY <1>1 DEF IInv, Undisturbed
<1>4. v = reader.seen => faulted \/ ~(deeds < 2)
  BY <1>1 DEF Traced
<1>5. CASE v # reader.seen /\ Refuse("unsafe")
  BY <1>1, <1>2, <1>3, <1>5, JudgesTraces
<1>6. CASE v = reader.seen /\ Refuse(IF Loading /\ reader.child = "absent" THEN "unsafe" ELSE "io")
  <2> DEFINE c == IF Loading /\ reader.child = "absent" THEN "unsafe" ELSE "io"
  <2>1. (deeds = 0 => c = "io") /\ Refuse(c) /\ (faulted \/ ~(deeds < 2))
    BY <1>3, <1>4, <1>6
  <2> HIDE DEF c
  <2> QED
    BY <1>1, <1>2, <2>1, JudgesTraces
<1> QED
  BY <1>2, <1>5, <1>6, FaultTraces DEF Why

(* The second look at a file.                                              *)
LEMMA WhyFileTraces == IInv /\ Traced /\ WhyFile => Traced'
<1> SUFFICES ASSUME IInv, Traced, WhyFile PROVE Traced'
  OBVIOUS
<1> DEFINE v == Current(reader.name)
<1>1. reader.at = "why-file" /\ reader.at \in Filing /\ reader.task # "done"
  BY Stages, FileIs DEF WhyFile
<1>2. deeds = 0 => Same(v) /\ reader.file = "odd"
  BY <1>1 DEF IInv, Undisturbed, Same
<1>3. Same(v) => faulted \/ ~(deeds < 2)
  BY <1>1 DEF Traced, Same
<1>4. CASE ~Same(v) /\ Refuse(ChangedTo(v))
  BY <1>1, <1>2, <1>4, ChangedIs, JudgesTraces
<1>5. CASE Same(v) /\ Refuse(IF Loading /\ reader.file = "absent" THEN "unsafe" ELSE "io")
  <2> DEFINE c == IF Loading /\ reader.file = "absent" THEN "unsafe" ELSE "io"
  <2>1. (deeds = 0 => c = "io") /\ Refuse(c) /\ (faulted \/ ~(deeds < 2))
    BY <1>2, <1>3, <1>5
  <2> HIDE DEF c
  <2> QED
    BY <1>1, <2>1, JudgesTraces
<1> QED
  BY <1>1, <1>4, <1>5, FaultTraces DEF WhyFile

(* What the end of a task makes of its errors D, those of the part before  *)
(* included: a machine that is to blame is blamed now, or the errors are   *)
(* what the next part begins with.                                         *)
LEMMA ReturnedIs ==
  ASSUME IInv, reader.at = "leave", reader.task # "done", NEW C, C \subseteq Causes, reader' = Returned(C)
  PROVE  LET D == C \cup reader.prior IN
         \/ /\ reader'.task = "done" /\ reader'.at = "leave" /\ reader'.causes = {} /\ reader'.prior = {}
            /\ reader'.verdict = "operational" <=> "io" \in D
         \/ /\ reader'.task # "done" /\ reader'.at = "look" /\ reader'.causes = {} /\ reader'.verdict = "none"
            /\ "io" \in D <=> "io" \in reader'.prior
<1> DEFINE D == C \cup reader.prior
           Ended == /\ reader'.task = "done" /\ reader'.at = "leave" /\ reader'.causes = {} /\ reader'.prior = {}
                    /\ reader'.verdict = "operational" <=> "io" \in D
           Goes  == /\ reader'.task # "done" /\ reader'.at = "look" /\ reader'.causes = {} /\ reader'.verdict = "none"
                    /\ "io" \in D <=> "io" \in reader'.prior
<1>1. reader \in ReaderState /\ (reader.task \notin {"get-end", "list-end"} => reader.prior = {})
  BY DEF IInv, TypeOK, OnItsWay
<1>2. ASSUME NEW v, reader' = Decide(v), v = "operational" <=> "io" \in D
      PROVE  Ended
  BY <1>2 DEF Decide, Idle
<1>3. ASSUME NEW t \in {"open", "get", "get-end", "list", "list-end"}, NEW r, reader' = Proceed(t, r),
             "io" \in D <=> "io" \in r.prior
      PROVE  Goes
  BY <1>3 DEF Proceed, Idle
<1>4. CASE reader.task = "load"
  <2>1. reader' = Load(C) /\ D = C
    BY <1>1, <1>4 DEF Returned
  <2>2. CASE C = {} /\ reader' = Proceed("open", [reader EXCEPT !.manifest = reader.data])
    <3> DEFINE r == [reader EXCEPT !.manifest = reader.data]
    <3>1. r.prior = {}
      BY <1>1, <1>4 DEF ReaderState
    <3> HIDE DEF r
    <3> QED
      BY <1>3, <2>1, <2>2, <3>1 DEF r
  <2>3. CASE "io" \in C /\ reader' = Decide("operational")
    BY <1>2, <2>1, <2>3
  <2>4. CASE "io" \notin C /\ \E v \in {"missing", "invalid"} : reader' = Decide(v)
    BY <1>2, <2>1, <2>4
  <2> QED
    BY <2>1, <2>2, <2>3, <2>4 DEF Load
<1>5. CASE reader.task = "open"
  <2>1. reader' = Open(C) /\ D = C /\ reader.prior = {}
    BY <1>1, <1>5 DEF Returned
  <2>2. CASE C = {} /\ reader' = Proceed("get", reader)
    BY <1>3, <2>1, <2>2
  <2>3. CASE "io" \in C /\ reader' = Decide("operational")
    BY <1>2, <2>1, <2>3
  <2>4. CASE "io" \notin C /\ reader' = Decide("invalid")
    BY <1>2, <2>1, <2>4
  <2> QED
    BY <2>1, <2>2, <2>3, <2>4 DEF Open
<1>6. ASSUME reader' = Audit(D)
      PROVE  Ended \/ Goes
  <2>1. CASE "io" \in D /\ reader' = Decide("operational")
    BY <1>2, <2>1
  <2>2. CASE "io" \notin D /\ \E f : reader' = Proceed("list", [reader EXCEPT !.flaw = f, !.prior = {}])
    <3>1. PICK f : reader' = Proceed("list", [reader EXCEPT !.flaw = f, !.prior = {}])
      BY <2>2
    <3> DEFINE r == [reader EXCEPT !.flaw = f, !.prior = {}]
    <3>2. r.prior = {}
      BY <1>1 DEF ReaderState
    <3> HIDE DEF r
    <3> QED
      BY <1>3, <2>2, <3>1, <3>2 DEF r
  <2> QED
    BY <1>6, <2>1, <2>2 DEF Audit
<1>7. ASSUME reader' = Judge(D)
      PROVE  Ended
  <2>1. CASE "io" \in D /\ reader' = Decide("operational")
    BY <1>2, <2>1
  <2>2. CASE "io" \notin D /\ \E v \in {"invalid", "audited"} : reader' = Decide(v)
    BY <1>2, <2>2
  <2> QED
    BY <1>7, <2>1, <2>2 DEF Judge
<1>8. ASSUME NEW t \in {"get-end", "list-end"}, reader' = Proceed(t, [reader EXCEPT !.prior = C]), D = C
      PROVE  Goes
  <2> DEFINE r == [reader EXCEPT !.prior = C]
  <2>1. r.prior = C
    BY <1>1 DEF ReaderState
  <2> HIDE DEF r
  <2> QED
    BY <1>3, <1>8, <2>1 DEF r
<1>9. CASE reader.task \in {"get", "list"}
  <2>1. D = C
    BY <1>1, <1>9
  <2> QED
    BY <1>6, <1>7, <1>8, <1>9, <2>1 DEF Returned
<1>10. CASE reader.task \in {"get-end", "list-end"}
  <2>1. D = reader.prior \cup C
    OBVIOUS
  <2> QED
    BY <1>6, <1>7, <1>10, <2>1 DEF Returned
<1> QED
  BY <1>1, <1>4, <1>5, <1>9, <1>10 DEF ReaderState

(* A failure to close, or one before it, reaches the verdict.              *)
LEMMA LeaveTraces == IInv /\ Traced /\ Leave => Traced'
<1> SUFFICES ASSUME IInv, Traced, Leave PROVE Traced'
  OBVIOUS
<1>1. reader.at = "leave" /\ reader.task # "done" /\ reader.causes \subseteq Causes /\ "io" \in Causes
  BY DEF Leave, IInv, TypeOK, ReaderState, Causes
<1>2. PICK C : /\ reader' = Returned(C) /\ deeds' = deeds
               /\ (C = reader.causes /\ faulted' = faulted) \/ (C = reader.causes \cup {"io"} /\ faulted')
  BY DEF Leave, Go, FaultTo, Becomes
<1> DEFINE D == C \cup reader.prior
<1>3. /\ ~faulted' /\ deeds' < 2 => "io" \notin D
      /\ faulted' /\ deeds' = 0 => "io" \in D
  BY <1>1, <1>2 DEF Traced
<1>4. \/ /\ reader'.task = "done" /\ reader'.at = "leave" /\ reader'.causes = {} /\ reader'.prior = {}
         /\ reader'.verdict = "operational" <=> "io" \in D
      \/ /\ reader'.task # "done" /\ reader'.at = "look" /\ reader'.causes = {} /\ reader'.verdict = "none"
         /\ "io" \in D <=> "io" \in reader'.prior
  BY <1>1, <1>2, ReturnedIs
<1> HIDE DEF D
<1> QED
  BY <1>3, <1>4 DEF Traced

(* The first change of another program finds nothing yet to blame.         *)
LEMMA DeedTraces == IInv /\ Traced /\ Deed => Traced'
<1> SUFFICES ASSUME IInv, Traced, Deed PROVE Traced'
  OBVIOUS
<1>1. reader' = reader /\ deeds' = deeds + 1 /\ faulted' = faulted /\ deeds \in Nat
  BY DEF Deed, IInv, TypeOK
<1>2. deeds' < 2 => deeds = 0
  BY <1>1
<1>3. ~faulted /\ deeds = 0 => reader.at \notin {"why", "why-file"} /\ "io" \notin reader.causes \cup reader.prior
  BY DEF IInv, Blameless
<1> QED
  BY <1>1, <1>2, <1>3 DEF Traced

(* A failure is never lost on its way to the verdict.                      *)
LEMMA Tracing == Spec => []Traced
<1>1. Init => Traced
  BY DEF Init, Idle, Traced
<1>2. IInv /\ Traced /\ [Next]_vars => Traced'
  <2> SUFFICES ASSUME IInv, Traced, [Next]_vars PROVE Traced'
    OBVIOUS
  <2>1. CASE Look \/ Confirm \/ Verify \/ Find \/ CheckFile \/ Read \/ ReadOn \/ Decode \/ Recheck \/ Names \/ Scan
    <3>1. Continues
      BY <2>1, LookContinues, ConfirmContinues, VerifyContinues, FindContinues, CheckFileContinues, ReadContinues,
         DecodeContinues, RecheckContinues, ListContinues
    <3>2. reader.at \in {"look", "confirm", "verify", "find", "check-file", "read", "read-on", "decode", "recheck",
                         "names", "scan"}
      BY <2>1 DEF Look, Confirm, Verify, Find, CheckFile, Read, ReadOn, Decode, Recheck, Names, Scan
    <3>3. reader.task # "done"
      <4>1. CASE reader.at \in {"look", "confirm"}
        BY <4>1, WalkIs DEF Walking
      <4>2. CASE reader.at \in {"find", "check-file", "read", "read-on", "decode", "recheck"}
        BY <4>2, FileIs DEF Filing, Opening, Reading
      <4>3. CASE reader.at \in {"verify", "names", "scan"}
        BY <4>3, VerifyIs, ListIs DEF Loading
      <4> QED
        BY <3>2, <4>1, <4>2, <4>3
    <3> QED
      BY <3>1, <3>2, <3>3, ContinuesTraces
  <2>2. CASE Enter \/ Why \/ OpenFile \/ WhyFile \/ Leave
    BY <2>2, EnterTraces, WhyTraces, OpenFileTraces, WhyFileTraces, LeaveTraces
  <2>3. CASE \/ \E p \in Place : \E v \in Fits(p) \cup Odd : Replace(p, v)
             \/ \E f \in File, c \in Content : Rewrite(f, c)
    BY <2>3, DeedTraces DEF Replace, Rewrite
  <2>4. CASE UNCHANGED vars
    BY <2>4 DEF vars, Traced, Current, Component, Walk, Handle, Loading
  <2> QED
    BY <2>1, <2>2, <2>3, <2>4 DEF Next, Step
<1> QED
  BY <1>1, <1>2, Invariance, PTL DEF Spec

(* Every variable has its type, and every name is of what fits it.         *)
THEOREM TypeCorrect == Spec => []TypeOK
<1>1. IInv => TypeOK
  BY DEF IInv
<1> QED
  BY Invariance, <1>1, PTL

(* run, report and diff blame the machine only for a failed call or for two*)
(* changes of the tree, and without any change for every failed call, at   *)
(* the close too; the release only if it is damaged or was changed; they   *)
(* find it missing only if something on its path was; and left alone, a    *)
(* damaged release never passes.                                           *)
THEOREM BlameIsEarned == Spec => []VerdictIsEarned
<1>1. IInv /\ Traced => VerdictIsEarned
  <2> SUFFICES ASSUME IInv, Traced PROVE VerdictIsEarned
    OBVIOUS
  <2>1. faulted \in BOOLEAN /\ deeds \in Nat /\ ReleaseIsBlamed
    BY DEF IInv, TypeOK
  <2>2. MachineIsBlamed
    BY <2>1 DEF Traced, MachineIsBlamed
  <2> QED
    BY <2>1, <2>2 DEF VerdictIsEarned
<1> QED
  BY Invariance, Tracing, <1>1, PTL

(* When the manifest, the selected record or the listing was read, its path*)
(* led to it link by link at moments after the last byte, and an accepted  *)
(* manifest is one version of its file.                                    *)
THEOREM WhatWasReadStood == Spec => []AnswerIsCurrent
<1>1. IInv => AnswerIsCurrent
  BY DEF IInv
<1> QED
  BY Invariance, <1>1, PTL

=============================================================================
