---------------------------- MODULE ReleaseReader ----------------------------
(***************************************************************************)
(* How an invocation decides what an existing release is worth: the chain  *)
(* of calls of internal/cli (inspectSnapshot and auditExistingSnapshot of  *)
(* run, runReport, loadDiffSnapshot) through internal/release (the load of *)
(* the manifest) and internal/evidence (OpenStoreReadOnly, Get, List), call*)
(* by call on a directory tree other programs rename and rewrite meanwhile.*)
(*                                                                         *)
(* The tree has the evidence root, its directories runs/ and releases/<sha *)
(* of the input> (one component here), the manifest, the record it selects *)
(* and one other record. An lstat and the enumeration of the directory for *)
(* the exact name next to it are one step: either can only refuse what the *)
(* other one finds gone. What the manifest and the records say is their    *)
(* run set: "one" or "two"; AuditSnapshot's comparisons are in ReleaseAudit.*)
(* The marker .gitkeep, which a listing checks to be empty, is left out.   *)
(***************************************************************************)
EXTENDS Integers, Sequences, FiniteSets

CONSTANTS Threat,  \* what may go wrong meanwhile, a subset of Threats
          MaxDeeds \* bound of the model: the changes other programs make, the one
                   \* that damaged the release before the call among them

Threats == {"io",      \* any call may fail, or the context be cancelled
            "replace", \* a name may be given another file or directory, or none
            "link",    \* or a symbolic link, or an entry of the wrong kind
            "rewrite"} \* a file may be rewritten in place

ASSUME ReleaseReaderAssumption == Threat \subseteq Threats /\ MaxDeeds \in Nat

VARIABLES entry,   \* what stands at each place
          content, \* what each file holds
          stamp,   \* the modification time of each file
          deeds,   \* how many changes other programs made
          reader,  \* the control state of the invocation
          past,    \* what stood at a place earlier since the last file was read
          faulted, \* some call failed
          flawed,  \* the release was no intact one when the call began
          vanished \* a component of the manifest's path was missing during the call

tree == <<entry, content, stamp>>
vars == <<entry, content, stamp, deeds, reader, past, faulted, flawed, vanished>>

At(d, n) == [in |-> d, name |-> n]

Home == {"root1", "root2"}
Runs == {"runs1", "runs2"}
Digest == {"release1", "release2"}
Manifests == {"manifest1", "manifest2"}
Records == {"selected1", "selected2", "other1"}
Dir == Home \cup Runs \cup Digest
File == Manifests \cup Records
Object == Dir \cup File

(* No entry; a symbolic link; an entry of the wrong kind.                  *)
Odd == {"absent", "link", "odd"}

Place == {At("top", "root")} \cup {At(d, n) : d \in Home, n \in {"runs", "release"}}
         \cup {At(d, "selected") : d \in Runs} \cup {At("runs1", "other")}
         \cup {At(d, "manifest") : d \in Digest}

(* What can be given the name of a place besides what is in Odd.           *)
Fits(p) ==
  CASE p.name = "root" -> Home
    [] p.name = "runs" -> Runs
    [] p.name = "release" -> Digest
    [] p.name = "manifest" -> Manifests
    [] p.name = "selected" -> Records \ {"other1"}
    [] p.name = "other" -> {"other1"}

Text == {"one", "two"}
Content == Text \cup {"junk", "huge"}

(* Two evidence roots, each with an intact release of its own run set.     *)
Standing == [p \in Place |->
  CASE p = At("top", "root") -> "root1"
    [] p = At("root1", "runs") -> "runs1"
    [] p = At("root2", "runs") -> "runs2"
    [] p = At("root1", "release") -> "release1"
    [] p = At("root2", "release") -> "release2"
    [] p = At("release1", "manifest") -> "manifest1"
    [] p = At("release2", "manifest") -> "manifest2"
    [] p = At("runs1", "selected") -> "selected1"
    [] p = At("runs2", "selected") -> "selected2"
    [] p = At("runs1", "other") -> "other1"
    [] OTHER -> "absent"]
Written == [f \in File |-> IF f \in {"manifest1", "selected1"} THEN "one" ELSE "two"]

(* The release the invocation is asked about is intact.                    *)
Intact(e, c) ==
  /\ e[At("top", "root")] = "root1"
  /\ e[At("root1", "runs")] = "runs1" /\ e[At("root1", "release")] = "release1"
  /\ e[At("release1", "manifest")] = "manifest1"
  /\ e[At("runs1", "selected")] = "selected1"
  /\ e[At("runs1", "other")] \in {"absent", "other1"}
  /\ c["manifest1"] = c["selected1"] /\ c["manifest1"] \in Text
  /\ e[At("runs1", "other")] = "other1" => c["other1"] \in Text \ {c["manifest1"]}

(* Something on a path of a manifest is missing: the load of a manifest    *)
(* does not check, when it finds nothing, that it still is on the path.    *)
Missing(e) == \/ e[At("top", "root")] = "absent"
              \/ \E d \in Home : e[At(d, "release")] = "absent"
              \/ \E d \in Digest : e[At(d, "manifest")] = "absent"

(* task: load, open, get, list (and the end of the two, when their errors  *)
(* are judged). at: the system call that is next. A verdict is one of      *)
(* operational (the machine is to blame), invalid, missing and audited.    *)
Idle == [task |-> "load", at |-> "look", level |-> 0, chain |-> <<"top">>, seen |-> "none",
         child |-> "none", saw |-> 0, file |-> "none", half |-> "none", data |-> "none",
         inside |-> FALSE, causes |-> {}, prior |-> {}, runs |-> "none", manifest |-> "none",
         flaw |-> FALSE, name |-> "none", todo |-> {}, verdict |-> "none"]

Init ==
  /\ \/ content = Written /\ entry = Standing
     \/ content = Written /\ \E p \in Place, v \in Odd : entry = [Standing EXCEPT ![p] = v]
     \/ entry = Standing /\ \E f \in File, c \in Content : content = [Written EXCEPT ![f] = c]
  /\ stamp = [f \in File |-> 0] /\ deeds = 0
  /\ reader = Idle /\ past = {} /\ faulted = FALSE
  /\ flawed = ~Intact(entry, content) /\ vanished = Missing(entry)

----------------------------------------------------------------------------
(* The calls of the invocation.                                            *)

Handle == reader.chain[Len(reader.chain)]
Loading == reader.task = "load"
Walk == IF Loading THEN <<"root", "release">> ELSE <<"root", "runs">>
Component == Walk[reader.level + 1]
Current(n) == entry[At(Handle, n)]

Becomes(r) == reader' = r /\ UNCHANGED <<entry, content, stamp, deeds, flawed, vanished>>

(* A step that succeeds, and one that ends the task with an error.         *)
Recalling(r) == r.data # "none" \/ r.task = "list-end"
Recall(r) == past' = IF Recalling(r) THEN past ELSE {}
Go(r) == Becomes(r) /\ Recall(r) /\ UNCHANGED faulted
Refuse(c) == Go([reader EXCEPT !.at = "leave", !.causes = {c}])

(* The call fails.                                                         *)
FaultTo(r) == "io" \in Threat /\ Becomes(r) /\ Recall(r) /\ faulted' = TRUE
FaultRefuse == FaultTo([reader EXCEPT !.at = "leave", !.causes = {"io"}])

(* lstat of the next component, and its exact name in the parent.          *)
Look ==
  LET v == Current(Component) IN
  /\ reader.at = "look"
  /\ \/ v = "absent" /\ Refuse(IF reader.task \in {"load", "open"} THEN "missing" ELSE "unsafe")
     \/ v \in {"link", "odd"} /\ Refuse("unsafe")
     \/ v \in Dir /\ Go([reader EXCEPT !.at = "enter", !.seen = v])
     \/ FaultRefuse

(* OpenRoot of the component: a link may lead somewhere or nowhere.        *)
Enter ==
  LET v == Current(Component) IN
  /\ reader.at = "enter"
  /\ \/ v \in Dir \cup {"link"} /\ Go([reader EXCEPT !.at = "confirm", !.child = v])
     \/ v \in Odd /\ Go([reader EXCEPT !.at = "why", !.child = v])
     \/ FaultTo([reader EXCEPT !.at = "why", !.child = "odd"])

(* The open failed: what is at the name now tells a replacement from a     *)
(* failure. Only the load takes a passing absence for a replacement.       *)
Why ==
  LET v == Current(Component) IN
  /\ reader.at = "why"
  /\ \/ v # reader.seen /\ Refuse("unsafe")
     \/ /\ v = reader.seen
        /\ Refuse(IF Loading /\ reader.child = "absent" THEN "unsafe" ELSE "io")
     \/ FaultRefuse

(* Mutant: openRuns does not compare the directory with the first one.     *)
Entered_AnyRuns ==
  LET r == [reader EXCEPT !.level = @ + 1, !.seen = "none", !.child = "none",
                          !.chain = IF Loading THEN Append(@, reader.child) ELSE <<reader.child>>]
  IN IF r.level < 2 THEN Go([r EXCEPT !.at = "look"])
     ELSE CASE Loading -> Go([r EXCEPT !.at = "verify", !.level = 1])
            [] reader.task = "open" -> Go([r EXCEPT !.at = "leave", !.runs = reader.child])
            [] reader.task = "get" -> Go([r EXCEPT !.at = "find", !.name = "selected", !.inside = TRUE])
            [] reader.task = "list" -> Go([r EXCEPT !.at = "names", !.inside = TRUE])
            [] OTHER -> Go([r EXCEPT !.at = "leave"])

(* The directory that was opened is the one at the name, then and now. The *)
(* load keeps its parents open; the store closes each one.                 *)
Entered ==
  LET r == [reader EXCEPT !.level = @ + 1, !.seen = "none", !.child = "none",
                          !.chain = IF Loading THEN Append(@, reader.child) ELSE <<reader.child>>]
  IN IF r.level < 2
       THEN Go([r EXCEPT !.at = "look"])
     ELSE IF Loading
       THEN Go([r EXCEPT !.at = "verify", !.level = 1])
     ELSE IF reader.task = "open"
       THEN Go([r EXCEPT !.at = "leave", !.runs = reader.child])
     ELSE IF reader.child # reader.runs
       THEN Go([r EXCEPT !.at = "leave", !.causes = {"unsafe"}])
     ELSE CASE reader.task = "get" -> Go([r EXCEPT !.at = "find", !.name = "selected", !.inside = TRUE])
            [] reader.task = "list" -> Go([r EXCEPT !.at = "names", !.inside = TRUE])
            [] OTHER -> Go([r EXCEPT !.at = "leave"])

Confirm ==
  LET v == Current(Component) IN
  /\ reader.at = "confirm"
  /\ \/ v = reader.seen /\ reader.child = reader.seen /\ Entered
     \/ ~(v = reader.seen /\ reader.child = reader.seen) /\ Refuse("unsafe")
     \/ ~Loading /\ FaultTo([reader EXCEPT !.at = "why", !.child = "odd"])
     \/ FaultRefuse

(* Load: each open directory is still at its name in the one above it.     *)
Verify ==
  LET i == reader.level
      v == entry[At(reader.chain[i], Walk[i])]
  IN /\ reader.at = "verify"
     /\ \/ v # reader.chain[i + 1] /\ Refuse("unsafe")
        \/ /\ v = reader.chain[i + 1]
           /\ Go(IF i < 2 THEN [reader EXCEPT !.level = 2]
                 ELSE IF reader.data = "none" THEN [reader EXCEPT !.at = "find", !.name = "manifest"]
                 ELSE [reader EXCEPT !.at = "leave"])
        \/ FaultRefuse

(* lstat of the file. A link or another kind, and a size above the limit,  *)
(* are refused before it is opened.                                        *)
Find ==
  LET v == Current(reader.name) IN
  /\ reader.at = "find"
  /\ \/ v = "absent" /\ Refuse(IF reader.task = "list" THEN "corrupt" ELSE "missing")
     \/ v = "link" /\ Refuse("unsafe")
     \/ v = "odd" /\ Refuse(IF Loading THEN "unsafe" ELSE "corrupt")
     \/ v \in File /\ content[v] = "huge" /\ Refuse("large")
     \/ /\ v \in File /\ content[v] # "huge"
        /\ Go([reader EXCEPT !.at = "open-file", !.seen = v, !.saw = stamp[v]])
     \/ FaultRefuse

OpenFile ==
  LET v == Current(reader.name) IN
  /\ reader.at = "open-file"
  /\ \/ v \in File \cup {"link"} /\ Go([reader EXCEPT !.at = "check-file", !.file = v])
     \/ v \in Odd /\ Go([reader EXCEPT !.at = "why-file", !.file = v])
     \/ FaultTo([reader EXCEPT !.at = "why-file", !.file = "odd"])

(* sameRegularSnapshot with what the first lstat saw: the same file, mode, *)
(* size and modification time.                                             *)
Same(v) == v = reader.seen /\ stamp[v] = reader.saw

(* What is wrong with a path that does not lead to that file any more.     *)
ChangedTo(v) ==
  IF Loading \/ v = "link" THEN "unsafe" ELSE "corrupt"

WhyFile ==
  LET v == Current(reader.name) IN
  /\ reader.at = "why-file"
  /\ \/ ~Same(v) /\ Refuse(ChangedTo(v))
     \/ Same(v) /\ Refuse(IF Loading /\ reader.file = "absent" THEN "unsafe" ELSE "io")
     \/ FaultRefuse

(* fstat of the open file and lstat of its path.                           *)
CheckFile ==
  LET v == Current(reader.name) IN
  /\ reader.at = "check-file"
  /\ \/ ~Same(v) /\ Refuse(ChangedTo(v))
     \/ Same(v) /\ ~Same(reader.file) /\ Refuse(IF Loading THEN "unsafe" ELSE "corrupt")
     \/ Same(v) /\ Same(reader.file) /\ Go([reader EXCEPT !.at = "read"])
     \/ FaultRefuse

(* A file is read in more than one call: it may be rewritten in between.   *)
Read ==
  /\ reader.at = "read"
  /\ \/ Go([reader EXCEPT !.at = "read-on", !.half = content[reader.file]])
     \/ FaultRefuse

ReadOn ==
  LET text == IF content[reader.file] = reader.half THEN reader.half ELSE "torn" IN
  /\ reader.at = "read-on"
  /\ \/ /\ Becomes([reader EXCEPT !.at = IF Loading THEN "decode" ELSE "recheck", !.data = text,
                                   !.half = "none"])
        /\ past' = {} /\ UNCHANGED faulted
     \/ FaultRefuse

(* Load: more bytes than the limit; a length other than the one seen, or   *)
(* bytes that are no manifest of the asked digest (nothing in a manifest   *)
(* shows that it was torn); then the file and its directories are synced.  *)
Decode ==
  /\ reader.at = "decode"
  /\ \/ reader.data = "huge" /\ Refuse("large")
     \/ reader.data \in {"junk", "torn"} /\ Refuse("corrupt")
     \/ ~Same(reader.file) /\ Refuse("unsafe")
     \/ reader.data \in Text \cup {"torn"} /\ Go([reader EXCEPT !.at = "recheck"])
     \/ FaultRefuse

(* After the read the open file and the path are still what they were. The *)
(* load goes back over its directories; a record is decoded only now, and  *)
(* its content digest shows whether it was torn.                           *)
Accepted ==
  CASE Loading -> Go([reader EXCEPT !.at = "verify", !.level = 1])
    [] reader.task = "get" -> Go([reader EXCEPT !.at = "leave"])
    [] reader.task = "list" ->
         Go([reader EXCEPT !.at = "scan", !.seen = "none", !.saw = 0, !.file = "none", !.data = "none",
                           !.flaw = @ \/ (reader.name = "other" /\ reader.data = reader.manifest)])

(* lstat of the path and fstat of the file once more.                      *)
Recheck ==
  LET v == Current(reader.name) IN
  /\ reader.at = "recheck"
  /\ \/ ~Same(v) /\ Refuse(ChangedTo(v))
     \/ Same(v) /\ ~Loading /\ reader.data \notin Text /\ Refuse("corrupt")
     \/ Same(v) /\ (Loading \/ reader.data \in Text) /\ Accepted
     \/ FaultRefuse

(* List: the names of the directory, then each of its records.             *)
Names ==
  /\ reader.at = "names"
  /\ \/ Go([reader EXCEPT !.at = "scan", !.todo = {p.name : p \in {p \in Place : p.in = Handle /\ entry[p] # "absent"}}])
     \/ FaultRefuse

Scan ==
  /\ reader.at = "scan"
  /\ \/ reader.todo = {} /\ Go([reader EXCEPT !.at = "leave", !.name = "none"])
     \/ \E n \in reader.todo : Go([reader EXCEPT !.at = "find", !.name = n, !.todo = @ \ {n}])
     \/ FaultRefuse

(* What the invocation makes of the end of a task. An error that has an I/O*)
(* failure or a cancellation anywhere in its tree is operational whatever  *)
(* else is in it, so the causes are a set here.                            *)
Decide(v) == [Idle EXCEPT !.task = "done", !.at = "leave", !.verdict = v]
Proceed(t, r) == [Idle EXCEPT !.task = t, !.runs = r.runs, !.manifest = r.manifest, !.flaw = r.flaw,
                            !.prior = r.prior, !.data = IF t = "get-end" THEN r.data ELSE "none",
                            !.file = IF t = "get-end" THEN r.file ELSE "none"]

Load(causes) ==
  CASE causes = {} -> Proceed("open", [reader EXCEPT !.manifest = reader.data])
    [] "io" \in causes -> Decide("operational")
    [] causes = {"missing"} -> Decide("missing")
    [] OTHER -> Decide("invalid")

Open(causes) ==
  CASE causes = {} -> Proceed("get", reader)
    [] "io" \in causes -> Decide("operational")
    [] OTHER -> Decide("invalid")

(* AuditSnapshot: an operational error ends it, another one is a diagnostic*)
(* and the listing follows; so is a record that is not the selected one.   *)
Audit(causes) ==
  IF "io" \in causes THEN Decide("operational")
  ELSE Proceed("list", [reader EXCEPT !.flaw = causes # {} \/ reader.data # reader.manifest, !.prior = {}])

Judge(causes) ==
  CASE "io" \in causes -> Decide("operational")
    [] "io" \notin causes /\ (causes # {} \/ reader.flaw) -> Decide("invalid")
    [] OTHER -> Decide("audited")

(* finishRunsOperation: after a record or the listing was read, whatever   *)
(* came of it, the runs directory must still be the one that was opened.   *)
Returned(causes) ==
  CASE reader.task = "load" -> Load(causes)
    [] reader.task = "open" -> Open(causes)
    [] reader.task = "get" -> IF reader.inside THEN Proceed("get-end", [reader EXCEPT !.prior = causes])
                              ELSE Audit(causes)
    [] reader.task = "get-end" -> Audit(reader.prior \cup causes)
    [] reader.task = "list" -> IF reader.inside THEN Proceed("list-end", [reader EXCEPT !.prior = causes])
                               ELSE Judge(causes)
    [] reader.task = "list-end" -> Judge(reader.prior \cup causes)

(* Mutant: a failure to close is dropped.                                  *)
Leave_LosesClose ==
  /\ reader.at = "leave" /\ reader.task # "done"
  /\ \/ Go(Returned(reader.causes))
     \/ FaultTo(Returned(reader.causes))

(* Everything that is open is closed, and a failure to close counts.       *)
Leave ==
  /\ reader.at = "leave" /\ reader.task # "done"
  /\ \/ Go(Returned(reader.causes))
     \/ FaultTo(Returned(reader.causes \cup {"io"}))

Step == \/ Look \/ Enter \/ Why \/ Confirm \/ Verify \/ Find \/ OpenFile \/ WhyFile \/ CheckFile
        \/ Read \/ ReadOn \/ Decode \/ Recheck \/ Names \/ Scan \/ Leave

----------------------------------------------------------------------------
(* Other programs.                                                         *)

Deed == deeds < (IF flawed THEN MaxDeeds - 1 ELSE MaxDeeds) /\ reader.task # "done" /\ deeds' = deeds + 1
        /\ UNCHANGED <<reader, faulted, flawed>>

(* Bound of the model: only what the invocation may still look at changes, *)
(* in the directories of the path and in those it holds open. It does not  *)
(* return to the manifest.                                                 *)
Ahead(n) == reader.task = "load" \/ n \notin {"release", "manifest"}
Within(d) ==
  LET tops == {"top", entry[At("top", "root")]} \cup {reader.chain[i] : i \in DOMAIN reader.chain}
  IN d \in tops \cup {entry[p] : p \in {p \in Place : p.in \in tops}}

(* rename(2), or unlink: what moves here is gone from where it was.        *)
Replace(p, v) ==
  /\ "replace" \in Threat /\ Deed
  /\ Ahead(p.name) /\ Within(p.in) /\ v # entry[p] /\ (v \in {"link", "odd"} => "link" \in Threat)
  /\ entry' = [q \in Place |-> IF q = p THEN v ELSE IF v \in Object /\ entry[q] = v THEN "absent" ELSE entry[q]]
  /\ past' = IF ~Recalling(reader) THEN {}
             ELSE past \cup {[place |-> q, held |-> entry[q]] : q \in {q \in Place : entry'[q] # entry[q]}}
  /\ vanished' = (vanished \/ Missing(entry'))
  /\ UNCHANGED <<content, stamp>>

(* Every rewrite is taken to show in the size or the modification time.    *)
Rewrite(f, c) ==
  /\ "rewrite" \in Threat /\ Deed
  /\ (f \in Manifests => Ahead("manifest")) /\ c \notin {content[f], "huge"}
  /\ content' = [content EXCEPT ![f] = c] /\ stamp' = [stamp EXCEPT ![f] = @ + 1]
  /\ UNCHANGED <<entry, past, vanished>>

Next == \/ Step
        \/ \E p \in Place : \E v \in Fits(p) \cup Odd : Replace(p, v)
        \/ \E f \in File, c \in Content : Rewrite(f, c)

Spec == Init /\ [][Next]_vars

----------------------------------------------------------------------------
(* An answer is blamed on what deserves it. On the machine only if a call  *)
(* failed, or an entry was gone just while it was opened, which takes two  *)
(* changes; and if a call failed, at the very end included, in a tree that *)
(* nobody touched, on nothing else. On the release only if that is damaged *)
(* or was changed; and it is said to be missing only if something on its   *)
(* path was (a run would start all over, a diff would go without its       *)
(* baseline). Left alone, a damaged release never passes.                  *)
MachineIsBlamed ==
  /\ reader.verdict = "operational" => faulted \/ deeds > 1
  /\ faulted /\ deeds = 0 => reader.verdict \in {"none", "operational"}

ReleaseIsBlamed ==
  /\ reader.verdict = "invalid" => flawed \/ deeds > 0
  /\ reader.verdict = "missing" => vanished
  /\ reader.verdict = "audited" => ~flawed \/ deeds > 0

VerdictIsEarned == MachineIsBlamed /\ ReleaseIsBlamed

(* When a file was read, its path led to it link by link at some moment    *)
(* after the last byte: through the directories kept open for the manifest,*)
(* and for a record and the listing through the evidence root to the very  *)
(* runs directory that was opened, whatever was renamed in between. A      *)
(* manifest that is accepted was not put together from two versions of its *)
(* file either, though nothing in it would show that.                      *)
Held(p, v) == entry[p] = v \/ [place |-> p, held |-> v] \in past

Leaving(t) == reader.task = t /\ reader.at = "leave" /\ reader.causes = {} /\ reader.prior = {}

AnswerIsCurrent ==
  /\ Leaving("load") =>
       /\ \A i \in 1 .. 2 : Held(At(reader.chain[i], Walk[i]), reader.chain[i + 1])
       /\ Held(At(Handle, "manifest"), reader.file)
  /\ Leaving("get-end") => Held(At(reader.runs, "selected"), reader.file)
  /\ Leaving("get-end") \/ Leaving("list-end") =>
       \E d \in Home : Held(At("top", "root"), d) /\ Held(At(d, "runs"), reader.runs)
  /\ reader.manifest # "torn"
----------------------------------------------------------------------------
(* The inductive invariant.                                                *)

Walking == {"look", "enter", "why", "confirm"}
Opening == {"open-file", "why-file", "check-file"}
Reading == {"read", "read-on", "decode", "recheck"}
Filing  == Opening \cup Reading
Stage   == Walking \cup Filing \cup {"verify", "find", "names", "scan", "leave"}

Causes == {"missing", "unsafe", "corrupt", "large", "io"}
Chains == {<<d>> : d \in {"top"} \cup Home \cup Runs} \cup {<<"top", h>> : h \in Home}
          \cup {<<"top", h, g>> : h \in Home, g \in Digest}

ReaderState ==
  [task : {"load", "open", "get", "get-end", "list", "list-end", "done"},
   at : Stage, level : 0 .. 2, chain : Chains, seen : Object \cup {"none"}, child : Dir \cup Odd \cup {"none"}, saw : Nat,
   file : File \cup Odd \cup {"none"}, half : Content \cup {"none"}, data : Content \cup {"torn", "none"},
   inside : BOOLEAN, causes : SUBSET Causes, prior : SUBSET Causes, runs : Runs \cup {"none"},
   manifest : Content \cup {"torn", "none"}, flaw : BOOLEAN, name : {"manifest", "selected", "other", "none"},
   todo : SUBSET {"selected", "other"}, verdict : {"operational", "invalid", "missing", "audited", "none"}]

(* Every variable has its type, and a name is of what fits it.             *)
TypeOK ==
  /\ entry \in [Place -> Object \cup Odd] /\ \A p \in Place : entry[p] \in Fits(p) \cup Odd
  /\ content \in [File -> Content] /\ stamp \in [File -> Nat] /\ deeds \in Nat
  /\ reader \in ReaderState /\ past \subseteq [place : Place, held : Object \cup Odd]
  /\ faulted \in BOOLEAN /\ flawed \in BOOLEAN /\ vanished \in BOOLEAN

(* Which directories are open at which call, and which name is asked for.  *)
OnItsWay ==
  /\ reader.at \in Walking =>
       /\ reader.task # "done" /\ reader.todo = {} /\ (Loading => reader.data = "none")
       /\ \/ reader.level = 0 /\ reader.chain = <<"top">>
          \/ reader.level = 1 /\ \E h \in Home : reader.chain = IF Loading THEN <<"top", h>> ELSE <<h>>
  /\ reader.at \in Walking \ {"look"} => reader.seen \in Fits(At(Handle, Component))
  /\ reader.at \in Filing \cup {"find", "verify"} =>
       IF Loading THEN \E h \in Home, g \in Digest : reader.chain = <<"top", h, g>>
                  ELSE reader.task \in {"get", "list"} /\ reader.at # "verify"
  /\ reader.at \in Filing \cup {"find"} => At(Handle, reader.name) \in Place /\ (Loading <=> reader.name = "manifest")
  /\ reader.at = "verify" => reader.level \in {1, 2}
  /\ reader.at \in Filing => reader.seen \in Fits(At(Handle, reader.name))
  /\ reader.at \in Reading => reader.file = reader.seen
  /\ reader.at \in {"names", "scan"} => reader.task = "list"
  /\ ~Loading /\ reader.at \in Filing \cup {"find", "names", "scan"} =>
       /\ reader.inside /\ reader.chain = <<reader.runs>>
       /\ reader.task = "get" => reader.name = "selected"
       /\ \A n \in reader.todo : At(reader.runs, n) \in Place
  /\ reader.inside => reader.task \in {"get", "list"}
  /\ reader.task \in {"get", "get-end", "list", "list-end"} => reader.runs \in Runs
  /\ reader.at # "leave" => reader.causes = {}
  /\ reader.prior # {} => reader.task \in {"get-end", "list-end"}
  /\ reader.at = "leave" /\ reader.causes = {} =>
       /\ reader.task = "open" => reader.runs \in Runs
       /\ reader.task \in {"get", "list"} => reader.inside
  /\ reader.at = "read-on" => reader.half # "none"
  /\ reader.at \in {"decode", "recheck"} => reader.data # "none"

(* What was read is one version of the file as long as the stamp is the    *)
(* same.                                                                   *)
OneVersion ==
  /\ reader.at \in Filing => reader.saw <= stamp[reader.seen]
  /\ reader.at = "read-on" /\ reader.saw = stamp[reader.seen] => reader.half = content[reader.seen]
  /\ reader.at \in {"decode", "recheck"} /\ reader.saw = stamp[reader.seen] => reader.data # "torn"
  /\ Loading /\ (reader.at = "verify" \/ Leaving("load")) => reader.data # "torn"

(* What has been confirmed since the last byte.                            *)
Confirmed ==
  /\ Loading /\ reader.at = "verify" /\ reader.data # "none" =>
       /\ Held(At(reader.chain[3], "manifest"), reader.file)
       /\ reader.level = 2 => Held(At("top", "root"), reader.chain[2])
  /\ Leaving("load") =>
       /\ reader.data # "none"
       /\ \E h \in Home, g \in Digest : reader.chain = <<"top", h, g>>
  /\ Leaving("get") \/ (reader.task = "get-end" /\ reader.prior = {}) =>
       reader.data # "none" /\ Held(At(reader.runs, "selected"), reader.file)
  /\ reader.task \in {"get-end", "list-end"} /\ reader.prior = {} /\ reader.at \in Walking /\ reader.level = 1 =>
       Held(At("top", "root"), Handle)

(* A verdict is about what is, or was, on a path of a manifest.            *)
Witnessed ==
  /\ Missing(entry) => vanished
  /\ Loading /\ "missing" \in reader.causes => vanished

(* Nobody but the invocation was at work: what it has passed is as it      *)
(* should be, and is blamed for nothing.                                   *)
ManifestStands ==
  /\ entry[At("top", "root")] = "root1" /\ entry[At("root1", "release")] = "release1"
  /\ entry[At("release1", "manifest")] = "manifest1" /\ content["manifest1"] \in Text
RunsStand == reader.runs = "runs1" /\ entry[At("root1", "runs")] = "runs1"
SelectedStands == entry[At("runs1", "selected")] = "selected1"
OtherStands ==
  entry[At("runs1", "other")] = "absent"
  \/ (entry[At("runs1", "other")] = "other1" /\ content["other1"] \in Text \ {reader.manifest})

Undisturbed ==
  deeds = 0 =>
    /\ flawed <=> ~Intact(entry, content)
    /\ \A p \in Place : entry[p] \in {Standing[p]} \cup Odd
    /\ reader.at \in Walking /\ reader.level = 1 => entry[At("top", "root")] = "root1" /\ Handle = "root1"
    /\ reader.at \in Walking \ {"look"} => Current(Component) = reader.seen
    /\ reader.at = "confirm" => reader.child = reader.seen
    /\ reader.at = "why" => reader.child = "odd"
    /\ Loading /\ (reader.at \in Filing \cup {"find", "verify"} \/ Leaving("load")) =>
         /\ reader.chain = <<"top", "root1", "release1">>
         /\ entry[At("top", "root")] = "root1" /\ entry[At("root1", "release")] = "release1"
    /\ reader.at \in Filing =>
         /\ Current(reader.name) = reader.seen /\ content[reader.seen] # "huge" /\ stamp[reader.seen] = reader.saw
         /\ reader.at = "check-file" => reader.file = reader.seen
         /\ reader.at = "why-file" => reader.file = "odd"
         /\ reader.at = "read-on" => reader.half = content[reader.seen]
         /\ reader.at \in {"decode", "recheck"} => reader.data = content[reader.seen]
         /\ reader.at = "recheck" /\ Loading => reader.data \in Text
    /\ Loading /\ reader.data # "none" /\ (reader.at = "verify" \/ Leaving("load")) =>
         ManifestStands /\ reader.data = content["manifest1"]
    /\ reader.task \in {"open", "get", "get-end", "list", "list-end"} =>
         ManifestStands /\ reader.manifest = content["manifest1"]
    /\ reader.task \in {"get", "get-end", "list", "list-end"} \/ Leaving("open") => RunsStand
    /\ Leaving("get") \/ (reader.task = "get-end" /\ reader.prior = {}) =>
         SelectedStands /\ reader.data = content["selected1"]
    /\ reader.task = "list" /\ reader.at \in Filing \cup {"scan", "find"} =>
         /\ \A n \in reader.todo : entry[At(reader.runs, n)] # "absent"
         /\ reader.at = "find" => Current(reader.name) # "absent"
    /\ ~reader.flaw =>
         /\ reader.task \in {"list", "list-end"} => SelectedStands /\ content["selected1"] = reader.manifest
         /\ reader.task = "list" /\ reader.at \in Filing \cup {"scan", "find"} =>
              OtherStands \/ "other" \in reader.todo \/ (reader.at # "scan" /\ reader.name = "other")
         /\ Leaving("list") \/ (reader.task = "list-end" /\ reader.prior = {}) => OtherStands

(* A machine is blamed for what it did, a release for what it is.          *)
Blameless ==
  /\ deeds = 0 /\ ~faulted => reader.at \notin {"why", "why-file"} /\ "io" \notin reader.causes \cup reader.prior
  /\ deeds = 0 /\ ~flawed =>
       /\ ~reader.flaw
       /\ reader.causes # {} => "io" \in reader.causes
       /\ reader.prior # {} => "io" \in reader.prior

IInv == /\ TypeOK /\ OnItsWay /\ OneVersion /\ Confirmed /\ Witnessed /\ Undisturbed /\ Blameless
        /\ ReleaseIsBlamed /\ AnswerIsCurrent

(* A failure is on its way to the verdict from the call that failed on, and*)
(* one change alone makes none: what was gone at the open still is gone.   *)
Traced ==
  /\ reader.task # "done" => reader.verdict = "none"
  /\ ~faulted /\ deeds < 2 =>
       /\ "io" \notin reader.causes \cup reader.prior /\ reader.verdict # "operational"
       /\ reader.at = "why" => Current(Component) # reader.seen
       /\ reader.at = "why-file" => Current(reader.name) # reader.seen
  /\ faulted /\ deeds = 0 =>
       IF reader.task = "done" THEN reader.verdict = "operational"
       ELSE reader.at \in {"why", "why-file"} \/ "io" \in reader.causes \cup reader.prior

=============================================================================
