------------------------- MODULE ImmutableFileProofs -------------------------
(***************************************************************************)
(* For every set of writers and names and every kind of trouble: the       *)
(* inductive invariant of ImmutableFile, the safety properties that follow *)
(* from it, and that the calls implement the write-once register.          *)
(*                                                                         *)
(* Every action updates the record of one call.  The first lemmas say once *)
(* what each of the helpers does to that record (its typing, its fields,   *)
(* the other calls); then there is one lemma per action.                   *)
(***************************************************************************)
EXTENDS ManifestWriter, TLAPS

OthersStay(w) == \A v \in Writer : v # w => call'[v] = call[v]

(* Replacing the record of one call leaves the other calls alone.           *)
LEMMA CallUpdate ==
  ASSUME NEW w \in Writer, call \in [Writer -> Call], NEW d \in Call,
         call' = [call EXCEPT ![w] = d]
  PROVE  call' \in [Writer -> Call] /\ call'[w] = d /\ OthersStay(w)
BY DEF OthersStay

(* A call that goes on changes its control point and nothing else.          *)
LEMMA GotoCall ==
  ASSUME NEW w \in Writer, call \in [Writer -> Call], NEW l \in Label, Goto(w, l)
  PROVE  /\ call' \in [Writer -> Call] /\ OthersStay(w)
         /\ call'[w].pc = l /\ call'[w].stage = call[w].stage
         /\ call'[w].causes = call[w].causes /\ call'[w].installed = call[w].installed
BY DEF Goto, Call, OthersStay

(* A failing call keeps what it installed and collects its causes.          *)
LEMMA CleanupCall ==
  ASSUME NEW w \in Writer, call \in [Writer -> Call],
         NEW stage \in Stage, NEW causes \in SUBSET Cause, NEW tries \in 1 .. 2,
         CleanupAfter(w, stage, causes, tries)
  PROVE  /\ call' \in [Writer -> Call] /\ OthersStay(w)
         /\ call'[w].pc = "cleanup" /\ call'[w].stage = stage /\ call'[w].tries = tries
         /\ call'[w].causes = call[w].causes \cup causes /\ call'[w].installed = call[w].installed
<1> DEFINE d == [call[w] EXCEPT !.pc = "cleanup", !.stage = stage,
                                !.causes = call[w].causes \cup causes, !.tries = tries]
<1>1. call[w].causes \cup causes \in SUBSET Cause BY DEF Call
<1>2. "cleanup" \in Label /\ tries \in 0 .. 2 BY DEF Label, Running
<1>3. d \in Call BY <1>1, <1>2 DEF Call
<1>4. call' = [call EXCEPT ![w] = d] BY DEF CleanupAfter
<1>5. /\ d.pc = "cleanup" /\ d.stage = stage /\ d.tries = tries
      /\ d.causes = call[w].causes \cup causes /\ d.installed = call[w].installed
  BY DEF Call
<1> HIDE DEF d
<1> QED BY <1>3, <1>4, <1>5, CallUpdate

(* A call that linked its file remembers that it did.                       *)
LEMMA InstalledCall ==
  ASSUME NEW w \in Writer, call \in [Writer -> Call], NEW causes \in SUBSET Cause,
         InstalledWith(w, causes)
  PROVE  /\ call' \in [Writer -> Call] /\ OthersStay(w)
         /\ call'[w].pc = "sync-install" /\ call'[w].installed
         /\ call'[w].causes = call[w].causes \cup causes
<1> DEFINE d == [call[w] EXCEPT !.pc = "sync-install", !.installed = TRUE, !.causes = call[w].causes \cup causes]
<1>1. call[w].causes \cup causes \in SUBSET Cause BY DEF Call
<1>2. "sync-install" \in Label BY DEF Label, Running
<1>3. d \in Call BY <1>1, <1>2 DEF Call
<1>4. call' = [call EXCEPT ![w] = d] BY DEF InstalledWith
<1>5. d.pc = "sync-install" /\ d.installed /\ d.causes = call[w].causes \cup causes BY DEF Call
<1> HIDE DEF d
<1> QED BY <1>3, <1>4, <1>5, CallUpdate

(* A return hands over the causes; one from the close may join them.        *)
LEMMA ReturnCall ==
  ASSUME NEW w \in Writer, call \in [Writer -> Call],
         NEW stage \in Stage, NEW causes \in SUBSET Cause,
         ReturnWith(w, stage, causes)
  PROVE  /\ call' \in [Writer -> Call] /\ OthersStay(w)
         /\ call'[w].pc = "returned" /\ causes \subseteq call'[w].causes
         /\ call'[w].causes \subseteq causes \cup {"io"}
         /\ call'[w].stage = stage \/ (causes = {} /\ call'[w].stage = "close-directory")
         /\ call'[w].installed = call[w].installed
<1> DEFINE d == [call[w] EXCEPT !.pc = "returned", !.stage = stage, !.causes = causes]
           close == IF causes = {} THEN "close-directory" ELSE stage
           e == [call[w] EXCEPT !.pc = "returned", !.causes = causes \cup {"io"}, !.stage = close]
<1>1. "returned" \in Label BY DEF Label
<1>2. CASE call' = [call EXCEPT ![w] = d]
  <2>1. d \in Call BY <1>1 DEF Call
  <2>2. d.pc = "returned" /\ d.stage = stage /\ d.causes = causes /\ d.installed = call[w].installed
    BY DEF Call
  <2> HIDE DEF d
  <2> QED BY <1>2, <2>1, <2>2, CallUpdate
<1>3. CASE call' = [call EXCEPT ![w] = e]
  <2>1. causes \cup {"io"} \in SUBSET Cause /\ close \in Stage BY DEF Cause, Stage
  <2>2. close = stage \/ (causes = {} /\ close = "close-directory") OBVIOUS
  <2> HIDE DEF close
  <2>3. e \in Call BY <1>1, <2>1 DEF Call
  <2>4. e.pc = "returned" /\ e.stage = close /\ e.causes = causes \cup {"io"} /\ e.installed = call[w].installed
    BY DEF Call
  <2> HIDE DEF e
  <2> QED BY <1>3, <2>2, <2>3, <2>4, CallUpdate
<1> QED BY <1>2, <1>3 DEF ReturnWith

(* A refused call returns its causes and has installed nothing.             *)
LEMMA RefuseCall ==
  ASSUME NEW w \in Writer, call \in [Writer -> Call], NEW causes \in SUBSET Cause,
         RefuseWith(w, causes)
  PROVE  /\ call' \in [Writer -> Call] /\ OthersStay(w)
         /\ call'[w].pc = "returned" /\ call'[w].causes = causes
         /\ call'[w].installed = call[w].installed
<1> DEFINE d == [call[w] EXCEPT !.pc = "returned", !.stage = "validate-path", !.causes = causes]
<1>1. d \in Call BY DEF Call, Label, Stage
<1>2. call' = [call EXCEPT ![w] = d] BY DEF RefuseWith
<1>3. d.pc = "returned" /\ d.causes = causes /\ d.installed = call[w].installed BY DEF Call
<1> HIDE DEF d
<1> QED BY <1>1, <1>2, <1>3, CallUpdate

(* A failed removal uses up an attempt and sets the stage.                  *)
LEMMA RemovalCall ==
  ASSUME NEW w \in Writer, call \in [Writer -> Call], call[w].tries \in 1 .. 2,
         call' = [call EXCEPT ![w] = RemovalFailed(call[w])]
  PROVE  /\ call' \in [Writer -> Call] /\ OthersStay(w)
         /\ call'[w].pc \in {"cleanup", "cleanup-sync"} /\ call'[w].stage = "remove-temp"
         /\ call'[w].causes = call[w].causes \cup {"io"} /\ call'[w].installed = call[w].installed
         /\ call'[w].pc = "cleanup" => call'[w].tries \in 1 .. 2
<1> DEFINE c == call[w]
           next == IF c.tries > 1 THEN "cleanup" ELSE "cleanup-sync"
           d == [c EXCEPT !.tries = @ - 1, !.stage = "remove-temp", !.causes = @ \cup {"io"}, !.pc = next]
<1>1. c.causes \cup {"io"} \in SUBSET Cause BY DEF Call, Cause
<1>2. c.tries - 1 \in 0 .. 2 /\ (next = "cleanup" => c.tries - 1 \in 1 .. 2) OBVIOUS
<1>3. next \in {"cleanup", "cleanup-sync"} /\ next \in Label /\ "remove-temp" \in Stage
  BY DEF Label, Running, Stage
<1>4. call' = [call EXCEPT ![w] = d] BY DEF RemovalFailed
<1> HIDE DEF next
<1>5. d \in Call BY <1>1, <1>2, <1>3 DEF Call
<1>6. /\ d.pc = next /\ d.stage = "remove-temp" /\ d.tries = c.tries - 1
      /\ d.causes = c.causes \cup {"io"} /\ d.installed = c.installed
  BY DEF Call
<1> HIDE DEF d
<1> QED BY <1>2, <1>3, <1>4, <1>5, <1>6, CallUpdate

------------------------------------------------------------------------------
(* The three ways a step moves its call, and what it leaves alone.         *)

MovesTo(w, l) ==
  /\ call' \in [Writer -> Call] /\ OthersStay(w)
  /\ call'[w].pc = l /\ call'[w].stage = call[w].stage /\ call'[w].causes = call[w].causes

CleansUp(w) ==
  /\ call' \in [Writer -> Call] /\ OthersStay(w)
  /\ call'[w].pc = "cleanup" /\ call'[w].causes # {} /\ call'[w].tries > 0

Fails(w) ==
  /\ call' \in [Writer -> Call] /\ OthersStay(w)
  /\ call'[w].pc = "returned" /\ call'[w].causes # {}

(* Nothing that belongs to call v changes but in ways its invariant allows. *)
Untouched(v) ==
  /\ call'[v] = call[v] /\ data'[v] = data[v]
  /\ dataDisk'[v] \in {dataDisk[v], data[v]}
  /\ temp'[v] => temp[v]
  /\ tempDisk'[v] => temp[v] \/ tempDisk[v]
  /\ \/ target'[Dest[v]] = target[Dest[v]]
     \/ target[Dest[v]] = None /\ target'[Dest[v]] # v
  /\ targetDisk'[Dest[v]] \in {targetDisk[Dest[v]], target[Dest[v]]}

(* A call of which a step changes nothing keeps its part of the invariant.  *)
LEMMA UntouchedKeeps ==
  ASSUME NEW v \in Writer, IInv, Untouched(v) PROVE CallInv(v)'
<1> USE ImmutableFileAssumption DEF Untouched
<1>0. CallInv(v) /\ DiskFollows /\ target[Dest[v]] \in Writer \cup {None} /\ Dest[v] \in Name
  BY DEF IInv, TypeOK
<1>1. (BeforeLink(v) /\ AfterLink(v))' BY <1>0 DEF CallInv, BeforeLink, AfterLink
<1>2. (ContentReady(v) /\ CleanupHasCause(v))' BY <1>0 DEF CallInv, ContentReady, CleanupHasCause, At
<1>3. TempTracked(v)' BY <1>0 DEF CallInv, TempTracked, At
<1>4. (Succeeded(v) => Durable(v))' BY <1>0 DEF CallInv, Succeeded, Returned, Durable, At
<1>5. (Residue(v) => call[v].stage \in {"remove-temp", "sync-cleanup"})'
  BY <1>0 DEF CallInv, Residue, Returned, At
<1> QED BY <1>1, <1>2, <1>3, <1>4, <1>5 DEF CallInv

(* A failure before the link leads to the cleanup, with a cause.            *)
LEMMA FailBeforeInstallCleans ==
  ASSUME NEW w \in Writer, call \in [Writer -> Call], NEW stage \in Stage,
         NEW causes \in SUBSET Cause, causes # {}, FailBeforeInstall(w, stage, causes)
  PROVE  CleansUp(w)
<1>1. 2 \in 1 .. 2 /\ "close-file" \in Stage /\ causes \cup {"io"} \in SUBSET Cause
  BY DEF Stage, Cause
<1>2. CASE CleanupAfter(w, stage, causes, 2) BY <1>1, <1>2, CleanupCall DEF CleansUp
<1>3. CASE CleanupAfter(w, "close-file", causes \cup {"io"}, 2)
  BY <1>1, <1>3, CleanupCall DEF CleansUp
<1> QED BY <1>2, <1>3 DEF FailBeforeInstall

(* Type, disk and own part suffice for the invariant after a step of w.     *)
LEMMA StepKeeps ==
  ASSUME NEW w \in Writer, IInv, TypeOK', DiskFollows', LinkedIsFull', CallInv(w)',
         \A v \in Writer : v # w => Untouched(v)
  PROVE  IInv'
BY UntouchedKeeps DEF IInv

(* A call that enters the cleanup keeps its part of the invariant.          *)
LEMMA CleansUpKeeps == ASSUME NEW w \in Writer, CleansUp(w) PROVE CallInv(w)'
BY DEF CleansUp, CallInv, BeforeLink, ContentReady, AfterLink, TempTracked, CleanupHasCause,
       Succeeded, Residue, Returned, At

(* A call that fails before its link, touching no file, keeps its part.     *)
LEMMA FailsKeeps ==
  ASSUME NEW w \in Writer, Fails(w),
         \/ ~temp'[w] /\ ~tempDisk'[w]
         \/ call'[w].stage \in {"remove-temp", "sync-cleanup"}
  PROVE  CallInv(w)'
BY DEF Fails, CallInv, BeforeLink, ContentReady, AfterLink, TempTracked, CleanupHasCause,
       Succeeded, Residue, Returned, At

(* A step that changes no file: only the call's own part is left to show.  *)
LEMMA SilentStep ==
  ASSUME NEW w \in Writer, IInv, UNCHANGED fs, UNCHANGED env,
         call' \in [Writer -> Call], OthersStay(w), CallInv(w)'
  PROVE  IInv'
<1>1. TypeOK' BY DEF IInv, TypeOK, fs, env
<1>2. DiskFollows' /\ LinkedIsFull' BY DEF IInv, DiskFollows, LinkedIsFull, fs
<1>3. \A v \in Writer : v # w => Untouched(v) BY DEF OthersStay, Untouched, fs
<1> QED BY <1>1, <1>2, <1>3, StepKeeps

------------------------------------------------------------------------------
(* One lemma per action: it preserves the invariant.                       *)

LEMMA BeginKeeps == ASSUME NEW w \in Writer, IInv, Begin(w) PROVE IInv'
<1> USE DEF Begin
<1>1. call \in [Writer -> Call] /\ CallInv(w) /\ UNCHANGED fs /\ UNCHANGED env /\ At(w, "idle")
  BY DEF IInv, TypeOK
<1>2. ~temp'[w] /\ ~tempDisk'[w] BY <1>1 DEF CallInv, TempTracked, At, fs
<1>3. CASE \E causes \in {{"cancelled"}, {"unsafe"}} : RefuseWith(w, causes)
  <2>1. PICK causes \in {{"cancelled"}, {"unsafe"}} : RefuseWith(w, causes) BY <1>3
  <2>2. causes \in SUBSET Cause /\ causes # {} BY DEF Cause
  <2>3. Fails(w) BY <1>1, <2>1, <2>2, RefuseCall DEF Fails
  <2> QED BY <1>1, <1>2, <2>3, FailsKeeps, SilentStep DEF Fails
<1>4. CASE \E causes \in {{"exists"}, {"unsafe"}} : ReturnWith(w, "validate-path", causes)
  <2>1. PICK causes \in {{"exists"}, {"unsafe"}} : ReturnWith(w, "validate-path", causes) BY <1>4
  <2>2. causes \in SUBSET Cause /\ causes # {} /\ "validate-path" \in Stage BY DEF Cause, Stage
  <2>3. Fails(w) BY <1>1, <2>1, <2>2, ReturnCall DEF Fails
  <2> QED BY <1>1, <1>2, <2>3, FailsKeeps, SilentStep DEF Fails
<1>5. CASE Goto(w, "create-temp") /\ target[Dest[w]] = None
  <2>1. MovesTo(w, "create-temp") BY <1>1, <1>5, GotoCall DEF MovesTo, Label, Running
  <2>2. CallInv(w)'
    BY <1>1, <1>2, <1>5, <2>1, ImmutableFileAssumption
    DEF MovesTo, CallInv, BeforeLink, ContentReady, AfterLink, TempTracked, CleanupHasCause,
        Succeeded, Residue, Returned, At, fs
  <2> QED BY <1>1, <2>1, <2>2, SilentStep DEF MovesTo
<1> QED BY <1>3, <1>4, <1>5

(* CreateTemp: a temporary name appears on the disk no earlier than in      *)
(* memory.                                                                  *)
LEMMA CreateTempKeeps == ASSUME NEW w \in Writer, IInv, CreateTemp(w) PROVE IInv'
<1> USE DEF CreateTemp
<1>1. call \in [Writer -> Call] /\ CallInv(w) /\ At(w, "create-temp") /\ UNCHANGED env
      /\ UNCHANGED <<target, targetDisk, tempDisk, data, dataDisk>>
  BY DEF IInv, TypeOK, env
<1>2. CASE ReturnWith(w, "create-temp", {"io"}) /\ UNCHANGED temp
  <2>1. {"io"} \in SUBSET Cause /\ "create-temp" \in Stage BY DEF Cause, Stage
  <2>2. Fails(w) BY <1>1, <1>2, <2>1, ReturnCall DEF Fails
  <2>3. ~temp'[w] /\ ~tempDisk'[w] BY <1>1, <1>2 DEF CallInv, TempTracked, At
  <2> QED BY <1>1, <1>2, <2>2, <2>3, FailsKeeps, SilentStep DEF Fails, fs
<1>3. CASE temp' = [temp EXCEPT ![w] = TRUE] /\ Goto(w, "set-mode")
  <2>1. MovesTo(w, "set-mode") BY <1>1, <1>3, GotoCall DEF MovesTo, Label, Running
  <2>2. TypeOK' BY <1>1, <1>3, <2>1 DEF IInv, TypeOK, MovesTo, env
  <2>3. DiskFollows' /\ LinkedIsFull' BY <1>1 DEF IInv, DiskFollows, LinkedIsFull
  <2>4. \A v \in Writer : v # w => Untouched(v)
    BY <1>1, <1>3, <2>1 DEF MovesTo, OthersStay, Untouched, IInv, TypeOK
  <2>5. CallInv(w)'
    BY <1>1, <2>1
    DEF MovesTo, CallInv, BeforeLink, ContentReady, AfterLink, TempTracked, CleanupHasCause,
        Succeeded, Residue, Returned, At
  <2> QED BY <2>2, <2>3, <2>4, <2>5, StepKeeps
<1> QED BY <1>2, <1>3

(* SetMode touches no file.                                                 *)
LEMMA SetModeKeeps == ASSUME NEW w \in Writer, IInv, SetMode(w) PROVE IInv'
<1> USE DEF SetMode
<1>1. call \in [Writer -> Call] /\ CallInv(w) /\ UNCHANGED fs /\ UNCHANGED env /\ At(w, "set-mode")
  BY DEF IInv, TypeOK
<1>2. CASE \E cause \in {"cancelled", "io"} : FailBeforeInstall(w, "set-mode", {cause})
  <2>1. PICK cause \in {"cancelled", "io"} : FailBeforeInstall(w, "set-mode", {cause}) BY <1>2
  <2>2. {cause} \in SUBSET Cause /\ {cause} # {} /\ "set-mode" \in Stage BY DEF Cause, Stage
  <2>3. CleansUp(w) BY <1>1, <2>1, <2>2, FailBeforeInstallCleans
  <2> QED BY <1>1, <2>3, CleansUpKeeps, SilentStep DEF CleansUp
<1>3. CASE Goto(w, "write")
  <2>1. MovesTo(w, "write") BY <1>1, <1>3, GotoCall DEF MovesTo, Label, Running
  <2>2. CallInv(w)'
    BY <1>1, <2>1
    DEF MovesTo, CallInv, BeforeLink, ContentReady, AfterLink, TempTracked, CleanupHasCause,
        Succeeded, Residue, Returned, At, fs
  <2> QED BY <1>1, <2>1, <2>2, SilentStep DEF MovesTo
<1> QED BY <1>2, <1>3

(* Write: from here on the content is complete, or the call fails.          *)
LEMMA WriteKeeps == ASSUME NEW w \in Writer, IInv, Write(w) PROVE IInv'
<1> USE DEF Write
<1>1. call \in [Writer -> Call] /\ CallInv(w) /\ At(w, "write") /\ UNCHANGED env
      /\ UNCHANGED <<target, temp, targetDisk, tempDisk, dataDisk>>
  BY DEF IInv, TypeOK, env
<1>2. target[Dest[w]] # w BY <1>1 DEF CallInv, BeforeLink, At
<1>3. CASE UNCHANGED data /\ FailBeforeInstall(w, "write", {"cancelled"})
  <2>1. {"cancelled"} \in SUBSET Cause /\ "write" \in Stage BY DEF Cause, Stage
  <2>2. CleansUp(w) BY <1>1, <1>3, <2>1, FailBeforeInstallCleans
  <2> QED BY <1>1, <1>3, <2>2, CleansUpKeeps, SilentStep DEF CleansUp, fs
<1>4. ASSUME NEW content \in {"part", "full"}, data' = [data EXCEPT ![w] = content],
             call' \in [Writer -> Call], OthersStay(w), CallInv(w)'
      PROVE  IInv'
  <2>1. TypeOK' BY <1>1, <1>4 DEF IInv, TypeOK, Content, env
  <2>2. DiskFollows' BY <1>1 DEF IInv, DiskFollows
  <2>3. LinkedIsFull' BY <1>1, <1>2, <1>4 DEF IInv, LinkedIsFull, TypeOK
  <2>4. \A v \in Writer : v # w => Untouched(v)
    BY <1>1, <1>4 DEF OthersStay, Untouched, IInv, TypeOK
  <2> QED BY <1>4, <2>1, <2>2, <2>3, <2>4, StepKeeps
<1>5. CASE /\ data' = [data EXCEPT ![w] = "part"]
           /\ \E stage \in {"write", "short-write"} : FailBeforeInstall(w, stage, {"io"})
  <2>1. PICK stage \in {"write", "short-write"} : FailBeforeInstall(w, stage, {"io"}) BY <1>5
  <2>2. {"io"} \in SUBSET Cause /\ stage \in Stage BY DEF Cause, Stage
  <2>3. CleansUp(w) BY <1>1, <2>1, <2>2, FailBeforeInstallCleans
  <2> QED BY <1>4, <1>5, <2>3, CleansUpKeeps DEF CleansUp
<1>6. CASE data' = [data EXCEPT ![w] = "full"] /\ Goto(w, "sync-file")
  <2>1. MovesTo(w, "sync-file") BY <1>1, <1>6, GotoCall DEF MovesTo, Label, Running
  <2>2. data'[w] = "full" BY <1>6 DEF IInv, TypeOK
  <2>3. CallInv(w)'
    BY <1>1, <1>2, <2>1, <2>2
    DEF MovesTo, CallInv, BeforeLink, ContentReady, AfterLink, TempTracked, CleanupHasCause,
        Succeeded, Residue, Returned, At
  <2> QED BY <1>4, <1>6, <2>1, <2>3 DEF MovesTo
<1> QED BY <1>3, <1>5, <1>6

(* SyncFile: the content that goes on to the link is on the disk.           *)
LEMMA SyncFileKeeps == ASSUME NEW w \in Writer, IInv, SyncFile(w) PROVE IInv'
<1> USE DEF SyncFile
<1>1. call \in [Writer -> Call] /\ CallInv(w) /\ At(w, "sync-file") /\ UNCHANGED env
      /\ UNCHANGED <<target, temp, targetDisk, tempDisk, data>>
  BY DEF IInv, TypeOK, env
<1>2. CASE UNCHANGED dataDisk /\ \E cause \in {"cancelled", "io"} : FailBeforeInstall(w, "sync-file", {cause})
  <2>1. PICK cause \in {"cancelled", "io"} : FailBeforeInstall(w, "sync-file", {cause}) BY <1>2
  <2>2. {cause} \in SUBSET Cause /\ {cause} # {} /\ "sync-file" \in Stage BY DEF Cause, Stage
  <2>3. CleansUp(w) BY <1>1, <2>1, <2>2, FailBeforeInstallCleans
  <2> QED BY <1>1, <1>2, <2>3, CleansUpKeeps, SilentStep DEF CleansUp, fs
<1>3. CASE dataDisk' = [dataDisk EXCEPT ![w] = data[w]] /\ Goto(w, "close-file")
  <2>1. MovesTo(w, "close-file") BY <1>1, <1>3, GotoCall DEF MovesTo, Label, Running
  <2>2. data[w] = "full" /\ target[Dest[w]] # w
    BY <1>1 DEF CallInv, ContentReady, BeforeLink, At
  <2>3. dataDisk'[w] = "full" BY <1>3, <2>2 DEF IInv, TypeOK
  <2>4. TypeOK' BY <1>1, <1>3, <2>1 DEF IInv, TypeOK, MovesTo, env
  <2>5. DiskFollows' BY <1>1 DEF IInv, DiskFollows
  <2>6. LinkedIsFull' BY <1>1, <1>3, <2>2 DEF IInv, LinkedIsFull, TypeOK
  <2>7. \A v \in Writer : v # w => Untouched(v)
    BY <1>1, <1>3, <2>1 DEF MovesTo, OthersStay, Untouched, IInv, TypeOK
  <2>8. CallInv(w)'
    BY <1>1, <2>1, <2>2, <2>3
    DEF MovesTo, CallInv, BeforeLink, ContentReady, AfterLink, TempTracked, CleanupHasCause,
        Succeeded, Residue, Returned, At
  <2> QED BY <2>4, <2>5, <2>6, <2>7, <2>8, StepKeeps
<1> QED BY <1>2, <1>3

(* CloseFile touches no file.                                               *)
LEMMA CloseFileKeeps == ASSUME NEW w \in Writer, IInv, CloseFile(w) PROVE IInv'
<1> USE DEF CloseFile
<1>1. call \in [Writer -> Call] /\ CallInv(w) /\ UNCHANGED fs /\ UNCHANGED env /\ At(w, "close-file")
  BY DEF IInv, TypeOK
<1>2. CASE \E cause \in {"io", "unsafe"} : FailBeforeInstall(w, "install", {cause})
  <2>1. PICK cause \in {"io", "unsafe"} : FailBeforeInstall(w, "install", {cause}) BY <1>2
  <2>2. {cause} \in SUBSET Cause /\ {cause} # {} /\ "install" \in Stage BY DEF Cause, Stage
  <2>3. CleansUp(w) BY <1>1, <2>1, <2>2, FailBeforeInstallCleans
  <2> QED BY <1>1, <2>3, CleansUpKeeps, SilentStep DEF CleansUp
<1>3. CASE CleanupAfter(w, "close-file", {"io"}, 2)
  <2>1. {"io"} \in SUBSET Cause /\ "close-file" \in Stage /\ 2 \in 1 .. 2 BY DEF Cause, Stage
  <2>2. CleansUp(w) BY <1>1, <1>3, <2>1, CleanupCall DEF CleansUp
  <2> QED BY <1>1, <2>2, CleansUpKeeps, SilentStep DEF CleansUp
<1>4. CASE Goto(w, "install")
  <2>1. MovesTo(w, "install") BY <1>1, <1>4, GotoCall DEF MovesTo, Label, Running
  <2>2. CallInv(w)'
    BY <1>1, <2>1
    DEF MovesTo, CallInv, BeforeLink, ContentReady, AfterLink, TempTracked, CleanupHasCause,
        Succeeded, Residue, Returned, At, fs
  <2> QED BY <1>1, <2>1, <2>2, SilentStep DEF MovesTo
<1> QED BY <1>2, <1>3, <1>4

(* Install: the file that appears under its name is complete and durable.   *)
LEMMA InstallKeeps == ASSUME NEW w \in Writer, IInv, Install(w) PROVE IInv'
<1> USE DEF Install
<1>1. call \in [Writer -> Call] /\ CallInv(w) /\ At(w, "install") /\ UNCHANGED env
      /\ UNCHANGED <<temp, targetDisk, tempDisk, data, dataDisk>>
  BY DEF IInv, TypeOK, env
<1>2. ASSUME UNCHANGED target, NEW causes \in SUBSET Cause, causes # {},
             CleanupAfter(w, "install", causes, 2)
      PROVE  IInv'
  <2>1. "install" \in Stage /\ 2 \in 1 .. 2 BY DEF Stage
  <2>2. CleansUp(w) BY <1>1, <1>2, <2>1, CleanupCall DEF CleansUp
  <2> QED BY <1>1, <1>2, <2>2, CleansUpKeeps, SilentStep DEF CleansUp, fs
<1>3. ASSUME Linked(w) PROVE IInv'
  <2>1. /\ target[Dest[w]] = None /\ target' = [target EXCEPT ![Dest[w]] = w]
        /\ Dest[w] \in Name /\ w # None
    BY <1>3, ImmutableFileAssumption DEF Linked, LinkAllowed
  <2>2. target'[Dest[w]] = w BY <2>1 DEF IInv, TypeOK
  <2>3. /\ call' \in [Writer -> Call] /\ OthersStay(w) /\ CallInv(w)'
    <3>1. CASE \E causes \in {{}, {"io"}, {"unsafe"}} : InstalledWith(w, causes)
      <4>1. PICK causes \in SUBSET Cause : InstalledWith(w, causes) BY <3>1 DEF Cause
      <4>2. call' \in [Writer -> Call] /\ OthersStay(w) /\ call'[w].pc = "sync-install"
        BY <1>1, <4>1, InstalledCall
      <4> QED BY <4>2, <2>2
          DEF CallInv, BeforeLink, ContentReady, AfterLink, TempTracked, CleanupHasCause,
              Succeeded, Residue, Returned, At
    <3>2. CASE CleanupAfter(w, "install", {"io", "unsafe"}, 2)
      <4>1. {"io", "unsafe"} \in SUBSET Cause /\ "install" \in Stage /\ 2 \in 1 .. 2
        BY DEF Cause, Stage
      <4>2. CleansUp(w) BY <1>1, <3>2, <4>1, CleanupCall DEF CleansUp
      <4> QED BY <4>2, CleansUpKeeps DEF CleansUp
    <3> QED BY <1>3, <3>1, <3>2 DEF Linked
  <2>4. TypeOK' BY <1>1, <2>1, <2>3 DEF IInv, TypeOK, env
  <2>5. DiskFollows' BY <1>1, <2>1 DEF IInv, DiskFollows, TypeOK
  <2>6. data[w] = "full" /\ dataDisk[w] = "full" BY <1>1 DEF CallInv, ContentReady, At
  <2>7. LinkedIsFull' BY <1>1, <2>1, <2>6 DEF IInv, LinkedIsFull, TypeOK
  <2>8. \A v \in Writer : v # w => Untouched(v)
    BY <1>1, <2>1, <2>3, ImmutableFileAssumption DEF OthersStay, Untouched, IInv, TypeOK
  <2> QED BY <2>3, <2>4, <2>5, <2>7, <2>8, StepKeeps
<1>4. ASSUME NotLinked(w) PROVE IInv'
  <2>1. UNCHANGED target /\ \E causes \in {{"exists"}, {"exists", "unsafe"}, {"io"}, {"io", "unsafe"}} :
                               CleanupAfter(w, "install", causes, 2)
    BY <1>4 DEF NotLinked
  <2>2. PICK causes \in {{"exists"}, {"exists", "unsafe"}, {"io"}, {"io", "unsafe"}} :
               CleanupAfter(w, "install", causes, 2)
    BY <2>1
  <2>3. causes \in SUBSET Cause /\ causes # {} BY DEF Cause
  <2> QED BY <1>2, <2>1, <2>2, <2>3
<1>5. {"cancelled"} \in SUBSET Cause /\ {"unsafe"} \in SUBSET Cause BY DEF Cause
<1> QED BY <1>2, <1>3, <1>4, <1>5

(* A synchronized directory: what SyncDirectory does to the invariant.     *)
LEMMA SyncDirectoryKeeps ==
  ASSUME NEW w \in Writer, IInv, SyncDirectory, UNCHANGED env,
         call' \in [Writer -> Call], OthersStay(w), CallInv(w)'
  PROVE  IInv'
<1>1. TypeOK' BY DEF IInv, TypeOK, SyncDirectory, env
<1>2. DiskFollows' /\ LinkedIsFull' BY DEF IInv, DiskFollows, LinkedIsFull, SyncDirectory
<1>3. \A v \in Writer : v # w => Untouched(v)
  BY DEF OthersStay, Untouched, SyncDirectory, IInv, TypeOK
<1> QED BY <1>1, <1>2, <1>3, StepKeeps

(* SyncInstall: the entry of the file is on the disk.                       *)
LEMMA SyncInstallKeeps == ASSUME NEW w \in Writer, IInv, SyncInstall(w) PROVE IInv'
<1> USE DEF SyncInstall
<1>1. call \in [Writer -> Call] /\ CallInv(w) /\ At(w, "sync-install") /\ UNCHANGED env
  BY DEF IInv, TypeOK
<1>2. CASE UNCHANGED fs /\ \E cause \in {"unsafe", "cancelled", "io"} :
                               CleanupAfter(w, "sync-install", {cause}, 2)
  <2>1. PICK cause \in {"unsafe", "cancelled", "io"} : CleanupAfter(w, "sync-install", {cause}, 2)
    BY <1>2
  <2>2. {cause} \in SUBSET Cause /\ {cause} # {} /\ "sync-install" \in Stage /\ 2 \in 1 .. 2
    BY DEF Cause, Stage
  <2>3. CleansUp(w) BY <1>1, <2>1, <2>2, CleanupCall DEF CleansUp
  <2> QED BY <1>1, <1>2, <2>3, CleansUpKeeps, SilentStep DEF CleansUp
<1>3. CASE SyncDirectory /\ Goto(w, "remove-temp")
  <2>1. MovesTo(w, "remove-temp") BY <1>1, <1>3, GotoCall DEF MovesTo, Label, Running
  <2>2. target[Dest[w]] = w BY <1>1 DEF CallInv, AfterLink, At
  <2>3. CallInv(w)'
    BY <1>3, <2>1, <2>2
    DEF MovesTo, CallInv, BeforeLink, ContentReady, AfterLink, TempTracked, CleanupHasCause,
        Succeeded, Residue, Returned, At, SyncDirectory
  <2> QED BY <1>1, <1>3, <2>1, <2>3, SyncDirectoryKeeps DEF MovesTo
<1> QED BY <1>2, <1>3

(* A step that removes the temporary name of its own call.                 *)
LEMMA RemovalKeeps ==
  ASSUME NEW w \in Writer, IInv, temp' = [temp EXCEPT ![w] = FALSE],
         UNCHANGED <<target, targetDisk, tempDisk, data, dataDisk, env>>,
         call' \in [Writer -> Call], OthersStay(w), CallInv(w)'
  PROVE  IInv'
<1>1. TypeOK' BY DEF IInv, TypeOK, env
<1>2. DiskFollows' /\ LinkedIsFull' BY DEF IInv, DiskFollows, LinkedIsFull
<1>3. \A v \in Writer : v # w => Untouched(v) BY DEF OthersStay, Untouched, IInv, TypeOK
<1> QED BY <1>1, <1>2, <1>3, StepKeeps

(* RemoveTemp takes the temporary name away, or fails with a cause.         *)
LEMMA RemoveTempKeeps == ASSUME NEW w \in Writer, IInv, RemoveTemp(w) PROVE IInv'
<1> USE DEF RemoveTemp
<1>1. call \in [Writer -> Call] /\ CallInv(w) /\ At(w, "remove-temp") /\ temp \in [Writer -> BOOLEAN]
      /\ UNCHANGED <<target, targetDisk, tempDisk, data, dataDisk, env>>
  BY DEF IInv, TypeOK
<1>2. CASE CleanupAfter(w, "remove-temp", {"io"}, 1) /\ UNCHANGED temp
  <2>1. {"io"} \in SUBSET Cause /\ "remove-temp" \in Stage /\ 1 \in 1 .. 2 BY DEF Cause, Stage
  <2>2. CleansUp(w) BY <1>1, <1>2, <2>1, CleanupCall DEF CleansUp
  <2> QED BY <1>1, <1>2, <2>2, CleansUpKeeps, SilentStep DEF CleansUp, fs
<1>3. CASE temp' = [temp EXCEPT ![w] = FALSE] /\ Goto(w, "sync-cleanup")
  <2>1. MovesTo(w, "sync-cleanup") BY <1>1, <1>3, GotoCall DEF MovesTo, Label, Running
  <2>2. ~temp'[w] BY <1>1, <1>3
  <2>3. CallInv(w)'
    BY <1>1, <2>1, <2>2
    DEF MovesTo, CallInv, BeforeLink, ContentReady, AfterLink, TempTracked, CleanupHasCause,
        Succeeded, Residue, Returned, At
  <2> QED BY <1>1, <1>3, <2>1, <2>3, RemovalKeeps DEF MovesTo
<1> QED BY <1>2, <1>3

(* SyncCleanup: a success has everything on the disk and no temporary name. *)
LEMMA SyncCleanupKeeps == ASSUME NEW w \in Writer, IInv, SyncCleanup(w) PROVE IInv'
<1> USE DEF SyncCleanup
<1>1. call \in [Writer -> Call] /\ CallInv(w) /\ At(w, "sync-cleanup") /\ UNCHANGED env
  BY DEF IInv, TypeOK
<1>2. /\ ~temp[w] /\ target[Dest[w]] = w /\ targetDisk[Dest[w]] = w /\ Dest[w] \in Name /\ w # None
      /\ call[w].causes \in SUBSET Cause
  BY <1>1, ImmutableFileAssumption DEF CallInv, TempTracked, AfterLink, At, Call
<1>3. data[w] = "full" /\ dataDisk[w] = "full" BY <1>2 DEF IInv, LinkedIsFull
<1>4. CASE SyncDirectory /\ \E causes \in SUBSET Cause, stage \in Stage : ReturnWith(w, stage, causes)
  <2>1. PICK causes \in SUBSET Cause, stage \in Stage : ReturnWith(w, stage, causes) BY <1>4
  <2>2. call' \in [Writer -> Call] /\ OthersStay(w) /\ call'[w].pc = "returned"
    BY <1>1, <2>1, ReturnCall
  <2>3. Durable(w)' /\ ~temp'[w] /\ ~tempDisk'[w] BY <1>2, <1>3, <1>4 DEF Durable, SyncDirectory
  <2>4. CallInv(w)'
    BY <2>2, <2>3
    DEF CallInv, BeforeLink, ContentReady, AfterLink, TempTracked, CleanupHasCause,
        Succeeded, Residue, Returned, At
  <2> QED BY <1>1, <1>4, <2>2, <2>4, SyncDirectoryKeeps
<1>5. CASE UNCHANGED fs /\ ReturnWith(w, "sync-cleanup", call[w].causes \cup LastCheck(w) \cup {"io"})
  <2>1. call[w].causes \cup LastCheck(w) \cup {"io"} \in SUBSET Cause /\ "sync-cleanup" \in Stage
    BY <1>2 DEF LastCheck, Cause, Stage
  <2>2. Fails(w) /\ call'[w].stage = "sync-cleanup" BY <1>1, <1>5, <2>1, ReturnCall DEF Fails
  <2> QED BY <1>1, <1>5, <2>2, FailsKeeps, SilentStep DEF Fails
<1>6. ASSUME NEW late \in {{}, {"unsafe"}}
      PROVE  /\ call[w].causes \cup (LastCheck(w) \cup late) \in SUBSET Cause
             /\ "sync-cleanup" \in Stage /\ "install" \in Stage /\ "none" \in Stage
  BY <1>2 DEF LastCheck, Cause, Stage
<1>7. ASSUME NEW late \in {{}} \cup (IF IOFault THEN {{"unsafe"}} ELSE {}),
             ReturnWith(w,
                        CASE LastCheck(w) \cup late # {} -> "sync-cleanup"
                          [] LastCheck(w) \cup late = {} /\ call[w].causes # {} -> "install"
                          [] OTHER -> "none",
                        call[w].causes \cup (LastCheck(w) \cup late))
      PROVE  \E causes \in SUBSET Cause, stage \in Stage : ReturnWith(w, stage, causes)
  <2> DEFINE completion == LastCheck(w) \cup late
             stage == CASE completion # {} -> "sync-cleanup"
                        [] completion = {} /\ call[w].causes # {} -> "install"
                        [] OTHER -> "none"
  <2>1. late \in {{}, {"unsafe"}} OBVIOUS
  <2>2. call[w].causes \cup completion \in SUBSET Cause BY <1>6, <2>1
  <2>3. stage \in Stage
    <3> HIDE DEF completion
    <3> QED BY DEF Stage
  <2>4. ReturnWith(w, stage, call[w].causes \cup completion) BY <1>7
  <2> HIDE DEF stage, completion
  <2> QED BY <2>2, <2>3, <2>4
<1> QED BY <1>1, <1>4, <1>5, <1>7

(* CleanupRemove: the name goes away, or the stage says that it did not.    *)
LEMMA CleanupRemoveKeeps == ASSUME NEW w \in Writer, IInv, CleanupRemove(w) PROVE IInv'
<1> USE DEF CleanupRemove
<1>1. call \in [Writer -> Call] /\ CallInv(w) /\ At(w, "cleanup") /\ temp \in [Writer -> BOOLEAN]
      /\ UNCHANGED <<target, targetDisk, tempDisk, data, dataDisk, env>>
  BY DEF IInv, TypeOK
<1>2. call[w].causes # {} /\ call[w].tries \in 1 .. 2
  BY <1>1 DEF CallInv, CleanupHasCause, At, Call
<1>3. CASE temp' = [temp EXCEPT ![w] = FALSE] /\ Goto(w, "cleanup-sync")
  <2>1. MovesTo(w, "cleanup-sync") BY <1>1, <1>3, GotoCall DEF MovesTo, Label, Running
  <2>2. ~temp'[w] BY <1>1, <1>3
  <2>3. CallInv(w)'
    BY <1>2, <2>1, <2>2
    DEF MovesTo, CallInv, BeforeLink, ContentReady, AfterLink, TempTracked, CleanupHasCause,
        Succeeded, Residue, Returned, At
  <2> QED BY <1>1, <1>3, <2>1, <2>3, RemovalKeeps DEF MovesTo
<1>4. CASE call' = [call EXCEPT ![w] = RemovalFailed(call[w])] /\ UNCHANGED temp
  <2>1. /\ call' \in [Writer -> Call] /\ OthersStay(w) /\ call'[w].causes # {}
        /\ call'[w].pc \in {"cleanup", "cleanup-sync"} /\ call'[w].stage = "remove-temp"
        /\ call'[w].pc = "cleanup" => call'[w].tries \in 1 .. 2
    BY <1>1, <1>2, <1>4, RemovalCall
  <2>2. CallInv(w)'
    BY <2>1 DEF CallInv, BeforeLink, ContentReady, AfterLink, TempTracked, CleanupHasCause,
                Succeeded, Residue, Returned, At
  <2> QED BY <1>1, <1>4, <2>1, <2>2, SilentStep DEF fs
<1> QED BY <1>3, <1>4

(* CleanupSync: the removal is on the disk, or the stage says that it is    *)
(* not.                                                                     *)
LEMMA CleanupSyncKeeps == ASSUME NEW w \in Writer, IInv, CleanupSync(w) PROVE IInv'
<1> USE DEF CleanupSync
<1>1. call \in [Writer -> Call] /\ CallInv(w) /\ At(w, "cleanup-sync") /\ UNCHANGED env
  BY DEF IInv, TypeOK
<1>2. /\ call[w].causes \in SUBSET Cause /\ call[w].causes # {} /\ call[w].stage \in Stage
      /\ temp[w] => call[w].stage = "remove-temp"
  BY <1>1 DEF CallInv, CleanupHasCause, TempTracked, At, Call
<1>3. CASE SyncDirectory /\ ReturnWith(w, call[w].stage, call[w].causes)
  <2>1. Fails(w) /\ call'[w].stage = call[w].stage BY <1>1, <1>2, <1>3, ReturnCall DEF Fails
  <2>2. temp'[w] = temp[w] /\ tempDisk'[w] = temp[w] BY <1>3 DEF SyncDirectory
  <2>3. CallInv(w)' BY <1>2, <2>1, <2>2, FailsKeeps DEF IInv, TypeOK
  <2> QED BY <1>1, <1>3, <2>1, <2>3, SyncDirectoryKeeps DEF Fails
<1>4. CASE UNCHANGED fs /\ ReturnWith(w, "sync-cleanup", call[w].causes \cup {"io"})
  <2>1. call[w].causes \cup {"io"} \in SUBSET Cause /\ "sync-cleanup" \in Stage
    BY <1>2 DEF Cause, Stage
  <2>2. Fails(w) /\ call'[w].stage = "sync-cleanup" BY <1>1, <1>4, <2>1, ReturnCall DEF Fails
  <2> QED BY <1>1, <1>4, <2>2, FailsKeeps, SilentStep DEF Fails
<1> QED BY <1>3, <1>4

(* A step of the environment other than a crash: it touches no call.       *)
LEMMA EnvironmentKeeps ==
  ASSUME IInv, TypeOK', DiskFollows', LinkedIsFull', \A v \in Writer : Untouched(v)
  PROVE  IInv'
BY UntouchedKeeps DEF IInv

(* Cancel touches no file and no call.                                      *)
LEMMA CancelKeeps == ASSUME NEW w \in Writer, IInv, Cancel(w) PROVE IInv'
<1> USE DEF Cancel, fs
<1>1. TypeOK' BY DEF IInv, TypeOK
<1>2. DiskFollows' /\ LinkedIsFull' BY DEF IInv, DiskFollows, LinkedIsFull
<1>3. \A v \in Writer : Untouched(v) BY DEF Untouched
<1> QED BY <1>1, <1>2, <1>3, EnvironmentKeeps

(* SwapParent touches no file and no call.                                  *)
LEMMA SwapParentKeeps == ASSUME IInv, SwapParent PROVE IInv'
<1> USE DEF SwapParent, fs
<1>1. TypeOK' BY DEF IInv, TypeOK
<1>2. DiskFollows' /\ LinkedIsFull' BY DEF IInv, DiskFollows, LinkedIsFull
<1>3. \A v \in Writer : Untouched(v) BY DEF Untouched
<1> QED BY <1>1, <1>2, <1>3, EnvironmentKeeps

(* Sweep: a temporary name less contradicts nothing.                        *)
LEMMA SweepKeeps == ASSUME NEW w \in Writer, IInv, Sweep(w) PROVE IInv'
<1> USE DEF Sweep, env
<1>1. TypeOK' BY DEF IInv, TypeOK
<1>2. DiskFollows' /\ LinkedIsFull' BY DEF IInv, DiskFollows, LinkedIsFull
<1>3. \A v \in Writer : Untouched(v) BY DEF Untouched, IInv, TypeOK
<1> QED BY <1>1, <1>2, <1>3, EnvironmentKeeps

(* WriteBack: the disk moves towards what memory holds.                     *)
LEMMA WriteBackKeeps == ASSUME IInv, WriteBack PROVE IInv'
<1> USE DEF WriteBack, env
<1>1. TypeOK' BY DEF IInv, TypeOK
<1>2. DiskFollows' BY DEF IInv, DiskFollows, TypeOK
<1>3. LinkedIsFull' BY DEF IInv, LinkedIsFull, TypeOK
<1>4. \A v \in Writer : Untouched(v) BY ImmutableFileAssumption DEF Untouched, IInv, TypeOK
<1> QED BY <1>1, <1>2, <1>3, <1>4, EnvironmentKeeps

(* Crash: what remains of the entries and contents was on the disk.         *)
LEMMA CrashKeeps == ASSUME IInv, Crash PROVE IInv'
<1> USE DEF Crash, env
<1>1. \A v \in Writer : /\ call[v].pc \in Running => call'[v] = [call[v] EXCEPT !.pc = "crashed"]
                        /\ call[v].pc \notin Running => call'[v] = call[v]
  BY DEF IInv, TypeOK
<1>2. ASSUME NEW v \in Writer PROVE call'[v] \in Call
  <2>1. call[v] \in Call /\ "crashed" \in Label BY DEF IInv, TypeOK, Label
  <2>2. [call[v] EXCEPT !.pc = "crashed"] \in Call BY <2>1 DEF Call
  <2> QED BY <1>1, <2>1, <2>2
<1>3. call' \in [Writer -> Call] BY <1>2
<1>4. TypeOK' BY <1>3 DEF IInv, TypeOK
<1>5. DiskFollows' /\ LinkedIsFull' BY DEF IInv, DiskFollows, LinkedIsFull
<1>6. ASSUME NEW v \in Writer PROVE CallInv(v)'
  <2>1. CallInv(v) /\ DiskFollows /\ Dest[v] \in Name /\ v # None /\ call[v] \in Call
    BY ImmutableFileAssumption DEF IInv, TypeOK
  <2>2. CASE call[v].pc \in Running
    <3>1. call'[v].pc = "crashed" BY <1>1, <2>1, <2>2 DEF Call
    <3> QED BY <3>1 DEF CallInv, BeforeLink, ContentReady, AfterLink, TempTracked,
                        CleanupHasCause, Succeeded, Residue, Returned, At
  <2>3. CASE call[v].pc \notin Running
    <3>1. call'[v] = call[v] BY <1>1, <2>3
    <3>2. BeforeLink(v)' BY <2>1, <3>1 DEF CallInv, BeforeLink, DiskFollows
    <3>3. (ContentReady(v) /\ AfterLink(v) /\ CleanupHasCause(v))'
      BY <2>3, <3>1 DEF Running, ContentReady, AfterLink, CleanupHasCause, At
    <3>4. TempTracked(v)' BY <2>1, <2>3, <3>1 DEF CallInv, TempTracked, Running, At
    <3>5. (Succeeded(v) => Durable(v))' BY <2>1, <3>1 DEF CallInv, Succeeded, Returned, At, Durable
    <3>6. (Residue(v) => call[v].stage \in {"remove-temp", "sync-cleanup"})'
      BY <2>1, <3>1 DEF CallInv, Residue, Returned, At
    <3> QED BY <3>2, <3>3, <3>4, <3>5, <3>6 DEF CallInv
  <2> QED BY <2>2, <2>3
<1> QED BY <1>4, <1>5, <1>6 DEF IInv

------------------------------------------------------------------------------
(* The theorems.                                                           *)

LEMMA InitIInv == Init => IInv
<1> SUFFICES ASSUME Init PROVE IInv OBVIOUS
<1> USE ImmutableFileAssumption DEF Init
<1>1. TypeOK BY DEF TypeOK, Call, Label, Stage, Content
<1>2. DiskFollows /\ LinkedIsFull BY DEF DiskFollows, LinkedIsFull
<1>3. \A w \in Writer : CallInv(w)
  BY DEF CallInv, BeforeLink, ContentReady, AfterLink, TempTracked, CleanupHasCause,
         Succeeded, Residue, Returned, At
<1> QED BY <1>1, <1>2, <1>3 DEF IInv

(* A step that changes nothing preserves the invariant.                     *)
LEMMA StutterIInv == IInv /\ UNCHANGED vars => IInv'
<1> SUFFICES ASSUME IInv, UNCHANGED vars PROVE IInv' OBVIOUS
<1> USE DEF vars
<1>1. TypeOK' BY DEF IInv, TypeOK
<1>2. DiskFollows' /\ LinkedIsFull' BY DEF IInv, DiskFollows, LinkedIsFull
<1>3. \A v \in Writer : Untouched(v) BY DEF Untouched
<1> QED BY <1>1, <1>2, <1>3, EnvironmentKeeps

(* Every step preserves the invariant.                                      *)
LEMMA NextIInv == IInv /\ [Next]_vars => IInv'
<1> SUFFICES ASSUME IInv, [Next]_vars PROVE IInv' OBVIOUS
<1>1. ASSUME NEW w \in Writer, Step(w) PROVE IInv'
  BY <1>1, BeginKeeps, CreateTempKeeps, SetModeKeeps, WriteKeeps, SyncFileKeeps, CloseFileKeeps,
     InstallKeeps, SyncInstallKeeps, RemoveTempKeeps, SyncCleanupKeeps, CleanupRemoveKeeps,
     CleanupSyncKeeps DEF Step
<1> QED BY <1>1, CancelKeeps, SweepKeeps, SwapParentKeeps, WriteBackKeeps, CrashKeeps, StutterIInv
        DEF Next

(* The invariant that carries the safety theorems.                         *)
THEOREM Invariance == Spec => []IInv
BY InitIInv, NextIInv, PTL DEF Spec

(* The state keeps its type: in particular the cleanup never makes more    *)
(* attempts than it has left.                                              *)
THEOREM TypeCorrect == Spec => []TypeOK
<1>1. IInv => TypeOK BY DEF IInv
<1> QED BY <1>1, Invariance, PTL

(* For any number of calls, names and threats: a call that reported        *)
(* success left its whole file, durably, under its name.                   *)
THEOREM SuccessDurable == Spec => []SuccessIsDurable
<1>1. IInv => SuccessIsDurable BY DEF IInv, CallInv, SuccessIsDurable
<1> QED BY <1>1, Invariance, PTL

(* No reader ever finds a part of a file under a final name.               *)
THEOREM NoPartialFile == Spec => []NeverPartial
<1>1. IInv => NeverPartial BY DEF IInv, LinkedIsFull, NeverPartial
<1> QED BY <1>1, Invariance, PTL

(* A temporary file outlives its call only where the error's stage says so. *)
THEOREM ResidueReported == Spec => []ResidueIsReported
<1>1. IInv => ResidueIsReported BY DEF IInv, CallInv, ResidueIsReported
<1> QED BY <1>1, Invariance, PTL

------------------------------------------------------------------------------
(* The calls implement the write-once register.                            *)

LEMMA StepMovesOneCall ==
  ASSUME NEW w \in Writer, call \in [Writer -> Call], Step(w)
  PROVE  OthersStay(w) /\ ~Returned(w)
<1> USE DEF Goto, CleanupAfter, FailBeforeInstall, ReturnWith, RefuseWith, InstalledWith,
            OthersStay, Returned, At
<1>1. CASE Begin(w) BY <1>1 DEF Begin
<1>2. CASE CreateTemp(w) BY <1>2 DEF CreateTemp
<1>3. CASE SetMode(w) BY <1>3 DEF SetMode
<1>4. CASE Write(w) BY <1>4 DEF Write
<1>5. CASE SyncFile(w) BY <1>5 DEF SyncFile
<1>6. CASE CloseFile(w) BY <1>6 DEF CloseFile
<1>7. CASE Install(w) BY <1>7 DEF Install, Linked, NotLinked
<1>8. CASE SyncInstall(w) BY <1>8 DEF SyncInstall
<1>9. CASE RemoveTemp(w) BY <1>9 DEF RemoveTemp
<1>10. CASE SyncCleanup(w) BY <1>10 DEF SyncCleanup
<1>11. CASE CleanupRemove(w) BY <1>11 DEF CleanupRemove
<1>12. CASE CleanupSync(w) BY <1>12 DEF CleanupSync
<1> QED BY <1>1, <1>2, <1>3, <1>4, <1>5, <1>6, <1>7, <1>8, <1>9, <1>10, <1>11, <1>12 DEF Step

LEMMA StepTarget ==
  ASSUME NEW w \in Writer, Step(w)
  PROVE  \/ UNCHANGED target
         \/ /\ At(w, "install") /\ target[Dest[w]] = None
            /\ target' = [target EXCEPT ![Dest[w]] = w]
            /\ \/ InstalledWith(w, {}) \/ InstalledWith(w, {"io"}) \/ InstalledWith(w, {"unsafe"})
               \/ CleanupAfter(w, "install", {"io", "unsafe"}, 2)
BY DEF Step, Begin, CreateTemp, SetMode, Write, SyncFile, CloseFile, Install, Linked, NotLinked,
       LinkAllowed, SyncInstall, RemoveTemp, SyncCleanup, CleanupRemove, CleanupSync,
       SyncDirectory, fs

Confirmed == {w \in Writer : Succeeded(w)}

LEMMA RegisterStep ==
  ASSUME NEW w \in Writer, IInv, IInv', Step(w)
  PROVE  Register!Appear(w) \/ Register!Confirm(w) \/ UNCHANGED <<target, Confirmed>>
<1> USE DEF Confirmed, Succeeded
<1>1. OthersStay(w) /\ ~Returned(w) /\ call \in [Writer -> Call] BY StepMovesOneCall DEF IInv, TypeOK
<1>2. ASSUME NEW v \in Writer, v # w PROVE Succeeded(v)' <=> Succeeded(v)
  BY <1>1, <1>2 DEF OthersStay, Returned, At
<1>3. CASE UNCHANGED target
  <2>1. CASE Succeeded(w)'
    <3>1. target[Dest[w]] = w BY <1>3, <2>1 DEF IInv, CallInv, Durable
    <3>2. Confirmed' = Confirmed \cup {w} BY <1>1, <1>2, <2>1
    <3> QED BY <1>3, <3>1, <3>2 DEF Register!Confirm
  <2>2. CASE ~Succeeded(w)'
    <3>1. Confirmed' = Confirmed BY <1>1, <1>2, <2>2
    <3> QED BY <1>3, <3>1
  <2> QED BY <2>1, <2>2
<1>4. CASE /\ target[Dest[w]] = None /\ target' = [target EXCEPT ![Dest[w]] = w]
           /\ \/ InstalledWith(w, {}) \/ InstalledWith(w, {"io"}) \/ InstalledWith(w, {"unsafe"})
              \/ CleanupAfter(w, "install", {"io", "unsafe"}, 2)
  <2>1. call'[w].pc # "returned"
    <3>1. CASE CleanupAfter(w, "install", {"io", "unsafe"}, 2)
      BY <1>1, <3>1, CleanupCall DEF Stage, Cause
    <3>2. CASE InstalledWith(w, {}) \/ InstalledWith(w, {"io"}) \/ InstalledWith(w, {"unsafe"})
      BY <1>1, <3>2, InstalledCall DEF Cause
    <3> QED BY <1>4, <3>1, <3>2
  <2>2. Confirmed' = Confirmed BY <1>1, <1>2, <2>1 DEF Returned, At
  <2> QED BY <1>4, <2>2 DEF Register!Appear
<1> QED BY <1>3, <1>4, StepTarget

LEMMA RegisterCrash ==
  ASSUME IInv, Crash
  PROVE  Register!Lose({n \in Name : targetDisk[n] = None})
<1> DEFINE lost == {n \in Name : targetDisk[n] = None}
<1>1. ASSUME NEW w \in Writer PROVE Succeeded(w)' <=> Succeeded(w)
  <2>1. CASE call[w].pc \in Running
    <3>1. call[w] \in Call /\ call'[w] = [call[w] EXCEPT !.pc = "crashed"]
      BY <2>1 DEF IInv, TypeOK, Crash
    <3>2. call'[w].pc = "crashed" BY <3>1 DEF Call
    <3> QED BY <2>1, <3>2 DEF Succeeded, Returned, At, Running
  <2>2. CASE call[w].pc \notin Running
    BY <2>2 DEF IInv, TypeOK, Crash, Succeeded, Returned, At
  <2> QED BY <2>1, <2>2
<1>2. Confirmed' = Confirmed BY <1>1 DEF Confirmed
<1>3. ASSUME NEW w \in Confirmed PROVE Dest[w] \notin lost
  <2>1. w \in Writer /\ Succeeded(w) /\ w # None BY ImmutableFileAssumption DEF Confirmed
  <2>2. targetDisk[Dest[w]] = w BY <2>1 DEF IInv, CallInv, Durable
  <2> QED BY <2>1, <2>2
<1>4. target' = [n \in Name |-> IF n \in lost THEN None ELSE target[n]]
  BY DEF Crash, IInv, TypeOK, DiskFollows
<1> QED BY <1>2, <1>3, <1>4 DEF Register!Lose, Confirmed

LEMMA RegisterNext == IInv /\ IInv' /\ [Next]_vars => [Register!Next]_(Register!vars)
<1> SUFFICES ASSUME IInv, IInv', [Next]_vars PROVE Register!Next \/ UNCHANGED <<target, Confirmed>>
  BY DEF Register!vars, Confirmed
<1>1. CASE \E w \in Writer : Step(w)
  BY <1>1, RegisterStep DEF Register!Next
<1>2. CASE Crash
  BY <1>2, RegisterCrash DEF Register!Next
<1>3. CASE \/ \E w \in Writer : Cancel(w) \/ Sweep(w)
           \/ SwapParent \/ WriteBack \/ UNCHANGED vars
  BY <1>3 DEF Cancel, Sweep, SwapParent, WriteBack, vars, fs, env, Confirmed, Succeeded, Returned, At
<1> QED BY <1>1, <1>2, <1>3 DEF Next

(* Concurrent calls on any number of names, with crashes and failures,     *)
(* behave as registers that are written once: a file that stands is never  *)
(* replaced, and one whose writer was told of success is never lost.       *)
THEOREM ImplementsRegister == Spec => RegisterSpec
<1>1. Init => Register!Init
  BY DEF Init, Register!Init, Succeeded, Returned, At
<1> QED BY <1>1, Invariance, RegisterNext, PTL DEF Spec, RegisterSpec, Register!Spec
------------------------------------------------------------------------------
(* What a call knows of its link.                                          *)

BeforeLinkAt == {"idle", "create-temp", "set-mode", "write", "sync-file", "close-file", "install"}
AfterLinkAt  == {"sync-install", "remove-temp", "sync-cleanup"}

Knows(w) == KnowsItsLink(w) /\ MetAnother(w)

(* Before it fails no call has met another's file; and it has no file of   *)
(* its own at the name before it links it.                                 *)
LEMMA KnownBefore ==
  ASSUME NEW w \in Writer, IInv, Knows(w), call[w].pc \in BeforeLinkAt \cup AfterLinkAt
  PROVE  /\ "exists" \notin call[w].causes
         /\ call[w].pc \in BeforeLinkAt => target[Dest[w]] # w /\ ~call[w].installed
         /\ call[w].pc \in AfterLinkAt => target[Dest[w]] = w /\ call[w].installed
<1>1. CallInv(w) BY DEF IInv
<1>2. AfterLinkAt \subseteq Running BY DEF AfterLinkAt, Running
<1> QED BY <1>1, <1>2 DEF Knows, KnowsItsLink, MetAnother, CallInv, BeforeLink, BeforeLinkAt,
                          AfterLinkAt

(* A step to the next call into the file system.                           *)
LEMMA GotoKnows ==
  ASSUME NEW w \in Writer, IInv, Knows(w), NEW l, UNCHANGED target, Goto(w, l),
         \/ call[w].pc \in BeforeLinkAt /\ l \in BeforeLinkAt
         \/ call[w].pc \in AfterLinkAt /\ l \in AfterLinkAt
         \/ call[w].pc = "cleanup" /\ l = "cleanup-sync"
  PROVE  Knows(w)'
<1>1. l \in Label /\ call \in [Writer -> Call]
  BY DEF IInv, TypeOK, Label, Running, BeforeLinkAt, AfterLinkAt
<1>2. /\ call'[w].pc = l /\ call'[w].stage = call[w].stage
      /\ call'[w].causes = call[w].causes /\ call'[w].installed = call[w].installed
  BY <1>1, GotoCall
<1>3. CASE call[w].pc \in BeforeLinkAt /\ l \in BeforeLinkAt
  BY <1>2, <1>3, KnownBefore
  DEF Knows, KnowsItsLink, MetAnother, BeforeLinkAt
<1>4. CASE call[w].pc \in AfterLinkAt /\ l \in AfterLinkAt
  BY <1>2, <1>4, KnownBefore
  DEF Knows, KnowsItsLink, MetAnother, AfterLinkAt
<1>5. CASE call[w].pc = "cleanup" /\ l = "cleanup-sync"
  BY <1>2, <1>5 DEF Knows, KnowsItsLink, MetAnother, Running
<1> QED BY <1>3, <1>4, <1>5

(* A failure: one that says another's file is there has just seen it.      *)
LEMMA FailureKnows ==
  ASSUME NEW w \in Writer, IInv, Knows(w), UNCHANGED target,
         call[w].pc \in BeforeLinkAt \cup AfterLinkAt,
         NEW stage \in Stage, NEW causes \in SUBSET Cause, NEW tries \in 1 .. 2,
         CleanupAfter(w, stage, causes, tries),
         "exists" \in causes =>
           call[w].pc \in BeforeLinkAt /\ target[Dest[w]] # None /\ stage = "install"
  PROVE  Knows(w)'
<1>1. /\ call'[w].pc = "cleanup" /\ call'[w].stage = stage
      /\ call'[w].causes = call[w].causes \cup causes /\ call'[w].installed = call[w].installed
  BY CleanupCall DEF IInv, TypeOK
<1>2. /\ call[w].pc \in BeforeLinkAt => target[Dest[w]] # w /\ ~call[w].installed
      /\ call[w].pc \in AfterLinkAt => target[Dest[w]] = w /\ call[w].installed
      /\ "exists" \notin call[w].causes
  BY KnownBefore
<1> QED BY <1>1, <1>2 DEF Knows, KnowsItsLink, MetAnother

(* A failure before the link, which closes the temporary file first.       *)
LEMMA FailBeforeInstallKnows ==
  ASSUME NEW w \in Writer, IInv, Knows(w), UNCHANGED target, call[w].pc \in BeforeLinkAt,
         NEW stage \in Stage, NEW causes \in SUBSET Cause, "exists" \notin causes,
         FailBeforeInstall(w, stage, causes)
  PROVE  Knows(w)'
<1>1. 2 \in 1 .. 2 /\ "close-file" \in Stage /\ causes \cup {"io"} \in SUBSET Cause
  BY DEF Stage, Cause
<1>2. CASE CleanupAfter(w, stage, causes, 2) BY <1>1, <1>2, FailureKnows
<1>3. CASE CleanupAfter(w, "close-file", causes \cup {"io"}, 2) BY <1>1, <1>3, FailureKnows
<1> QED BY <1>2, <1>3 DEF FailBeforeInstall

(* A call that answers leaves what it says behind.                         *)
Answers(w) ==
  /\ UNCHANGED target
  /\ call[w].pc \in {"idle"} \cup Running /\ call'[w].pc = "returned"
  /\ call'[w].installed = call[w].installed /\ call[w].causes \subseteq call'[w].causes
  /\ "exists" \in call'[w].causes =>
       \/ "exists" \in call[w].causes
       \/ call[w].pc \in BeforeLinkAt /\ target[Dest[w]] # None
  /\ call'[w].causes = {"exists"} =>
       \/ call'[w].stage = "validate-path"
       \/ call[w].causes = {"exists"} /\ call'[w].stage = call[w].stage

(* What it says is so, and stays known.                                    *)
LEMMA AnswerKnows ==
  ASSUME NEW w \in Writer, IInv, Knows(w), Answers(w)
  PROVE  Knows(w)' /\ Truthful(w)
<1>1. call[w].pc \in BeforeLinkAt => target[Dest[w]] # w /\ ~call[w].installed
  BY KnownBefore
<1>2. "idle" \in BeforeLinkAt /\ "returned" \notin Running BY DEF BeforeLinkAt, Running
<1> QED BY <1>1, <1>2
        DEF Answers, Knows, KnowsItsLink, MetAnother, Truthful, AfterLinkAt

(* A refusal, or a failure before there is a file.                         *)
LEMMA ReturnAnswers ==
  ASSUME NEW w \in Writer, IInv, UNCHANGED target,
         NEW stage \in Stage, NEW causes \in SUBSET Cause, ReturnWith(w, stage, causes),
         call[w].pc \in {"idle"} \cup Running, call[w].causes \subseteq causes,
         "exists" \in causes =>
           \/ "exists" \in call[w].causes
           \/ call[w].pc \in BeforeLinkAt /\ target[Dest[w]] # None,
         causes = {"exists"} =>
           stage = "validate-path" \/ (call[w].causes = {"exists"} /\ stage = call[w].stage)
  PROVE  Answers(w)
<1>1. /\ call'[w].pc = "returned" /\ causes \subseteq call'[w].causes
      /\ call'[w].causes \subseteq causes \cup {"io"}
      /\ call'[w].stage = stage \/ (causes = {} /\ call'[w].stage = "close-directory")
      /\ call'[w].installed = call[w].installed
  BY ReturnCall DEF IInv, TypeOK
<1>2. "exists" \in call'[w].causes => "exists" \in causes BY <1>1
<1>3. call'[w].causes = {"exists"} => causes = {"exists"} BY <1>1, <1>2
<1> QED BY <1>1, <1>2, <1>3 DEF Answers

(* Every step of a call keeps its knowledge, and if it is the last one,    *)
(* what it says is so.                                                     *)
TellsTruth(w) == Knows(w)' /\ (Returned(w)' => Truthful(w))

(* A step that does not return tells nothing.                              *)
LEMMA GoesOnTells ==
  ASSUME NEW w \in Writer, Knows(w)', call'[w].pc # "returned"
  PROVE  TellsTruth(w)
BY DEF TellsTruth, Returned, At

LEMMA BeginTells == ASSUME NEW w \in Writer, IInv, Knows(w), Begin(w) PROVE TellsTruth(w)
<1>1. /\ call \in [Writer -> Call] /\ call[w].pc = "idle" /\ UNCHANGED target
      /\ call[w].pc \in BeforeLinkAt
  BY DEF IInv, TypeOK, Begin, At, fs, BeforeLinkAt
<1>2. call[w].causes = {} BY <1>1 DEF Knows, KnowsItsLink
<1>3. CASE \E causes \in {{"cancelled"}, {"unsafe"}} : RefuseWith(w, causes)
  <2>1. PICK causes \in {{"cancelled"}, {"unsafe"}} : RefuseWith(w, causes) BY <1>3
  <2>2. causes \in SUBSET Cause /\ "exists" \notin causes BY DEF Cause
  <2>3. /\ call'[w].pc = "returned" /\ call'[w].causes = causes
        /\ call'[w].installed = call[w].installed
    BY <1>1, <2>1, <2>2, RefuseCall
  <2>4. Answers(w) BY <1>1, <1>2, <2>2, <2>3 DEF Answers
  <2> QED BY <2>4, AnswerKnows DEF TellsTruth
<1>4. CASE \E causes \in {{"exists"}, {"unsafe"}} :
             /\ ReturnWith(w, "validate-path", causes)
             /\ causes = {"exists"} => target[Dest[w]] # None
  <2>1. PICK causes \in {{"exists"}, {"unsafe"}} :
          /\ ReturnWith(w, "validate-path", causes)
          /\ causes = {"exists"} => target[Dest[w]] # None
    BY <1>4
  <2>2. causes \in SUBSET Cause /\ "validate-path" \in Stage BY DEF Cause, Stage
  <2>3. Answers(w) BY <1>1, <1>2, <2>1, <2>2, ReturnAnswers
  <2> QED BY <2>3, AnswerKnows DEF TellsTruth
<1>5. CASE Goto(w, "create-temp")
  <2>1. Knows(w)' BY <1>1, <1>5, GotoKnows DEF BeforeLinkAt
  <2>2. call'[w].pc = "create-temp" BY <1>1, <1>5, GotoCall DEF Label, Running
  <2> QED BY <2>1, <2>2, GoesOnTells
<1> QED BY <1>3, <1>4, <1>5 DEF Begin

LEMMA CreateTempTells == ASSUME NEW w \in Writer, IInv, Knows(w), CreateTemp(w) PROVE TellsTruth(w)
<1>1. /\ call \in [Writer -> Call] /\ call[w].pc = "create-temp" /\ UNCHANGED target
      /\ call[w].pc \in BeforeLinkAt \cap Running
  BY DEF IInv, TypeOK, CreateTemp, At, BeforeLinkAt, Running
<1>2. call[w].causes = {} BY <1>1 DEF Knows, KnowsItsLink
<1>3. CASE ReturnWith(w, "create-temp", {"io"})
  <2>1. {"io"} \in SUBSET Cause /\ "create-temp" \in Stage BY DEF Cause, Stage
  <2>2. Answers(w) BY <1>1, <1>2, <1>3, <2>1, ReturnAnswers
  <2> QED BY <2>2, AnswerKnows DEF TellsTruth
<1>4. CASE Goto(w, "set-mode")
  <2>1. Knows(w)' BY <1>1, <1>4, GotoKnows DEF BeforeLinkAt
  <2>2. call'[w].pc = "set-mode" BY <1>1, <1>4, GotoCall DEF Label, Running
  <2> QED BY <2>1, <2>2, GoesOnTells
<1> QED BY <1>3, <1>4 DEF CreateTemp

(* Whatever fails before the link, or goes on to the next call, returns    *)
(* nothing yet.                                                            *)
LEMMA PreparationTells ==
  ASSUME NEW w \in Writer, IInv, Knows(w), SetMode(w) \/ Write(w) \/ SyncFile(w) \/ CloseFile(w)
  PROVE  TellsTruth(w)
<1>1. /\ call \in [Writer -> Call] /\ UNCHANGED target /\ call[w].pc \in BeforeLinkAt
  BY DEF IInv, TypeOK, SetMode, Write, SyncFile, CloseFile, At, BeforeLinkAt, fs
<1>2. /\ {"set-mode", "write", "short-write", "sync-file", "install", "close-file"} \subseteq Stage
      /\ \A cause \in {"io", "unsafe", "cancelled"} : {cause} \in SUBSET Cause
      /\ 2 \in 1 .. 2
  BY DEF Stage, Cause
<1>3. CASE \E stage \in Stage, cause \in {"io", "unsafe", "cancelled"} :
             FailBeforeInstall(w, stage, {cause}) \/ CleanupAfter(w, stage, {cause}, 2)
  <2>1. PICK stage \in Stage, cause \in {"io", "unsafe", "cancelled"} :
          FailBeforeInstall(w, stage, {cause}) \/ CleanupAfter(w, stage, {cause}, 2)
    BY <1>3
  <2>2. Knows(w)' BY <1>1, <1>2, <2>1, FailBeforeInstallKnows, FailureKnows
  <2>3. call'[w].pc = "cleanup"
    BY <1>1, <1>2, <2>1, CleanupCall, FailBeforeInstallCleans DEF CleansUp
  <2> QED BY <2>2, <2>3, GoesOnTells
<1>4. CASE \E l \in {"write", "sync-file", "close-file", "install"} : Goto(w, l)
  <2>1. PICK l \in {"write", "sync-file", "close-file", "install"} : Goto(w, l) BY <1>4
  <2>2. Knows(w)' BY <1>1, <2>1, GotoKnows DEF BeforeLinkAt
  <2>3. call'[w].pc = l BY <1>1, <2>1, GotoCall DEF Label, Running
  <2> QED BY <2>1, <2>2, <2>3, GoesOnTells
<1>5. CASE SetMode(w) BY <1>2, <1>3, <1>4, <1>5 DEF SetMode
<1>6. CASE Write(w) BY <1>2, <1>3, <1>4, <1>6 DEF Write
<1>7. CASE SyncFile(w) BY <1>2, <1>3, <1>4, <1>7 DEF SyncFile
<1>8. CASE CloseFile(w) BY <1>2, <1>3, <1>4, <1>8 DEF CloseFile
<1> QED BY <1>5, <1>6, <1>7, <1>8

(* A call that finds the name taken has not linked; one whose link was     *)
(* made knows, or could not look.                                          *)
LEMMA InstallTells == ASSUME NEW w \in Writer, IInv, Knows(w), Install(w) PROVE TellsTruth(w)
<1>1. /\ call \in [Writer -> Call] /\ call[w].pc = "install" /\ call[w].pc \in BeforeLinkAt
      /\ Dest[w] \in Name /\ target \in [Name -> Writer \cup {None}]
  BY ImmutableFileAssumption DEF IInv, TypeOK, Install, At, BeforeLinkAt
<1>2. call[w].causes = {} /\ ~call[w].installed /\ target[Dest[w]] # w
  BY <1>1, KnownBefore DEF Knows, KnowsItsLink
<1>3. "install" \in Stage /\ 2 \in 1 .. 2 BY DEF Stage
<1>4. ASSUME UNCHANGED target, NEW causes \in SUBSET Cause, CleanupAfter(w, "install", causes, 2),
             "exists" \in causes => target[Dest[w]] # None
      PROVE  TellsTruth(w)
  <2>1. Knows(w)' BY <1>1, <1>3, <1>4, FailureKnows
  <2>2. call'[w].pc = "cleanup" BY <1>1, <1>3, <1>4, CleanupCall
  <2> QED BY <2>1, <2>2, GoesOnTells
<1>5. ASSUME Linked(w) PROVE TellsTruth(w)
  <2>1. target'[Dest[w]] = w BY <1>1, <1>5 DEF Linked
  <2>2. CASE \E causes \in {{}, {"io"}, {"unsafe"}} : InstalledWith(w, causes)
    <3>1. PICK causes \in {{}, {"io"}, {"unsafe"}} : InstalledWith(w, causes) BY <2>2
    <3>2. causes \in SUBSET Cause /\ "exists" \notin causes BY DEF Cause
    <3>3. call'[w].pc = "sync-install" /\ call'[w].installed /\ call'[w].causes = causes
      BY <1>1, <1>2, <3>1, <3>2, InstalledCall
    <3>4. Knows(w)' BY <2>1, <3>2, <3>3 DEF Knows, KnowsItsLink, MetAnother, Running
    <3> QED BY <3>3, <3>4, GoesOnTells
  <2>3. CASE CleanupAfter(w, "install", {"io", "unsafe"}, 2)
    <3>1. {"io", "unsafe"} \in SUBSET Cause BY DEF Cause
    <3>2. /\ call'[w].pc = "cleanup" /\ ~call'[w].installed /\ call'[w].causes = {"io", "unsafe"}
      BY <1>1, <1>2, <1>3, <2>3, <3>1, CleanupCall
    <3>3. Knows(w)' BY <3>2 DEF Knows, KnowsItsLink, MetAnother, Running
    <3> QED BY <3>2, <3>3, GoesOnTells
  <2> QED BY <1>5, <2>2, <2>3 DEF Linked
<1>6. ASSUME NotLinked(w) PROVE TellsTruth(w)
  <2>1. PICK causes \in {{"exists"}, {"exists", "unsafe"}, {"io"}, {"io", "unsafe"}} :
          /\ CleanupAfter(w, "install", causes, 2)
          /\ "exists" \in causes => ~LinkAllowed(w)
    BY <1>6 DEF NotLinked
  <2>2. causes \in SUBSET Cause BY DEF Cause
  <2> QED BY <1>4, <1>6, <2>1, <2>2 DEF NotLinked, LinkAllowed
<1>7. {"cancelled"} \in SUBSET Cause /\ {"unsafe"} \in SUBSET Cause BY DEF Cause
<1> QED BY <1>4, <1>5, <1>6, <1>7 DEF Install

(* After the link a failure, a retry of the removal or the next call.      *)
LEMMA CleaningTells ==
  ASSUME NEW w \in Writer, IInv, Knows(w), SyncInstall(w) \/ RemoveTemp(w) \/ CleanupRemove(w)
  PROVE  TellsTruth(w)
<1>1. /\ call \in [Writer -> Call] /\ UNCHANGED target
      /\ call[w].pc \in {"sync-install", "remove-temp", "cleanup"}
  BY DEF IInv, TypeOK, SyncInstall, RemoveTemp, CleanupRemove, SyncDirectory, At, fs
<1>2. ASSUME call[w].pc \in AfterLinkAt,
             \E stage \in {"sync-install", "remove-temp"}, cause \in {"io", "unsafe", "cancelled"},
                tries \in 1 .. 2 : CleanupAfter(w, stage, {cause}, tries)
      PROVE  TellsTruth(w)
  <2>1. PICK stage \in {"sync-install", "remove-temp"}, cause \in {"io", "unsafe", "cancelled"},
             tries \in 1 .. 2 : CleanupAfter(w, stage, {cause}, tries)
    BY <1>2
  <2>2. stage \in Stage /\ {cause} \in SUBSET Cause /\ "exists" \notin {cause} BY DEF Stage, Cause
  <2>3. Knows(w)' BY <1>1, <1>2, <2>1, <2>2, FailureKnows
  <2>4. call'[w].pc = "cleanup" BY <1>1, <2>1, <2>2, CleanupCall
  <2> QED BY <2>3, <2>4, GoesOnTells
<1>3. ASSUME NEW l \in {"remove-temp", "sync-cleanup", "cleanup-sync"}, Goto(w, l),
             call[w].pc = "cleanup" <=> l = "cleanup-sync"
      PROVE  TellsTruth(w)
  <2>1. Knows(w)' BY <1>1, <1>3, GotoKnows DEF AfterLinkAt
  <2>2. call'[w].pc = l BY <1>1, <1>3, GotoCall DEF Label, Running
  <2> QED BY <2>1, <2>2, GoesOnTells
<1>4. CASE SyncInstall(w)
  <2>1. call[w].pc = "sync-install" /\ 2 \in 1 .. 2 BY <1>4 DEF SyncInstall, At
  <2> QED BY <1>2, <1>3, <1>4, <2>1 DEF SyncInstall, AfterLinkAt
<1>5. CASE RemoveTemp(w)
  <2>1. call[w].pc = "remove-temp" /\ 1 \in 1 .. 2 BY <1>5 DEF RemoveTemp, At
  <2> QED BY <1>2, <1>3, <1>5, <2>1 DEF RemoveTemp, AfterLinkAt
<1>6. CASE CleanupRemove(w)
  <2>1. call[w].pc = "cleanup" /\ call[w].pc \in Running BY <1>6 DEF CleanupRemove, At, Running
  <2>2. CASE Goto(w, "cleanup-sync") BY <1>3, <2>1, <2>2
  <2>3. CASE call' = [call EXCEPT ![w] = RemovalFailed(call[w])]
    <3>1. call[w].tries \in 1 .. 2 BY <1>1, <2>1 DEF IInv, CallInv, CleanupHasCause, At, Call
    <3>2. /\ call'[w].pc \in {"cleanup", "cleanup-sync"} /\ call'[w].installed = call[w].installed
          /\ call'[w].causes = call[w].causes \cup {"io"}
      BY <1>1, <2>3, <3>1, RemovalCall
    <3>3. Knows(w)' BY <1>1, <2>1, <3>2 DEF Knows, KnowsItsLink, MetAnother
    <3> QED BY <3>2, <3>3, GoesOnTells
  <2> QED BY <1>6, <2>2, <2>3 DEF CleanupRemove
<1> QED BY <1>4, <1>5, <1>6

(* The end of a call that linked its file.                                 *)
LEMMA SyncCleanupTells ==
  ASSUME NEW w \in Writer, IInv, Knows(w), SyncCleanup(w) PROVE TellsTruth(w)
<1>1. /\ call \in [Writer -> Call] /\ UNCHANGED target /\ call[w].pc \in AfterLinkAt \cap Running
      /\ call[w].causes \in SUBSET Cause
  BY DEF IInv, TypeOK, SyncCleanup, SyncDirectory, At, AfterLinkAt, Running, fs, Call
<1>2. "exists" \notin call[w].causes BY <1>1, KnownBefore
<1>3. ASSUME NEW stage \in Stage, NEW more \in SUBSET {"cancelled", "unsafe", "io"},
             ReturnWith(w, stage, call[w].causes \cup more)
      PROVE  TellsTruth(w)
  <2>1. call[w].causes \cup more \in SUBSET Cause BY <1>1 DEF Cause
  <2>2. "exists" \notin call[w].causes \cup more BY <1>2
  <2>3. Answers(w) BY <1>1, <1>3, <2>1, <2>2, ReturnAnswers
  <2> QED BY <2>3, AnswerKnows DEF TellsTruth
<1>4. LastCheck(w) \in SUBSET {"cancelled", "unsafe", "io"} BY DEF LastCheck
<1>5. CASE ReturnWith(w, "sync-cleanup", call[w].causes \cup LastCheck(w) \cup {"io"})
  <2>1. call[w].causes \cup LastCheck(w) \cup {"io"} = call[w].causes \cup (LastCheck(w) \cup {"io"})
    OBVIOUS
  <2>2. LastCheck(w) \cup {"io"} \in SUBSET {"cancelled", "unsafe", "io"} BY <1>4
  <2> QED BY <1>3, <1>5, <2>1, <2>2 DEF Stage
<1>6. ASSUME NEW late \in {{}} \cup (IF IOFault THEN {{"unsafe"}} ELSE {}),
             ReturnWith(w,
                        CASE LastCheck(w) \cup late # {} -> "sync-cleanup"
                          [] LastCheck(w) \cup late = {} /\ call[w].causes # {} -> "install"
                          [] OTHER -> "none",
                        call[w].causes \cup (LastCheck(w) \cup late))
      PROVE  TellsTruth(w)
  <2> DEFINE completion == LastCheck(w) \cup late
             stage == CASE completion # {} -> "sync-cleanup"
                        [] completion = {} /\ call[w].causes # {} -> "install"
                        [] OTHER -> "none"
  <2>1. completion \in SUBSET {"cancelled", "unsafe", "io"} BY <1>4
  <2>2. stage \in Stage
    <3> HIDE DEF completion
    <3> QED BY DEF Stage
  <2>3. ReturnWith(w, stage, call[w].causes \cup completion) BY <1>6
  <2> HIDE DEF stage, completion
  <2> QED BY <1>3, <2>1, <2>2, <2>3
<1> QED BY <1>5, <1>6 DEF SyncCleanup

(* The end of a call that failed: a removal or a sync that fails joins in. *)
LEMMA CleanupSyncTells ==
  ASSUME NEW w \in Writer, IInv, Knows(w), CleanupSync(w) PROVE TellsTruth(w)
<1>1. /\ call \in [Writer -> Call] /\ UNCHANGED target /\ call[w].pc \in Running
      /\ call[w].causes \in SUBSET Cause /\ call[w].stage \in Stage
  BY DEF IInv, TypeOK, CleanupSync, SyncDirectory, At, Running, fs, Call
<1>2. CASE ReturnWith(w, call[w].stage, call[w].causes)
  <2>1. Answers(w) BY <1>1, <1>2, ReturnAnswers
  <2> QED BY <2>1, AnswerKnows DEF TellsTruth
<1>3. CASE ReturnWith(w, "sync-cleanup", call[w].causes \cup {"io"})
  <2>1. call[w].causes \cup {"io"} \in SUBSET Cause /\ "sync-cleanup" \in Stage
    BY <1>1 DEF Cause, Stage
  <2>2. Answers(w) BY <1>1, <1>3, <2>1, ReturnAnswers
  <2> QED BY <2>2, AnswerKnows DEF TellsTruth
<1> QED BY <1>2, <1>3 DEF CleanupSync

LEMMA StepTells ==
  ASSUME NEW w \in Writer, IInv, Knows(w), Step(w) PROVE TellsTruth(w)
BY BeginTells, CreateTempTells, PreparationTells, InstallTells, CleaningTells, SyncCleanupTells,
   CleanupSyncTells DEF Step

(* A file at a name is there to stay while others go on.                   *)
LEMMA OthersKnow ==
  ASSUME IInv, NEW v \in Writer, Knows(v), call'[v] = call[v],
         \/ target'[Dest[v]] = target[Dest[v]]
         \/ target[Dest[v]] = None /\ target'[Dest[v]] # v
  PROVE  Knows(v)'
<1>1. v # None BY ImmutableFileAssumption
<1> QED BY <1>1 DEF Knows, KnowsItsLink, MetAnother

(* What each knows outlives every step.                                    *)
LEMMA LinkInvKept == IInv /\ LinkInv /\ [Next]_vars => LinkInv'
<1> SUFFICES ASSUME IInv, LinkInv, [Next]_vars, NEW v \in Writer PROVE Knows(v)'
  BY DEF LinkInv, Knows
<1>1. Knows(v) /\ Dest[v] \in Name /\ v # None BY ImmutableFileAssumption DEF LinkInv, Knows
<1>2. CASE Crash
  <2>1. call[v] \in Call /\ call'[v] = IF call[v].pc \in Running
                                      THEN [call[v] EXCEPT !.pc = "crashed"] ELSE call[v]
    BY <1>2 DEF Crash, IInv, TypeOK
  <2>2. /\ call'[v].causes = call[v].causes /\ call'[v].installed = call[v].installed
        /\ call'[v].stage = call[v].stage /\ call'[v].pc \notin Running
        /\ call'[v].pc \in {"crashed", call[v].pc}
    BY <2>1 DEF Call, Running
  <2>3. target'[Dest[v]] = v => target[Dest[v]] = v
    BY <1>1, <1>2 DEF Crash, IInv, DiskFollows
  <2>4. AfterLinkAt \subseteq Running BY DEF AfterLinkAt, Running
  <2> QED BY <1>1, <2>2, <2>3, <2>4 DEF Knows, KnowsItsLink, MetAnother, AfterLinkAt
<1>3. CASE UNCHANGED vars \/ (\E w \in Writer : Cancel(w) \/ Sweep(w)) \/ SwapParent \/ WriteBack
  <2>1. UNCHANGED <<target, call>> BY <1>3 DEF vars, Cancel, Sweep, SwapParent, WriteBack, fs
  <2> QED BY <1>1, <2>1, OthersKnow
<1>4. ASSUME NEW w \in Writer, Step(w) PROVE Knows(v)'
  <2>1. CASE w = v BY <1>1, <1>4, <2>1, StepTells DEF TellsTruth
  <2>2. CASE w # v
    <3>1. call'[v] = call[v] BY <1>4, <2>2, StepMovesOneCall DEF OthersStay, IInv, TypeOK
    <3>2. \/ UNCHANGED target
          \/ target[Dest[w]] = None /\ target' = [target EXCEPT ![Dest[w]] = w]
      BY <1>4, StepTarget
    <3>3. \/ target'[Dest[v]] = target[Dest[v]]
          \/ target[Dest[v]] = None /\ target'[Dest[v]] # v
      BY <1>1, <2>2, <3>2 DEF IInv, TypeOK
    <3> QED BY <1>1, <3>1, <3>3, OthersKnow
  <2> QED BY <2>1, <2>2
<1> QED BY <1>2, <1>3, <1>4 DEF Next

LEMMA LinkInvHolds == Spec => []LinkInv
<1>1. Init => LinkInv
  <2> SUFFICES ASSUME Init, NEW w \in Writer PROVE KnowsItsLink(w) /\ MetAnother(w)
    BY DEF LinkInv
  <2>1. /\ call[w].pc = "idle" /\ ~call[w].installed /\ call[w].causes = {}
        /\ call[w].pc \notin Running
    BY DEF Init, Running
  <2> QED BY <2>1 DEF KnowsItsLink, MetAnother
<1> QED BY <1>1, LinkInvKept, Invariance, PTL DEF Spec

(* What a call says when it returns is so at that moment, whatever failed, *)
(* was cancelled or replaced on the way.                                   *)
THEOREM ResultTruthful == Spec => ResultIsTruthful
<1>1. IInv /\ LinkInv /\ [Next]_vars =>
        [\A w \in Writer : ~Returned(w) /\ Returned(w)' => Truthful(w)]_vars
  <2> SUFFICES ASSUME IInv, LinkInv, Next, NEW w \in Writer, ~Returned(w), Returned(w)'
               PROVE  Truthful(w)
    OBVIOUS
  <2>1. Knows(w) BY DEF LinkInv, Knows
  <2>2. call'[w] # call[w] BY DEF Returned, At
  <2>3. CASE Crash
    <3>1. call[w] \in Call /\ call'[w] = [call[w] EXCEPT !.pc = "crashed"]
      BY <2>2, <2>3 DEF Crash, IInv, TypeOK
    <3>2. call'[w].pc = "crashed" BY <3>1 DEF Call
    <3> QED BY <3>2 DEF Returned, At
  <2>4. CASE (\E v \in Writer : Cancel(v) \/ Sweep(v)) \/ SwapParent \/ WriteBack
    BY <2>2, <2>4 DEF Cancel, Sweep, SwapParent, WriteBack
  <2>5. ASSUME NEW v \in Writer, Step(v) PROVE Truthful(w)
    <3>1. v = w BY <2>2, <2>5, StepMovesOneCall DEF OthersStay, IInv, TypeOK
    <3> QED BY <2>1, <2>5, <3>1, StepTells DEF TellsTruth
  <2> QED BY <2>3, <2>4, <2>5 DEF Next
<1> QED BY <1>1, Invariance, LinkInvHolds, PTL DEF Spec, ResultIsTruthful

------------------------------------------------------------------------------
(* What the caller makes of the error.                                     *)

(* Only a call that met nothing but another's file turns to the winner.    *)
LEMMA OutcomeOfCall ==
  ASSUME NEW c \in Call,
         c.causes = {"exists"} => ~c.installed /\ c.stage \in {"validate-path", "install"}
  PROVE  Outcome(c) = "audit the winner" <=> c.causes = {"exists"}
<1>1. CASE c.causes = {"exists"}
  <2>1. Classified(c) = {"pureSnapshotExists"} BY <1>1 DEF Classified, Analysis
  <2> QED BY <1>1, <2>1 DEF Outcome
<1>2. CASE c.causes # {"exists"}
  <2>1. CASE c.causes = {}
    <3>1. Classified(c) = {} BY <2>1 DEF Classified, Analysis
    <3> QED BY <1>2, <3>1 DEF Outcome
  <2>2. CASE "unsafe" \in c.causes
    <3>1. "ErrSnapshotUnsafePath" \in Classified(c) BY <2>2 DEF Classified, Analysis
    <3> QED BY <1>2, <3>1 DEF Outcome
  <2>3. CASE "unsafe" \notin c.causes /\ "exists" \in c.causes
    <3>1. c.causes \cap {"io", "cancelled"} # {} BY <1>2, <2>3 DEF Call, Cause
    <3>2. Classified(c) = {"ErrSnapshotExists", "ErrSnapshotIO"}
      BY <2>3, <3>1 DEF Classified, Analysis
    <3> QED BY <1>2, <3>2 DEF Outcome
  <2>4. CASE c.causes # {} /\ "unsafe" \notin c.causes /\ "exists" \notin c.causes
    <3>1. Classified(c) \in {{"context.Canceled"}, {"ErrSnapshotIO"}}
      BY <2>4 DEF Classified, Analysis
    <3> QED BY <1>2, <3>1 DEF Outcome
  <2> QED BY <2>1, <2>2, <2>3, <2>4
<1> QED BY <1>1, <1>2

(* An invocation answers with the winner's exit code only for a write that *)
(* met nothing but the winner and left nothing behind.                     *)
THEOREM ConflictClean == Spec => []ConflictIsClean
<1>1. IInv /\ LinkInv => ConflictIsClean
  <2> SUFFICES ASSUME IInv, LinkInv, NEW w \in Writer, Returned(w)
               PROVE  /\ Outcome(call[w]) = "audit the winner" <=> call[w].causes = {"exists"}
                      /\ Outcome(call[w]) = "audit the winner" =>
                           ~call[w].installed /\ ~temp[w] /\ ~tempDisk[w] /\ target[Dest[w]] # w
    BY DEF ConflictIsClean
  <2>1. call[w] \in Call /\ CallInv(w) /\ MetAnother(w) BY DEF IInv, TypeOK, LinkInv
  <2>2. Outcome(call[w]) = "audit the winner" <=> call[w].causes = {"exists"}
    BY <2>1, OutcomeOfCall DEF MetAnother
  <2> QED BY <2>1, <2>2 DEF MetAnother, CallInv, Residue
<1> QED BY <1>1, Invariance, LinkInvHolds, PTL

==============================================================================
