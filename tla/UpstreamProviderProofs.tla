------------------------ MODULE UpstreamProviderProofs ------------------------
(***************************************************************************)
(* AttemptIsSound of UpstreamProvider, for pipes, queues and requests of   *)
(* any size and a child that writes any number of frames.                  *)
(*                                                                         *)
(* The invariant says who may touch what.  The stdin lock belongs to the   *)
(* thread that writes; once terminated is set exactly one thread owns the  *)
(* kill, or the child has been reaped; nobody passes terminate_v1 without  *)
(* setting the flag, so a thread that is past it left the child to an      *)
(* owner; and the entry in the map follows the place of execute, with the  *)
(* exception of a cancelled start, which execute carries out on its own.   *)
(***************************************************************************)
EXTENDS UpstreamProvider, TLAPS

ThreadRow == [pc : Pc, left : 0..CallSize, after : {"remove", "join", "done"}]

\* Where the threads can be.
Places ==
    /\ th["exec"].pc # "idle" /\ th["exec"].after \in {"join", "remove"}
    /\ th["cancel"].pc \in {"idle", "lock", "write", "term", "stdin", "kill", "done"}
    /\ th["cancel"].after = "done"

LockHeld == \A t \in Thread : lock = t <=> th[t].pc = "write"

\* The thread that set the flag kills the child, and nobody else does.
Claims(t) == th[t].pc \in {"stdin", "kill"}
KillOwned ==
    /\ terminated => child = "reaped" \/ Claims("exec") \/ Claims("cancel")
    /\ ~terminated => child # "reaped" /\ ~Claims("exec") /\ ~Claims("cancel")
    /\ ~(Claims("exec") /\ Claims("cancel"))
    /\ child = "reaped" => ~Claims("exec") /\ ~Claims("cancel")

\* There is a child from the spawn on, and cancel touches it only then.
ChildLives ==
    /\ th["exec"].pc \in {"insert", "spawn"} =>
          child = "none" /\ ~terminated /\ th["cancel"].pc \in {"idle", "done"}
    /\ th["exec"].pc \notin {"insert", "spawn", "done"} => child # "none"
    /\ th["cancel"].pc \notin {"idle", "done"} => child # "none"
    /\ th["exec"].pc = "join" => terminated
    /\ th["exec"].pc = "done" => terminated \/ child = "none"

\* The entry of the attempt, and what execute has decided.
EntryFollows ==
    /\ th["exec"].pc \in {"spawn", "activate"} <=> attempt \in {"starting", "cancelled"}
    /\ th["exec"].pc \in {"insert", "join", "done"} => attempt = "none"
    /\ th["exec"].pc \in {"term", "stdin", "kill"} /\ th["exec"].after = "join"
          => attempt = "none"
    /\ th["exec"].pc \in {"insert", "spawn", "activate"} =>
          result = "none" /\ phase = "init" /\ th["exec"].after = "join"
    /\ phase = "cancel" =>
          /\ result = "cancelled" /\ attempt = "none" /\ th["exec"].after = "join"
          /\ th["exec"].pc \in {"lock", "write", "term", "stdin", "kill", "join", "done"}
    /\ caught = "starting" =>
          \/ attempt = "cancelled" \/ phase = "cancel"
          \/ th["exec"].pc = "done" /\ result = "error"

AttemptInv ==
    UpstreamTypeOK /\ Places /\ LockHeld /\ KillOwned /\ ChildLives /\ EntryFollows

-----------------------------------------------------------------------------
(* execute.                                                                *)

\* The attempt is entered in the map.
LEMMA InsertKeeps ==
    ASSUME UpstreamAssumption, AttemptInv, Insert
    PROVE  AttemptInv'
  <1>1. /\ th \in [Thread -> ThreadRow] /\ UpstreamTypeOK /\ Places /\ LockHeld /\ KillOwned
        /\ ChildLives /\ EntryFollows
    BY DEF AttemptInv, UpstreamTypeOK, ThreadRow
  <1>2. /\ th'["cancel"] = th["cancel"] /\ th' \in [Thread -> ThreadRow]
        /\ th'["exec"].pc = "spawn" /\ th'["exec"].after = th["exec"].after
    BY <1>1 DEF Insert, Goto, Thread, ThreadRow, Pc
  <1>3. UpstreamTypeOK'
    BY <1>1, <1>2 DEF Insert, UpstreamTypeOK, ThreadRow, control, process, Phase
  <1>4. Places' /\ LockHeld'
    BY <1>1, <1>2 DEF Insert, Places, LockHeld, Thread, control
  <1>5. KillOwned'
    BY <1>1, <1>2 DEF Insert, KillOwned, Claims, ChildLives, control, process
  <1>6. ChildLives'
    BY <1>1, <1>2 DEF Insert, ChildLives, KillOwned, Claims, EntryFollows, control, process
  <1>7. EntryFollows'
    BY <1>1, <1>2 DEF Insert, EntryFollows, Places, UpstreamTypeOK, control, process
  <1> QED
    BY <1>3, <1>4, <1>5, <1>6, <1>7 DEF AttemptInv

\* The child is there, or execute has failed and nobody else knew it.
LEMMA SpawnKeeps ==
    ASSUME UpstreamAssumption, AttemptInv, Spawn
    PROVE  AttemptInv'
  <1>1. /\ th \in [Thread -> ThreadRow] /\ UpstreamTypeOK /\ Places /\ LockHeld /\ KillOwned
        /\ ChildLives /\ EntryFollows
    BY DEF AttemptInv, UpstreamTypeOK, ThreadRow
  <1>2. /\ th'["cancel"] = th["cancel"] /\ th' \in [Thread -> ThreadRow]
        /\ th["exec"].pc = "spawn" /\ th'["exec"].after = th["exec"].after
        /\ \/ th'["exec"].pc = "activate" /\ child' = "running" /\ UNCHANGED <<attempt, result>>
           \/ th'["exec"].pc = "done" /\ attempt' = "none" /\ result' = "error" /\ UNCHANGED child
    BY <1>1 DEF Spawn, Goto, Thread, ThreadRow, Pc
  <1>3. UpstreamTypeOK'
    BY <1>1, <1>2 DEF Spawn, UpstreamTypeOK, ThreadRow, control, process, Phase
  <1>4. Places' /\ LockHeld'
    BY <1>1, <1>2 DEF Spawn, Places, LockHeld, Thread, control
  <1>5. KillOwned'
    BY <1>1, <1>2 DEF Spawn, KillOwned, Claims, ChildLives, control, process
  <1>6. ChildLives'
    BY <1>1, <1>2 DEF Spawn, ChildLives, KillOwned, Claims, EntryFollows, control, process
  <1>7. EntryFollows'
    BY <1>1, <1>2 DEF Spawn, EntryFollows, Places, UpstreamTypeOK, control, process
  <1> QED
    BY <1>3, <1>4, <1>5, <1>6, <1>7 DEF AttemptInv

\* A start that was cancelled goes on as the cancellation of itself.
LEMMA ActivateKeeps ==
    ASSUME UpstreamAssumption, AttemptInv, Activate
    PROVE  AttemptInv'
  <1>1. /\ th \in [Thread -> ThreadRow] /\ UpstreamTypeOK /\ Places /\ LockHeld /\ KillOwned
        /\ ChildLives /\ EntryFollows
    BY DEF AttemptInv, UpstreamTypeOK, ThreadRow
  <1>2. 1 \in 0..CallSize
    BY DEF UpstreamAssumption
  <1>3. /\ th' = [th EXCEPT !["exec"].pc = "lock", !["exec"].left = 1]
        /\ th["exec"].pc = "activate"
        /\ \/ attempt = "starting" /\ attempt' = "active" /\ UNCHANGED <<phase, result>>
           \/ attempt' = "none" /\ result' = "cancelled" /\ phase' = "cancel"
    BY DEF Activate
  <1>4. /\ th'["cancel"] = th["cancel"] /\ th' \in [Thread -> ThreadRow]
        /\ th'["exec"].pc = "lock" /\ th'["exec"].after = th["exec"].after
    BY <1>1, <1>2, <1>3 DEF Thread, ThreadRow, Pc
  <1>5. UpstreamTypeOK'
    BY <1>1, <1>3, <1>4 DEF Activate, UpstreamTypeOK, ThreadRow, control, process, Phase
  <1>6. Places' /\ LockHeld'
    BY <1>1, <1>3, <1>4 DEF Activate, Places, LockHeld, Thread, control
  <1>7. KillOwned'
    BY <1>1, <1>3, <1>4 DEF Activate, KillOwned, Claims, ChildLives, control, process
  <1>8. ChildLives'
    BY <1>1, <1>3, <1>4 DEF Activate, ChildLives, KillOwned, Claims, EntryFollows, control, process
  <1>9. EntryFollows'
    BY <1>1, <1>3, <1>4 DEF Activate, EntryFollows, Places, UpstreamTypeOK, control, process
  <1> QED
    BY <1>5, <1>6, <1>7, <1>8, <1>9 DEF AttemptInv

\* The reader is gone and the request has failed.
LEMMA DisconnectedKeeps ==
    ASSUME UpstreamAssumption, AttemptInv, Disconnected
    PROVE  AttemptInv'
  <1>1. /\ th \in [Thread -> ThreadRow] /\ UpstreamTypeOK /\ Places /\ LockHeld /\ KillOwned
        /\ ChildLives /\ EntryFollows
    BY DEF AttemptInv, UpstreamTypeOK, ThreadRow
  <1>2. /\ th'["cancel"] = th["cancel"] /\ th' \in [Thread -> ThreadRow]
        /\ th'["exec"].pc = "remove" /\ th'["exec"].after = th["exec"].after
    BY <1>1 DEF Disconnected, Goto, Thread, ThreadRow, Pc, Finish, Failure
  <1>3. UpstreamTypeOK'
    BY <1>1, <1>2 DEF Disconnected, UpstreamTypeOK, ThreadRow, control, process, Phase, Finish, Failure
  <1>4. Places' /\ LockHeld'
    BY <1>1, <1>2 DEF Disconnected, Places, LockHeld, Thread, control, Finish, Failure
  <1>5. KillOwned'
    BY <1>1, <1>2 DEF Disconnected, KillOwned, Claims, ChildLives, control, process, Finish, Failure
  <1>6. ChildLives'
    BY <1>1, <1>2 DEF Disconnected, ChildLives, KillOwned, Claims, EntryFollows, control, process, Finish, Failure
  <1>7. EntryFollows'
    BY <1>1, <1>2 DEF Disconnected, EntryFollows, Places, UpstreamTypeOK, control, process, Finish, Failure
  <1> QED
    BY <1>3, <1>4, <1>5, <1>6, <1>7 DEF AttemptInv

\* The child is killed before the entry is removed.
LEMMA TimeoutKeeps ==
    ASSUME UpstreamAssumption, AttemptInv, Timeout
    PROVE  AttemptInv'
  <1>1. /\ th \in [Thread -> ThreadRow] /\ UpstreamTypeOK /\ Places /\ LockHeld /\ KillOwned
        /\ ChildLives /\ EntryFollows
    BY DEF AttemptInv, UpstreamTypeOK, ThreadRow
  <1>2. /\ th'["cancel"] = th["cancel"] /\ th' \in [Thread -> ThreadRow]
        /\ th'["exec"].pc = "term" /\ th'["exec"].after = "remove"
    BY <1>1 DEF Timeout, Goto, Thread, ThreadRow, Pc
  <1>3. UpstreamTypeOK'
    BY <1>1, <1>2 DEF Timeout, UpstreamTypeOK, ThreadRow, control, process, Phase
  <1>4. Places' /\ LockHeld'
    BY <1>1, <1>2 DEF Timeout, Places, LockHeld, Thread, control
  <1>5. KillOwned'
    BY <1>1, <1>2 DEF Timeout, KillOwned, Claims, ChildLives, control, process
  <1>6. ChildLives'
    BY <1>1, <1>2 DEF Timeout, ChildLives, KillOwned, Claims, EntryFollows, control, process
  <1>7. EntryFollows'
    BY <1>1, <1>2 DEF Timeout, EntryFollows, Places, UpstreamTypeOK, control, process
  <1> QED
    BY <1>3, <1>4, <1>5, <1>6, <1>7 DEF AttemptInv

\* The entry is removed, and the child is terminated if it is not yet.
LEMMA RemoveKeeps ==
    ASSUME UpstreamAssumption, AttemptInv, Remove
    PROVE  AttemptInv'
  <1>1. /\ th \in [Thread -> ThreadRow] /\ UpstreamTypeOK /\ Places /\ LockHeld /\ KillOwned
        /\ ChildLives /\ EntryFollows
    BY DEF AttemptInv, UpstreamTypeOK, ThreadRow
  <1>2. /\ th'["cancel"] = th["cancel"] /\ th' \in [Thread -> ThreadRow]
        /\ th'["exec"].pc = "term" /\ th'["exec"].after = "join"
    BY <1>1 DEF Remove, Goto, Thread, ThreadRow, Pc
  <1>3. UpstreamTypeOK'
    BY <1>1, <1>2 DEF Remove, UpstreamTypeOK, ThreadRow, control, process, Phase
  <1>4. Places' /\ LockHeld'
    BY <1>1, <1>2 DEF Remove, Places, LockHeld, Thread, control
  <1>5. KillOwned'
    BY <1>1, <1>2 DEF Remove, KillOwned, Claims, ChildLives, control, process
  <1>6. ChildLives'
    BY <1>1, <1>2 DEF Remove, ChildLives, KillOwned, Claims, EntryFollows, control, process
  <1>7. EntryFollows'
    BY <1>1, <1>2 DEF Remove, EntryFollows, Places, UpstreamTypeOK, control, process
  <1> QED
    BY <1>3, <1>4, <1>5, <1>6, <1>7 DEF AttemptInv

\* execute returns: it has passed terminate_v1.
LEMMA JoinKeeps ==
    ASSUME UpstreamAssumption, AttemptInv, Join
    PROVE  AttemptInv'
  <1>1. /\ th \in [Thread -> ThreadRow] /\ UpstreamTypeOK /\ Places /\ LockHeld /\ KillOwned
        /\ ChildLives /\ EntryFollows
    BY DEF AttemptInv, UpstreamTypeOK, ThreadRow
  <1>2. /\ th'["cancel"] = th["cancel"] /\ th' \in [Thread -> ThreadRow]
        /\ th'["exec"].pc = "done" /\ th'["exec"].after = th["exec"].after
    BY <1>1 DEF Join, Goto, Thread, ThreadRow, Pc
  <1>3. UpstreamTypeOK'
    BY <1>1, <1>2 DEF Join, UpstreamTypeOK, ThreadRow, control, process, Phase
  <1>4. Places' /\ LockHeld'
    BY <1>1, <1>2 DEF Join, Places, LockHeld, Thread, control
  <1>5. KillOwned'
    BY <1>1, <1>2 DEF Join, KillOwned, Claims, ChildLives, control, process
  <1>6. ChildLives'
    BY <1>1, <1>2 DEF Join, ChildLives, KillOwned, Claims, EntryFollows, control, process
  <1>7. EntryFollows'
    BY <1>1, <1>2 DEF Join, EntryFollows, Places, UpstreamTypeOK, control, process
  <1> QED
    BY <1>3, <1>4, <1>5, <1>6, <1>7 DEF AttemptInv

\* An answer, a notification, or any other frame.
LEMMA ReceiveKeeps ==
    ASSUME UpstreamAssumption, AttemptInv, Receive
    PROVE  AttemptInv'
  <1>1. /\ th \in [Thread -> ThreadRow] /\ UpstreamTypeOK /\ Places /\ LockHeld /\ KillOwned
        /\ ChildLives /\ EntryFollows /\ 1 \in 0..CallSize
    BY DEF AttemptInv, UpstreamTypeOK, ThreadRow, UpstreamAssumption
  <1>2. /\ th["exec"].pc = "wait" /\ queue # <<>> /\ queue' = Tail(queue)
        /\ UNCHANGED <<attempt, lock, stdinOpen, terminated, cancelled, child, pipe, reader,
                       emitted, caught>>
    BY DEF Receive, control
  <1>3. queue' \in Seq(FrameKind) /\ Len(queue') <= QueueRoom
    <2>1. queue \in Seq(FrameKind) /\ Len(queue) <= QueueRoom /\ QueueRoom \in Nat
      BY <1>1 DEF UpstreamTypeOK, UpstreamAssumption
    <2> QED
      BY <1>2, <2>1
  <1>4. \/ /\ th' = [th EXCEPT !["exec"].pc = "lock", !["exec"].left = 1]
           /\ phase' = "notify" /\ UNCHANGED <<result, notes>>
        \/ /\ th' = [th EXCEPT !["exec"].pc = "remove"] /\ UNCHANGED <<phase, notes>>
           /\ result' \in {"ok", "error", "cancelled"}
        \/ notes < MaxNotes /\ notes' = notes + 1 /\ UNCHANGED <<phase, result, th>>
    <2>1. CASE Head(queue) = "init" /\ phase = "init"
      BY <2>1 DEF Receive
    <2>2. CASE Head(queue) = "call" /\ phase = "call"
      BY <2>2 DEF Receive, Finish, Goto
    <2>3. CASE Head(queue) = "note" /\ notes < MaxNotes
      BY <2>3 DEF Receive
    <2>4. CASE Head(queue) = "eof"
      BY <2>4 DEF Receive, Finish, Failure, Goto
    <2>5. CASE /\ ~(Head(queue) = "init" /\ phase = "init")
               /\ ~(Head(queue) = "call" /\ phase = "call")
               /\ ~(Head(queue) = "note" /\ notes < MaxNotes) /\ Head(queue) # "eof"
      BY <2>5 DEF Receive, Finish, Goto
    <2> QED
      BY <2>1, <2>2, <2>3, <2>4, <2>5
  <1>5. /\ th'["cancel"] = th["cancel"] /\ th' \in [Thread -> ThreadRow]
        /\ th'["exec"].pc \in {"lock", "remove", "wait"} /\ th'["exec"].after = th["exec"].after
    BY <1>1, <1>2, <1>4 DEF Thread, ThreadRow, Pc
  <1>6. phase # "cancel" /\ phase' # "cancel" /\ attempt \notin {"starting", "cancelled"}
    BY <1>1, <1>2, <1>4 DEF EntryFollows
  <1>7. UpstreamTypeOK'
    <2>1. /\ phase' \in Phase /\ notes' \in 0..MaxNotes
          /\ result' \in {"none", "ok", "error", "cancelled"}
      BY <1>1, <1>4 DEF UpstreamTypeOK, Phase, UpstreamAssumption
    <2> QED
      BY <1>1, <1>2, <1>3, <1>5, <2>1 DEF UpstreamTypeOK, ThreadRow
  <1>8. Places' /\ LockHeld'
    BY <1>1, <1>2, <1>5 DEF Places, LockHeld, Thread
  <1>9. KillOwned' /\ ChildLives'
    BY <1>1, <1>2, <1>5 DEF KillOwned, Claims, ChildLives
  <1>10. EntryFollows'
    BY <1>1, <1>2, <1>5, <1>6 DEF EntryFollows
  <1> QED
    BY <1>7, <1>8, <1>9, <1>10 DEF AttemptInv

-----------------------------------------------------------------------------
(* Writes to the child, by both threads.                                   *)

\* Where a thread is after its write.
LEMMA AfterWriteGoes ==
    ASSUME UpstreamAssumption, th \in [Thread -> ThreadRow], NEW t \in Thread, NEW ok,
           AfterWrite(t, ok)
    PROVE  /\ th' \in [Thread -> ThreadRow] /\ th'[t].after = th[t].after
           /\ \A u \in Thread \ {t} : th'[u] = th[u]
           /\ \/ /\ t = "cancel" \/ phase = "cancel"
                 /\ th'[t].pc = "term" /\ UNCHANGED <<phase, result, notes>>
              \/ /\ t = "exec" /\ phase # "cancel" /\ th'[t].pc \in {"remove", "lock", "wait"}
                 /\ phase' \in {phase, "call"} /\ result' \in {result, "error"}
                 /\ notes' \in {notes, 0}
  <1>1. CallSize \in 0..CallSize
    BY DEF UpstreamAssumption
  <1>2. CASE t = "cancel" \/ phase = "cancel"
    BY <1>2 DEF AfterWrite, Goto, ThreadRow, Pc
  <1>3. CASE ~(t = "cancel" \/ phase = "cancel") /\ ~ok
    BY <1>3 DEF AfterWrite, Goto, ThreadRow, Pc, Thread
  <1>4. CASE ~(t = "cancel" \/ phase = "cancel") /\ ok /\ phase = "notify"
    <2>1. th' = [th EXCEPT ![t].pc = "lock", ![t].left = CallSize] /\ phase' = "call"
          /\ UNCHANGED <<result, notes>> /\ t = "exec"
      BY <1>4 DEF AfterWrite, Thread
    <2> QED
      BY <1>1, <1>4, <2>1 DEF ThreadRow, Pc
  <1>5. CASE ~(t = "cancel" \/ phase = "cancel") /\ ok /\ phase # "notify"
    BY <1>5 DEF AfterWrite, Goto, ThreadRow, Pc, Thread
  <1> QED
    BY <1>2, <1>3, <1>4, <1>5

\* A write ends, well or not, and the lock is free.
LEMMA WriteEnds ==
    ASSUME UpstreamAssumption, AttemptInv, NEW t \in Thread, NEW ok, AfterWrite(t, ok),
           th[t].pc \in {"lock", "write"}, lock \in {t, "free"}, lock' = "free",
           pipe' \in 0..PipeRoom,
           UNCHANGED <<attempt, stdinOpen, terminated, cancelled, child, reader, queue, emitted,
                       caught>>
    PROVE  AttemptInv'
  <1>1. /\ th \in [Thread -> ThreadRow] /\ UpstreamTypeOK /\ Places /\ LockHeld /\ KillOwned
        /\ ChildLives /\ EntryFollows
    BY DEF AttemptInv, UpstreamTypeOK, ThreadRow
  <1>2. /\ th' \in [Thread -> ThreadRow] /\ th'[t].after = th[t].after
        /\ \A u \in Thread \ {t} : th'[u] = th[u]
        /\ \/ /\ t = "cancel" \/ phase = "cancel"
              /\ th'[t].pc = "term" /\ UNCHANGED <<phase, result, notes>>
           \/ /\ t = "exec" /\ phase # "cancel" /\ th'[t].pc \in {"remove", "lock", "wait"}
              /\ phase' \in {phase, "call"} /\ result' \in {result, "error"}
              /\ notes' \in {notes, 0}
    BY <1>1, AfterWriteGoes
  <1>3. \/ t = "exec" /\ th'["cancel"] = th["cancel"]
        \/ t = "cancel" /\ th'["exec"] = th["exec"]
    BY <1>2 DEF Thread
  <1>4. UpstreamTypeOK'
    <2>1. notes' \in 0..MaxNotes
      BY <1>1, <1>2 DEF UpstreamTypeOK, UpstreamAssumption
    <2> QED
      BY <1>1, <1>2, <2>1 DEF UpstreamTypeOK, ThreadRow, Phase
  <1>5. Places' /\ LockHeld'
    BY <1>1, <1>2, <1>3 DEF Places, LockHeld, Thread
  <1>6. KillOwned' /\ ChildLives'
    BY <1>1, <1>2, <1>3 DEF KillOwned, Claims, ChildLives
  <1>7. EntryFollows'
    BY <1>1, <1>2, <1>3 DEF EntryFollows
  <1> QED
    BY <1>4, <1>5, <1>6, <1>7 DEF AttemptInv

\* The lock is taken only when nobody writes.
LEMMA LockStdinKeeps ==
    ASSUME UpstreamAssumption, AttemptInv, NEW t \in Thread, LockStdin(t)
    PROVE  AttemptInv'
  <1>1. /\ th \in [Thread -> ThreadRow] /\ UpstreamTypeOK /\ Places /\ LockHeld /\ KillOwned
        /\ ChildLives /\ EntryFollows /\ th[t].pc = "lock" /\ lock = "free"
        /\ UNCHANGED <<attempt, stdinOpen, terminated, cancelled, child, pipe, reader, queue,
                       emitted, caught>>
    BY DEF AttemptInv, UpstreamTypeOK, ThreadRow, LockStdin, process
  <1>2. CASE AfterWrite(t, FALSE) /\ UNCHANGED lock
    <2>1. pipe' \in 0..PipeRoom
      BY <1>1 DEF UpstreamTypeOK
    <2> QED
      BY <1>1, <1>2, <2>1, WriteEnds
  <1>3. CASE lock' = t /\ Goto(t, "write") /\ UNCHANGED <<phase, result, notes>>
    <2>1. /\ th' \in [Thread -> ThreadRow] /\ th'[t].pc = "write" /\ th'[t].after = th[t].after
          /\ \/ t = "exec" /\ th'["cancel"] = th["cancel"]
             \/ t = "cancel" /\ th'["exec"] = th["exec"]
      BY <1>1, <1>3 DEF Goto, Thread, ThreadRow, Pc
    <2>2. UpstreamTypeOK'
      BY <1>1, <1>3, <2>1 DEF UpstreamTypeOK, ThreadRow
    <2>3. Places' /\ LockHeld'
      BY <1>1, <1>3, <2>1 DEF Places, LockHeld, Thread
    <2>4. KillOwned' /\ ChildLives'
      BY <1>1, <2>1 DEF KillOwned, Claims, ChildLives
    <2>5. EntryFollows'
      BY <1>1, <1>3, <2>1 DEF EntryFollows
    <2> QED
      BY <2>2, <2>3, <2>4, <2>5 DEF AttemptInv
  <1> QED
    BY <1>2, <1>3 DEF LockStdin

\* The pipe takes a unit, or the last one.
LEMMA WriteUnitKeeps ==
    ASSUME UpstreamAssumption, AttemptInv, NEW t \in Thread, WriteUnit(t)
    PROVE  AttemptInv'
  <1>1. /\ th \in [Thread -> ThreadRow] /\ UpstreamTypeOK /\ Places /\ LockHeld /\ KillOwned
        /\ ChildLives /\ EntryFollows /\ th[t].pc = "write" /\ lock = t
        /\ UNCHANGED <<attempt, stdinOpen, terminated, cancelled, child, reader, queue,
                       emitted, caught>>
    BY DEF AttemptInv, UpstreamTypeOK, ThreadRow, WriteUnit, LockHeld
  <1>2. pipe' \in 0..PipeRoom
    BY <1>1 DEF UpstreamTypeOK, UpstreamAssumption, WriteUnit
  <1>3. CASE th[t].left > 1
    <2>1. /\ th' = [th EXCEPT ![t].left = @ - 1] /\ UNCHANGED <<lock, phase, result, notes>>
          /\ th[t].left \in 0..CallSize /\ CallSize \in Nat
      BY <1>1, <1>3 DEF WriteUnit, ThreadRow, UpstreamAssumption
    <2>2. th[t].left - 1 \in 0..CallSize
      BY <1>3, <2>1
    <2>3. /\ th' \in [Thread -> ThreadRow] /\ th'[t].pc = "write" /\ th'[t].after = th[t].after
          /\ \A u \in Thread : th'[u].pc = th[u].pc /\ th'[u].after = th[u].after
      BY <1>1, <2>1, <2>2 DEF Thread, ThreadRow
    <2>4. UpstreamTypeOK'
      BY <1>1, <1>2, <2>1, <2>3 DEF UpstreamTypeOK, ThreadRow
    <2>5. Places' /\ LockHeld'
      BY <1>1, <2>1, <2>3 DEF Places, LockHeld, Thread
    <2>6. KillOwned' /\ ChildLives'
      BY <1>1, <2>3 DEF KillOwned, Claims, ChildLives, Thread
    <2>7. EntryFollows'
      BY <1>1, <2>1, <2>3 DEF EntryFollows, Thread
    <2> QED
      BY <2>4, <2>5, <2>6, <2>7 DEF AttemptInv
  <1>4. CASE ~(th[t].left > 1)
    <2>1. lock' = "free" /\ AfterWrite(t, TRUE)
      BY <1>4 DEF WriteUnit
    <2> QED
      BY <1>1, <1>2, <2>1, WriteEnds
  <1> QED
    BY <1>3, <1>4

\* The child is gone while a thread writes to it.
LEMMA WriteBrokenKeeps ==
    ASSUME UpstreamAssumption, AttemptInv, NEW t \in Thread, WriteBroken(t)
    PROVE  AttemptInv'
  <1>1. /\ AfterWrite(t, FALSE) /\ th[t].pc = "write" /\ lock' = "free" /\ lock = t
        /\ UNCHANGED <<attempt, stdinOpen, terminated, cancelled, child, reader, queue,
                       emitted, caught, pipe>>
    BY DEF AttemptInv, WriteBroken, LockHeld, process
  <1>2. pipe' \in 0..PipeRoom
    BY <1>1 DEF AttemptInv, UpstreamTypeOK
  <1> QED
    BY <1>1, <1>2, WriteEnds

-----------------------------------------------------------------------------
(* terminate_v1 and cancel.                                                *)

\* The first thread here claims the kill; the other one passes.
LEMMA TerminateKeeps ==
    ASSUME UpstreamAssumption, AttemptInv, NEW t \in Thread, Terminate(t)
    PROVE  AttemptInv'
  <1>1. /\ th \in [Thread -> ThreadRow] /\ UpstreamTypeOK /\ Places /\ LockHeld /\ KillOwned
        /\ ChildLives /\ EntryFollows
    BY DEF AttemptInv, UpstreamTypeOK, ThreadRow
  <1>2. /\ th[t].pc = "term" /\ terminated' = TRUE
        /\ UNCHANGED <<attempt, phase, result, lock, stdinOpen, cancelled, child, pipe,
                       reader, queue, emitted, notes, caught>>
    BY DEF Terminate, control, process
  <1>3. /\ th' \in [Thread -> ThreadRow] /\ th'[t].after = th[t].after
        /\ th'[t].pc = IF terminated THEN th[t].after ELSE "stdin"
        /\ \/ t = "exec" /\ th'["cancel"] = th["cancel"]
           \/ t = "cancel" /\ th'["exec"] = th["exec"]
    BY <1>1 DEF Terminate, Goto, Thread, ThreadRow, Pc
  <1>4. UpstreamTypeOK'
    BY <1>1, <1>2, <1>3 DEF UpstreamTypeOK, ThreadRow
  <1>5. Places' /\ LockHeld'
    BY <1>1, <1>2, <1>3 DEF Places, LockHeld, Thread
  <1>6. KillOwned'
    BY <1>1, <1>2, <1>3 DEF KillOwned, Claims, Places
  <1>7. ChildLives'
    BY <1>1, <1>2, <1>3 DEF ChildLives, KillOwned, Claims, Places
  <1>8. EntryFollows'
    BY <1>1, <1>2, <1>3 DEF EntryFollows, Places
  <1> QED
    BY <1>4, <1>5, <1>6, <1>7, <1>8 DEF AttemptInv

\* The owner of the kill waits for the lock, and for nothing else.
LEMMA CloseStdinKeeps ==
    ASSUME UpstreamAssumption, AttemptInv, NEW t \in Thread, CloseStdin(t)
    PROVE  AttemptInv'
  <1>1. /\ th \in [Thread -> ThreadRow] /\ UpstreamTypeOK /\ Places /\ LockHeld /\ KillOwned
        /\ ChildLives /\ EntryFollows
    BY DEF AttemptInv, UpstreamTypeOK, ThreadRow
  <1>2. /\ th[t].pc = "stdin" /\ stdinOpen' = FALSE
        /\ UNCHANGED <<attempt, phase, result, lock, terminated, cancelled, child, pipe,
                       reader, queue, emitted, notes, caught>>
    BY DEF CloseStdin, control, process
  <1>3. /\ th' \in [Thread -> ThreadRow] /\ th'[t].after = th[t].after
        /\ th'[t].pc = "kill"
        /\ \/ t = "exec" /\ th'["cancel"] = th["cancel"]
           \/ t = "cancel" /\ th'["exec"] = th["exec"]
    BY <1>1 DEF CloseStdin, Goto, Thread, ThreadRow, Pc
  <1>4. UpstreamTypeOK'
    BY <1>1, <1>2, <1>3 DEF UpstreamTypeOK, ThreadRow
  <1>5. Places' /\ LockHeld'
    BY <1>1, <1>2, <1>3 DEF Places, LockHeld, Thread
  <1>6. KillOwned'
    BY <1>1, <1>2, <1>3 DEF KillOwned, Claims, Places
  <1>7. ChildLives'
    BY <1>1, <1>2, <1>3 DEF ChildLives, KillOwned, Claims, Places
  <1>8. EntryFollows'
    BY <1>1, <1>2, <1>3 DEF EntryFollows, Places
  <1> QED
    BY <1>4, <1>5, <1>6, <1>7, <1>8 DEF AttemptInv

\* The child is killed and waited for.
LEMMA KillKeeps ==
    ASSUME UpstreamAssumption, AttemptInv, NEW t \in Thread, Kill(t)
    PROVE  AttemptInv'
  <1>1. /\ th \in [Thread -> ThreadRow] /\ UpstreamTypeOK /\ Places /\ LockHeld /\ KillOwned
        /\ ChildLives /\ EntryFollows
    BY DEF AttemptInv, UpstreamTypeOK, ThreadRow
  <1>2. /\ th[t].pc = "kill" /\ child' = "reaped"
        /\ UNCHANGED <<attempt, phase, result, lock, stdinOpen, terminated, cancelled, pipe,
                       reader, queue, emitted, notes, caught>>
    BY DEF Kill, control, process
  <1>3. /\ th' \in [Thread -> ThreadRow] /\ th'[t].after = th[t].after
        /\ th'[t].pc = th[t].after
        /\ \/ t = "exec" /\ th'["cancel"] = th["cancel"]
           \/ t = "cancel" /\ th'["exec"] = th["exec"]
    BY <1>1 DEF Kill, Goto, Thread, ThreadRow, Pc
  <1>4. UpstreamTypeOK'
    BY <1>1, <1>2, <1>3 DEF UpstreamTypeOK, ThreadRow
  <1>5. Places' /\ LockHeld'
    BY <1>1, <1>2, <1>3 DEF Places, LockHeld, Thread
  <1>6. KillOwned'
    BY <1>1, <1>2, <1>3 DEF KillOwned, Claims, Places
  <1>7. ChildLives'
    BY <1>1, <1>2, <1>3 DEF ChildLives, KillOwned, Claims, Places
  <1>8. EntryFollows'
    BY <1>1, <1>2, <1>3 DEF EntryFollows, Places
  <1> QED
    BY <1>4, <1>5, <1>6, <1>7, <1>8 DEF AttemptInv

\* cancel finds the attempt starting, active, or not at all.
LEMMA CancelKeeps ==
    ASSUME UpstreamAssumption, AttemptInv, Cancel
    PROVE  AttemptInv'
  <1>1. /\ th \in [Thread -> ThreadRow] /\ UpstreamTypeOK /\ Places /\ LockHeld /\ KillOwned
        /\ ChildLives /\ EntryFollows /\ 1 \in 0..CallSize
    BY DEF AttemptInv, UpstreamTypeOK, ThreadRow, UpstreamAssumption
  <1>2. /\ th["cancel"].pc = "idle" /\ caught' = attempt
        /\ UNCHANGED <<phase, result, lock, stdinOpen, terminated, child, pipe, reader, queue,
                       emitted, notes>>
    BY DEF Cancel, process
  <1>3. \/ /\ attempt = "starting" /\ attempt' = "cancelled" /\ UNCHANGED cancelled
           /\ th' = [th EXCEPT !["cancel"].pc = "done"]
        \/ /\ attempt = "active" /\ cancelled' = TRUE /\ UNCHANGED attempt
           /\ th' = [th EXCEPT !["cancel"].pc = "lock", !["cancel"].left = 1]
        \/ /\ attempt = "none" /\ UNCHANGED <<attempt, cancelled>>
           /\ th' = [th EXCEPT !["cancel"].pc = "done"]
    BY DEF Cancel, Goto
  <1>4. /\ th' \in [Thread -> ThreadRow] /\ th'["exec"] = th["exec"]
        /\ th'["cancel"].after = th["cancel"].after
        /\ th'["cancel"].pc = IF attempt = "active" THEN "lock" ELSE "done"
    BY <1>1, <1>3 DEF Thread, ThreadRow, Pc
  <1>5. UpstreamTypeOK'
    BY <1>1, <1>2, <1>3, <1>4 DEF UpstreamTypeOK, ThreadRow
  <1>6. Places' /\ LockHeld'
    BY <1>1, <1>2, <1>4 DEF Places, LockHeld, Thread
  <1>7. KillOwned'
    BY <1>1, <1>2, <1>4 DEF KillOwned, Claims
  <1>8. ChildLives'
    BY <1>1, <1>2, <1>4 DEF ChildLives, EntryFollows
  <1>9. EntryFollows'
    BY <1>1, <1>2, <1>3, <1>4 DEF EntryFollows
  <1> QED
    BY <1>5, <1>6, <1>7, <1>8, <1>9 DEF AttemptInv

-----------------------------------------------------------------------------
(* The reader thread and the child touch nothing that the threads decide.  *)

\* Only the end of the child can matter, and it changes no owner.
LEMMA OutsideKeeps ==
    ASSUME AttemptInv, UpstreamTypeOK', child' \in {child, "zombie"},
           child' = "zombie" => child \in {"running", "zombie"},
           UNCHANGED <<attempt, th, phase, result, lock, terminated, caught>>
    PROVE  AttemptInv'
  <1>1. Places' /\ LockHeld' /\ KillOwned' /\ ChildLives'
    BY DEF AttemptInv, Places, LockHeld, KillOwned, Claims, ChildLives
  <1>2. EntryFollows'
    BY DEF AttemptInv, EntryFollows
  <1> QED
    BY <1>1, <1>2 DEF AttemptInv

\* Frames, the end of the output, and a child that reads or exits.
LEMMA WorldKeeps ==
    ASSUME UpstreamAssumption, AttemptInv, ReaderNext \/ ChildReads \/ ChildExits
    PROVE  AttemptInv'
  <1>1. UpstreamTypeOK /\ QueueRoom \in Nat /\ MaxFrames \in Nat /\ PipeRoom \in Nat
    BY DEF AttemptInv, UpstreamAssumption
  <1>2. ASSUME NEW k \in FrameKind, ReaderFrame(k) PROVE AttemptInv'
    <2>1. UNCHANGED <<attempt, th, phase, result, lock, stdinOpen, terminated, cancelled, child,
                      pipe, notes, caught>>
      BY <1>2 DEF ReaderFrame, control
    <2>2. /\ queue' \in Seq(FrameKind) /\ Len(queue') <= QueueRoom /\ reader' \in BOOLEAN
          /\ emitted' \in 0..MaxFrames
      <3>1. /\ queue \in Seq(FrameKind) /\ Len(queue) <= QueueRoom /\ Len(queue) \in Nat
            /\ Append(queue, k) \in Seq(FrameKind) /\ Len(Append(queue, k)) = Len(queue) + 1
        BY <1>1 DEF UpstreamTypeOK
      <3>2. /\ \/ Len(queue) < QueueRoom /\ queue' = Append(queue, k) /\ reader' = reader
               \/ reader' = FALSE /\ queue' = queue
            /\ emitted < MaxFrames /\ emitted' = emitted + 1
        BY <1>2 DEF ReaderFrame
      <3>3. queue' \in Seq(FrameKind) /\ Len(queue') <= QueueRoom
        BY <1>1, <3>1, <3>2
      <3>4. emitted' \in 0..MaxFrames
        BY <1>1, <3>2 DEF UpstreamTypeOK
      <3>5. reader' \in BOOLEAN
        <4>1. reader \in BOOLEAN
          BY <1>1 DEF UpstreamTypeOK
        <4> QED
          BY <3>2, <4>1
      <3> QED
        BY <3>3, <3>4, <3>5
    <2>3. UpstreamTypeOK'
      BY <1>1, <2>1, <2>2 DEF UpstreamTypeOK
    <2> QED
      BY <2>1, <2>3, OutsideKeeps
  <1>3. CASE ReaderEof
    <2>1. UNCHANGED <<attempt, th, phase, result, lock, stdinOpen, terminated, cancelled, child,
                      pipe, emitted, notes, caught>>
      BY <1>3 DEF ReaderEof, control
    <2>2. queue' \in Seq(FrameKind) /\ Len(queue') <= QueueRoom /\ reader' \in BOOLEAN
      <3>1. /\ queue \in Seq(FrameKind) /\ Len(queue) <= QueueRoom /\ Len(queue) \in Nat
            /\ "eof" \in FrameKind
        BY <1>1 DEF UpstreamTypeOK, FrameKind
      <3>2. Append(queue, "eof") \in Seq(FrameKind) /\ Len(Append(queue, "eof")) = Len(queue) + 1
        BY <3>1
      <3>3. \/ Len(queue) < QueueRoom /\ queue' = Append(queue, "eof")
            \/ queue' = queue
        BY <1>3 DEF ReaderEof
      <3>4. reader' \in BOOLEAN
        BY <1>3 DEF ReaderEof
      <3>5. queue' \in Seq(FrameKind) /\ Len(queue') <= QueueRoom
        BY <1>1, <3>1, <3>2, <3>3
      <3> QED
        BY <3>4, <3>5
    <2>3. UpstreamTypeOK'
      BY <1>1, <2>1, <2>2 DEF UpstreamTypeOK
    <2> QED
      BY <2>1, <2>3, OutsideKeeps
  <1>4. CASE ChildReads
    <2>1. UNCHANGED <<attempt, th, phase, result, lock, stdinOpen, terminated, cancelled, child,
                      reader, queue, emitted, notes, caught>>
      BY <1>4 DEF ChildReads, control
    <2>2. pipe' \in 0..PipeRoom
      BY <1>1, <1>4 DEF ChildReads, UpstreamTypeOK
    <2>3. UpstreamTypeOK'
      BY <1>1, <2>1, <2>2 DEF UpstreamTypeOK
    <2> QED
      BY <2>1, <2>3, OutsideKeeps
  <1>5. CASE ChildExits
    <2>1. /\ child = "running" /\ child' = "zombie"
          /\ UNCHANGED <<attempt, th, phase, result, lock, stdinOpen, terminated, cancelled, pipe,
                         reader, queue, emitted, notes, caught>>
      BY <1>5 DEF ChildExits, Running, control
    <2>2. UpstreamTypeOK'
      BY <1>1, <2>1 DEF UpstreamTypeOK
    <2> QED
      BY <2>1, <2>2, OutsideKeeps
  <1> QED
    BY <1>2, <1>3, <1>4, <1>5 DEF ReaderNext

-----------------------------------------------------------------------------
(* The theorem.                                                            *)

\* Nothing has happened at the start.
LEMMA AttemptStarts ==
    ASSUME UpstreamAssumption, Init
    PROVE  AttemptInv
  <1>1. /\ th["exec"] = [pc |-> "insert", left |-> 0, after |-> "join"]
        /\ th["cancel"] = [pc |-> "idle", left |-> 0, after |-> "done"]
    BY DEF Init
  <1>2. th \in [Thread -> ThreadRow]
    BY DEF Init, Thread, ThreadRow, Pc, UpstreamAssumption
  <1>3. UpstreamTypeOK
    <2>1. queue \in Seq(FrameKind) /\ Len(queue) = 0
      BY DEF Init
    <2>2. Len(queue) <= QueueRoom /\ pipe \in 0..PipeRoom /\ notes \in 0..MaxNotes
          /\ emitted \in 0..MaxFrames
      BY <2>1 DEF Init, UpstreamAssumption
    <2> QED
      BY <1>2, <2>1, <2>2 DEF Init, UpstreamTypeOK, ThreadRow, Phase
  <1>4. Places /\ LockHeld /\ KillOwned /\ ChildLives /\ EntryFollows
    BY <1>1 DEF Init, Places, LockHeld, KillOwned, Claims, ChildLives, EntryFollows, Thread
  <1> QED
    BY <1>3, <1>4 DEF AttemptInv

\* Every step of either thread, the reader and the child keeps the invariant.
LEMMA AttemptStep ==
    ASSUME UpstreamAssumption, AttemptInv, [Next]_vars
    PROVE  AttemptInv'
  <1>1. ASSUME NEW t \in Thread, ControlNext(t) PROVE AttemptInv'
    BY <1>1, LockStdinKeeps, WriteUnitKeeps, WriteBrokenKeeps, TerminateKeeps, CloseStdinKeeps,
       KillKeeps DEF ControlNext
  <1>2. CASE ExecNext
    <2>1. "exec" \in Thread
      BY DEF Thread
    <2> QED
      BY <1>1, <1>2, <2>1, InsertKeeps, SpawnKeeps, ActivateKeeps, ReceiveKeeps,
         DisconnectedKeeps, TimeoutKeeps, RemoveKeeps, JoinKeeps DEF ExecNext
  <1>3. CASE Cancel
    BY <1>3, CancelKeeps
  <1>4. CASE CancelNext
    BY <1>1, <1>4 DEF CancelNext, Thread
  <1>5. CASE ReaderNext \/ ChildReads \/ ChildExits
    BY <1>5, WorldKeeps
  <1>6. CASE UNCHANGED vars
    <2>1. UNCHANGED <<attempt, th, phase, result, lock, stdinOpen, terminated, cancelled, child,
                      pipe, reader, queue, notes, emitted, caught>>
      BY <1>6 DEF vars
    <2>2. UpstreamTypeOK'
      BY <2>1 DEF AttemptInv, UpstreamTypeOK
    <2> QED
      BY <2>1, <2>2, OutsideKeeps
  <1> QED
    BY <1>2, <1>3, <1>4, <1>5, <1>6 DEF Next

\* One attempt of StdioMcpProviderV1, whatever the child does and whenever cancel
\* is called: a running child has an owner that will kill it, nothing is left of
\* it when execute and cancel have returned, and a cancellation that found the
\* attempt starting is not lost.
THEOREM AttemptSound ==
    ASSUME UpstreamAssumption
    PROVE  Spec => []AttemptIsSound
  <1>1. Init => AttemptInv
    BY AttemptStarts
  <1>2. AttemptInv /\ [Next]_vars => AttemptInv'
    BY AttemptStep
  <1>3. AttemptInv => AttemptIsSound
    <2> SUFFICES ASSUME AttemptInv PROVE AttemptIsSound
      OBVIOUS
    <2>1. Places /\ LockHeld /\ KillOwned /\ ChildLives /\ EntryFollows /\ UpstreamTypeOK
      BY DEF AttemptInv
    <2>2. ChildHasOwner
      BY <2>1 DEF ChildHasOwner, Running, ChildLives, KillOwned, Claims
    <2>3. NothingLeftBehind
      <3>1. th["exec"].pc = "done" /\ th["cancel"].pc \in {"idle", "done"} => lock = "free"
        BY <2>1 DEF LockHeld, Thread, UpstreamTypeOK
      <3> QED
        BY <2>1, <3>1 DEF NothingLeftBehind, ChildLives, KillOwned, Claims, EntryFollows
    <2>4. CancelledStartFails
      BY <2>1 DEF CancelledStartFails, EntryFollows
    <2> QED
      BY <2>1, <2>2, <2>3, <2>4 DEF AttemptIsSound
  <1> QED
    BY <1>1, <1>2, <1>3, PTL DEF Spec
=============================================================================
