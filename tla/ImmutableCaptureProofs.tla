------------------------ MODULE ImmutableCaptureProofs ------------------------
(***************************************************************************)
(* CaptureIsSound of ImmutableCapture, for any number of signals and any   *)
(* number of descendants of a run.                                         *)
(*                                                                         *)
(* What is gone stays gone: a group whose leader has been waited for and   *)
(* that has no member can get no new one (Later).  So it is enough to know *)
(* at which places of the thread the group of the present run is gone, and *)
(* that the locals of run_once (status, group_alive) never say more than   *)
(* is true of it.  A signal that was handled is in the flags until finish  *)
(* has read them, and is the outcome from then on; the gate passes only    *)
(* while no signal has been handled.                                       *)
(***************************************************************************)
EXTENDS ImmutableCapture, TLAPS

Place == {"install", "prepare", "gate", "spawn", "retain", "loop", "read", "poll", "release",
          "complete", "verify", "kill", "reap", "rekill", "drain", "finish", "route", "publish",
          "end", "dead"}
GroupRow == [leader : {"none", "runs", "dying", "zombie", "reaped"},
             inside : Nat, doomed : Nat, outside : Nat, forks : Nat,
             open : BOOLEAN]

Unborn(g) == g.leader = "none"
Gone(g) == g.leader \in {"none", "reaped"} /\ g.inside = 0 /\ g.doomed = 0

\* What becomes of a group whoever acts on it, once it has been started.
Later(g, h) ==
    /\ h \in GroupRow
    /\ Unborn(h) <=> Unborn(g)
    /\ g.leader = "reaped" => h.leader = "reaped"
    /\ g.leader # "runs" => h.leader # "runs"
    /\ Gone(g) => Gone(h)

CaptureTypes ==
    /\ pc \in Place /\ run \in Runs
    /\ flags \in [first : BOOLEAN, escalated : BOOLEAN]
    /\ group \in [Runs -> GroupRow]
    /\ local \in [status : BOOLEAN, alive : BOOLEAN, eof : BOOLEAN, interrupted : BOOLEAN]
    /\ ending \in {"none", "afterStart", "interrupted"}
    /\ outcome \in {"none", "beforeStart", "afterStart", "interrupted", "validated"}
    /\ user \in {"waits", "fallback", "output", "nothing"}
    /\ ghost \in [handled : BOOLEAN, barred : BOOLEAN, late : BOOLEAN, gaveUp : BOOLEAN]

\* Where the groups of the runs are over.
GroupsFollow ==
    /\ \A r \in Runs : Unborn(group[r]) => Gone(group[r])
    /\ run = 1 => Unborn(group[2])
    /\ run = 2 => Gone(group[1])
    /\ pc \in {"install", "prepare"} => run = 1
    /\ pc \in {"install", "prepare", "gate", "spawn"} => Unborn(group[run])
    /\ pc \in {"release", "complete", "verify"} => Gone(group[run])
    /\ pc \in {"drain", "finish", "route", "publish", "end"} => ghost.gaveUp \/ Gone(group[run])
    /\ pc \in {"reap", "rekill", "drain", "finish", "route", "publish", "end"} =>
          group[run].leader # "runs"

\* The group of run_once, and what its locals say of it.
RunOnce == {"retain", "loop", "read", "poll", "kill", "reap", "rekill"}
LocalsTrue ==
    pc \in RunOnce =>
        /\ ~Unborn(group[run])
        /\ local.status \/ local.alive
        /\ local.status => group[run].leader = "reaped"
        /\ local.status /\ ~local.alive => Gone(group[run])

\* The published group.
Published ==
    /\ pgid # 0 =>
          /\ pgid = run /\ ~Unborn(group[run])
          /\ pc \in {"loop", "read", "poll", "release", "kill", "reap", "rekill", "drain",
                     "finish"}
    /\ pc \in {"release", "drain"} => ~Unborn(group[run])

\* Nothing was started before a capture that ends as not started, and nothing
\* is left of a capture that is validated.
Started ==
    /\ outcome = "beforeStart" =>
          /\ pc \in {"finish", "route", "end", "dead"}
          /\ \A r \in Runs : Unborn(group[r])
    /\ outcome = "validated" =>
          /\ pc \in {"finish", "route", "publish", "end", "dead"}
          /\ \A r \in Runs : Gone(group[r])
    /\ user = "fallback" => pc = "end" /\ outcome = "beforeStart"
    /\ pc = "end" <=> user # "waits"

\* A signal that was handled.
Honoured ==
    /\ ghost.handled => pc # "install"
    /\ ghost.handled => flags.first \/ pc \in {"route", "publish", "end", "dead"}
    /\ ghost.handled /\ pc \in {"route", "publish", "end"} => outcome = "interrupted"
    /\ pc = "publish" => outcome = "validated"
    /\ ghost.barred => ghost.handled /\ pc # "spawn"
    /\ ~ghost.late

CaptureInv ==
    CaptureTypes /\ GroupsFollow /\ LocalsTrue /\ Published /\ Started /\ Honoured

-----------------------------------------------------------------------------
(* What becomes of a group.                                                *)

\* A kill and a wait make a group only later.
LEMMA GroupActs ==
    ASSUME NEW g \in GroupRow
    PROVE  /\ Later(g, g) /\ Later(g, Killed(g)) /\ Later(g, Waited(g))
           /\ Killed(g).leader = "zombie" <=> g.leader = "zombie"
           /\ Killed(g).leader # "runs"
           /\ g.leader = "zombie" => Waited(g).leader = "reaped"
           /\ Waited(g).inside = g.inside /\ Waited(g).doomed = g.doomed
  <1>1. Killed(g) \in GroupRow /\ Waited(g) \in GroupRow
    <2>1. g.doomed + g.inside \in Nat /\ 0 \in Nat
      BY DEF GroupRow
    <2>2. Killed(g) \in GroupRow
      BY <2>1 DEF Killed, GroupRow
    <2>3. Waited(g) \in GroupRow
      BY DEF Waited, GroupRow
    <2> QED
      BY <2>2, <2>3
  <1>2. /\ Killed(g).leader = IF g.leader = "runs" THEN "dying" ELSE g.leader
        /\ Killed(g).inside = 0 /\ Killed(g).doomed = g.doomed + g.inside
    BY DEF Killed, GroupRow
  <1>3. /\ Waited(g).leader = IF g.leader = "zombie" THEN "reaped" ELSE g.leader
        /\ Waited(g).inside = g.inside /\ Waited(g).doomed = g.doomed
    BY DEF Waited, GroupRow
  <1>4. Later(g, g) /\ Later(g, Killed(g)) /\ Later(g, Waited(g))
    BY <1>1, <1>2, <1>3 DEF Later, Unborn, Gone, GroupRow
  <1> QED
    BY <1>2, <1>3, <1>4

\* Two members or none: what Exists sees of a group.
LEMMA ExistsSees ==
    ASSUME group \in [Runs -> GroupRow], NEW r \in Runs
    PROVE  /\ Members(r) > 0 <=> ~(group[r].inside = 0 /\ group[r].doomed = 0)
           /\ ~Exists(r) <=> Gone(group[r])
  <1>1. group[r].inside \in Nat /\ group[r].doomed \in Nat
    BY DEF GroupRow
  <1>2. group[r].leader \in {"none", "runs", "dying", "zombie", "reaped"}
    BY DEF GroupRow
  <1>3. Members(r) > 0 <=> ~(group[r].inside = 0 /\ group[r].doomed = 0)
    BY <1>1 DEF Members
  <1> QED
    BY <1>2, <1>3 DEF Exists, Gone

\* One group changes, and the other stays as it is.
LEMMA OneGroup ==
    ASSUME group \in [Runs -> GroupRow], NEW r \in Runs, NEW h, Later(group[r], h),
           group' = [group EXCEPT ![r] = h]
    PROVE  /\ group' \in [Runs -> GroupRow] /\ group'[r] = h
           /\ \A q \in Runs : Later(group[q], group'[q])
  <1>1. h \in GroupRow
    BY DEF Later
  <1>2. group'[r] = h /\ group' \in [Runs -> GroupRow] /\ \A q \in Runs \ {r} : group'[q] = group[q]
    BY <1>1
  <1>3. \A q \in Runs : Later(group[q], group[q])
    BY GroupActs
  <1> QED
    BY <1>2, <1>3

\* The parts of the invariant that say nothing of the place survive whatever
\* happens to the groups.
LEMMA GroupsStay ==
    ASSUME CaptureInv, group' \in [Runs -> GroupRow], \A r \in Runs : Later(group[r], group'[r]),
           UNCHANGED <<pc, run, flags, pgid, local, ending, kept, outcome, user, ghost>>
    PROVE  CaptureInv'
  <1>1. /\ CaptureTypes /\ GroupsFollow /\ LocalsTrue /\ Published /\ Started /\ Honoured
        /\ run \in Runs /\ 1 \in Runs /\ 2 \in Runs
    BY DEF CaptureInv, CaptureTypes, Runs
  <1>2. CaptureTypes'
    BY <1>1 DEF CaptureTypes
  <1>3. GroupsFollow'
    BY <1>1 DEF GroupsFollow, Later
  <1>4. LocalsTrue' /\ Published'
    BY <1>1 DEF LocalsTrue, Published, Later
  <1>5. Started'
    BY <1>1 DEF Started, Later
  <1>6. Honoured'
    BY <1>1 DEF Honoured
  <1> QED
    BY <1>2, <1>3, <1>4, <1>5, <1>6 DEF CaptureInv

\* Descendants are forked, end and leave; the leader ends.
LEMMA EnvironmentKeeps ==
    ASSUME CaptureInv, Environment
    PROVE  CaptureInv'
  <1>1. group \in [Runs -> GroupRow] /\ \A r \in Runs : Unborn(group[r]) => Gone(group[r])
    BY DEF CaptureInv, CaptureTypes, GroupsFollow
  <1>2. PICK r \in Runs :
             Fork(r) \/ LeaderEnds(r) \/ MemberEnds(r) \/ MemberLeaves(r) \/ CloseOutput(r)
    BY DEF Environment
  <1>3. UNCHANGED <<pc, run, flags, pgid, local, ending, kept, outcome, user, ghost>>
    BY DEF Environment, thread
  <1>4. /\ group[r].inside \in Nat /\ group[r].doomed \in Nat /\ group[r].outside \in Nat
        /\ group[r].forks \in Nat /\ group[r] \in GroupRow
    BY <1>1 DEF GroupRow
  <1>5. \E h : group' = [group EXCEPT ![r] = h] /\ Later(group[r], h)
    <2>1. CASE Fork(r)
      <3> DEFINE h == [group[r] EXCEPT !.inside = @ + 1, !.forks = @ + 1]
      <3>1. group' = [group EXCEPT ![r] = h] /\ ~Gone(group[r]) /\ ~Unborn(group[r])
        BY <1>1, <1>4, <2>1, ExistsSees DEF Fork, Running, Gone, Unborn
      <3>2. group[r].inside + 1 \in Nat /\ group[r].forks + 1 \in Nat
        BY <1>4
      <3>3. h \in GroupRow /\ h.leader = group[r].leader
        BY <1>4, <3>2 DEF GroupRow
      <3> QED
        BY <3>1, <3>3 DEF Later, Unborn
    <2>2. CASE LeaderEnds(r)
      <3> DEFINE h == [group[r] EXCEPT !.leader = "zombie"]
      <3>1. group' = [group EXCEPT ![r] = h] /\ group[r].leader \in {"runs", "dying"}
        BY <1>1, <2>2 DEF LeaderEnds, Running
      <3>2. h \in GroupRow /\ h.leader = "zombie"
        BY <1>4 DEF GroupRow
      <3> QED
        BY <3>1, <3>2 DEF Later, Unborn, Gone
    <2>3. ASSUME NEW h \in GroupRow, h.leader = group[r].leader, ~Gone(group[r]),
                 group' = [group EXCEPT ![r] = h]
          PROVE  Later(group[r], h)
      BY <2>3 DEF Later, Unborn
    <2>4. CASE group[r].inside > 0 /\ group' = [group EXCEPT ![r].inside = @ - 1]
      <3> DEFINE h == [group[r] EXCEPT !.inside = @ - 1]
      <3>1. group' = [group EXCEPT ![r] = h] /\ ~Gone(group[r])
        BY <1>1, <1>4, <2>4 DEF Gone
      <3>2. group[r].inside - 1 \in Nat
        BY <1>4, <2>4
      <3>3. h \in GroupRow /\ h.leader = group[r].leader
        BY <1>4, <3>2 DEF GroupRow
      <3> QED
        BY <2>3, <3>1, <3>3
    <2>5. CASE group[r].doomed > 0 /\ group' = [group EXCEPT ![r].doomed = @ - 1]
      <3> DEFINE h == [group[r] EXCEPT !.doomed = @ - 1]
      <3>1. group' = [group EXCEPT ![r] = h] /\ ~Gone(group[r])
        BY <1>1, <1>4, <2>5 DEF Gone
      <3>2. group[r].doomed - 1 \in Nat
        BY <1>4, <2>5
      <3>3. h \in GroupRow /\ h.leader = group[r].leader
        BY <1>4, <3>2 DEF GroupRow
      <3> QED
        BY <2>3, <3>1, <3>3
    <2>6. CASE group[r].outside > 0 /\ group' = [group EXCEPT ![r].outside = @ - 1]
      <3> DEFINE h == [group[r] EXCEPT !.outside = @ - 1]
      <3>1. group' = [group EXCEPT ![r] = h]
        BY <1>1, <2>6
      <3>2. group[r].outside - 1 \in Nat
        BY <1>4, <2>6
      <3>3. /\ h \in GroupRow /\ h.leader = group[r].leader /\ h.inside = group[r].inside
            /\ h.doomed = group[r].doomed
        BY <1>4, <3>2 DEF GroupRow
      <3> QED
        BY <3>1, <3>3 DEF Later, Unborn, Gone
    <2>7. CASE MemberLeaves(r)
      <3> DEFINE h == [group[r] EXCEPT !.inside = @ - 1, !.outside = @ + 1]
      <3>1. group' = [group EXCEPT ![r] = h] /\ ~Gone(group[r])
        <4>1. group' = [group EXCEPT ![r] = h]
          BY <1>1, <2>7 DEF MemberLeaves
        <4>2. ~Gone(group[r])
          BY <1>4, <2>7 DEF Gone, MemberLeaves
        <4> QED
          BY <4>1, <4>2
      <3>2. group[r].inside - 1 \in Nat /\ group[r].outside + 1 \in Nat
        BY <1>4, <2>7 DEF MemberLeaves
      <3>3. h \in GroupRow /\ h.leader = group[r].leader
        BY <1>4, <3>2 DEF GroupRow
      <3> QED
        BY <2>3, <3>1, <3>3
    <2>8. CASE CloseOutput(r)
      <3> DEFINE h == [group[r] EXCEPT !.open = FALSE]
      <3>1. group' = [group EXCEPT ![r] = h]
        BY <1>1, <2>8 DEF CloseOutput
      <3>2. /\ h \in GroupRow /\ h.leader = group[r].leader /\ h.inside = group[r].inside
            /\ h.doomed = group[r].doomed
        BY <1>4 DEF GroupRow
      <3> QED
        BY <3>1, <3>2 DEF Later, Unborn, Gone
    <2> QED
      BY <1>2, <2>1, <2>2, <2>4, <2>5, <2>6, <2>7, <2>8 DEF MemberEnds
  <1>6. group' \in [Runs -> GroupRow] /\ \A q \in Runs : Later(group[q], group'[q])
    BY <1>1, <1>5, OneGroup
  <1> QED
    BY <1>3, <1>6, GroupsStay

-----------------------------------------------------------------------------
(* The steps of the thread that leave the groups alone.                    *)

\* The scope is installed, or nothing was started.
LEMMA InstallKeeps ==
    ASSUME CaptureInv, Install
    PROVE  CaptureInv'
  <1>1. /\ CaptureTypes /\ GroupsFollow /\ LocalsTrue /\ Published /\ Started /\ Honoured
        /\ run \in Runs /\ 1 \in Runs /\ 2 \in Runs
    BY DEF CaptureInv, CaptureTypes, Runs
  <1>2. CaptureTypes'
    BY <1>1 DEF Install, CaptureTypes, Place, Runs
  <1>3. GroupsFollow'
    BY <1>1 DEF Install, GroupsFollow, Gone, Unborn, Runs
  <1>4. LocalsTrue' /\ Published'
    BY <1>1 DEF Install, LocalsTrue, RunOnce, Published, GroupsFollow, CaptureTypes
  <1>5. Started'
    BY <1>1 DEF Install, Started, GroupsFollow, Runs
  <1>6. Honoured'
    BY <1>1 DEF Install, Honoured, CaptureTypes
  <1> QED
    BY <1>2, <1>3, <1>4, <1>5, <1>6 DEF CaptureInv

\* Nothing has been started yet.
LEMMA PrepareKeeps ==
    ASSUME CaptureInv, Prepare
    PROVE  CaptureInv'
  <1>1. /\ CaptureTypes /\ GroupsFollow /\ LocalsTrue /\ Published /\ Started /\ Honoured
        /\ run \in Runs /\ 1 \in Runs /\ 2 \in Runs
    BY DEF CaptureInv, CaptureTypes, Runs
  <1>2. CaptureTypes'
    BY <1>1 DEF Prepare, CaptureTypes, Place, Runs, Ends
  <1>3. GroupsFollow'
    BY <1>1 DEF Prepare, GroupsFollow, Gone, Unborn, Runs, Ends
  <1>4. LocalsTrue' /\ Published'
    BY <1>1 DEF Prepare, LocalsTrue, RunOnce, Published, GroupsFollow, CaptureTypes, Ends
  <1>5. Started'
    BY <1>1 DEF Prepare, Started, GroupsFollow, Runs, Ends
  <1>6. Honoured'
    BY <1>1 DEF Prepare, Honoured, CaptureTypes, Ends
  <1> QED
    BY <1>2, <1>3, <1>4, <1>5, <1>6 DEF CaptureInv

\* The gate passes only while no signal has been handled.
LEMMA GateKeeps ==
    ASSUME CaptureInv, Gate
    PROVE  CaptureInv'
  <1>1. /\ CaptureTypes /\ GroupsFollow /\ LocalsTrue /\ Published /\ Started /\ Honoured
        /\ run \in Runs /\ 1 \in Runs /\ 2 \in Runs
    BY DEF CaptureInv, CaptureTypes, Runs
  <1>2. CaptureTypes'
    BY <1>1 DEF Gate, CaptureTypes, Place, Runs, Ends
  <1>3. GroupsFollow'
    BY <1>1 DEF Gate, GroupsFollow, Gone, Unborn, Runs, Ends
  <1>4. LocalsTrue' /\ Published'
    BY <1>1 DEF Gate, LocalsTrue, RunOnce, Published, GroupsFollow, CaptureTypes, Ends
  <1>5. Started'
    BY <1>1 DEF Gate, Started, GroupsFollow, Runs, Ends
  <1>6. Honoured'
    BY <1>1 DEF Gate, Honoured, CaptureTypes, Ends
  <1> QED
    BY <1>2, <1>3, <1>4, <1>5, <1>6 DEF CaptureInv

\* The loop goes round.
LEMMA LoopTopKeeps ==
    ASSUME CaptureInv, LoopTop
    PROVE  CaptureInv'
  <1>1. /\ CaptureTypes /\ GroupsFollow /\ LocalsTrue /\ Published /\ Started /\ Honoured
        /\ run \in Runs /\ 1 \in Runs /\ 2 \in Runs
    BY DEF CaptureInv, CaptureTypes, Runs
  <1>2. CaptureTypes'
    BY <1>1 DEF LoopTop, CaptureTypes, Place, Runs
  <1>3. GroupsFollow'
    BY <1>1 DEF LoopTop, GroupsFollow, Runs
  <1>4. LocalsTrue' /\ Published'
    BY <1>1 DEF LoopTop, LocalsTrue, RunOnce, Published, GroupsFollow, CaptureTypes
  <1>5. Started'
    BY <1>1 DEF LoopTop, Started, GroupsFollow, Runs
  <1>6. Honoured'
    BY <1>1 DEF LoopTop, Honoured, CaptureTypes
  <1> QED
    BY <1>2, <1>3, <1>4, <1>5, <1>6 DEF CaptureInv

\* The grace period or the timeout is over.
LEMMA LoopExpiresKeeps ==
    ASSUME CaptureInv, LoopExpires
    PROVE  CaptureInv'
  <1>1. /\ CaptureTypes /\ GroupsFollow /\ LocalsTrue /\ Published /\ Started /\ Honoured
        /\ run \in Runs /\ 1 \in Runs /\ 2 \in Runs
    BY DEF CaptureInv, CaptureTypes, Runs
  <1>2. CaptureTypes'
    BY <1>1 DEF LoopExpires, CaptureTypes, Place, Runs
  <1>3. GroupsFollow'
    BY <1>1 DEF LoopExpires, GroupsFollow, Runs
  <1>4. LocalsTrue' /\ Published'
    BY <1>1 DEF LoopExpires, LocalsTrue, RunOnce, Published, GroupsFollow, CaptureTypes
  <1>5. Started'
    BY <1>1 DEF LoopExpires, Started, GroupsFollow, Runs
  <1>6. Honoured'
    BY <1>1 DEF LoopExpires, Honoured, CaptureTypes
  <1> QED
    BY <1>2, <1>3, <1>4, <1>5, <1>6 DEF CaptureInv

\* The streams are read.
LEMMA ReadKeeps ==
    ASSUME CaptureInv, Read
    PROVE  CaptureInv'
  <1>1. /\ CaptureTypes /\ GroupsFollow /\ LocalsTrue /\ Published /\ Started /\ Honoured
        /\ run \in Runs /\ 1 \in Runs /\ 2 \in Runs
    BY DEF CaptureInv, CaptureTypes, Runs
  <1>2. CaptureTypes'
    <2>1. local' \in {local, [local EXCEPT !.eof = TRUE]}
      BY DEF Read
    <2>2. local' \in [status : BOOLEAN, alive : BOOLEAN, eof : BOOLEAN, interrupted : BOOLEAN]
      BY <1>1, <2>1 DEF CaptureTypes
    <2> QED
      BY <1>1, <2>2 DEF Read, CaptureTypes, Place
  <1>3. GroupsFollow'
    BY <1>1 DEF Read, GroupsFollow, Runs
  <1>4. LocalsTrue' /\ Published'
    BY <1>1 DEF Read, LocalsTrue, RunOnce, Published, GroupsFollow, CaptureTypes
  <1>5. Started'
    BY <1>1 DEF Read, Started, GroupsFollow, Runs
  <1>6. Honoured'
    BY <1>1 DEF Read, Honoured, CaptureTypes
  <1> QED
    BY <1>2, <1>3, <1>4, <1>5, <1>6 DEF CaptureInv

\* The group is gone and is released.
LEMMA ReleaseKeeps ==
    ASSUME CaptureInv, Release
    PROVE  CaptureInv'
  <1>1. /\ CaptureTypes /\ GroupsFollow /\ LocalsTrue /\ Published /\ Started /\ Honoured
        /\ run \in Runs /\ 1 \in Runs /\ 2 \in Runs
    BY DEF CaptureInv, CaptureTypes, Runs
  <1>2. CaptureTypes'
    BY <1>1 DEF Release, CaptureTypes, Place, Runs, Ends, AfterStart
  <1>3. GroupsFollow'
    BY <1>1 DEF Release, GroupsFollow, Gone, Unborn, Runs, Ends, AfterStart
  <1>4. LocalsTrue' /\ Published'
    BY <1>1 DEF Release, LocalsTrue, RunOnce, Published, GroupsFollow, CaptureTypes, Ends, AfterStart
  <1>5. Started'
    BY <1>1 DEF Release, Started, GroupsFollow, Runs, Ends, AfterStart
  <1>6. Honoured'
    BY <1>1 DEF Release, Honoured, CaptureTypes, Ends, AfterStart
  <1> QED
    BY <1>2, <1>3, <1>4, <1>5, <1>6 DEF CaptureInv

\* The execution is kept, and an interruption ends the capture.
LEMMA CompleteKeeps ==
    ASSUME CaptureInv, Complete
    PROVE  CaptureInv'
  <1>1. /\ CaptureTypes /\ GroupsFollow /\ LocalsTrue /\ Published /\ Started /\ Honoured
        /\ run \in Runs /\ 1 \in Runs /\ 2 \in Runs
    BY DEF CaptureInv, CaptureTypes, Runs
  <1>2. CaptureTypes'
    BY <1>1 DEF Complete, CaptureTypes, Place, Runs, Ends
  <1>3. GroupsFollow'
    BY <1>1 DEF Complete, GroupsFollow, Gone, Unborn, Runs, Ends
  <1>4. LocalsTrue' /\ Published'
    BY <1>1 DEF Complete, LocalsTrue, RunOnce, Published, GroupsFollow, CaptureTypes, Ends
  <1>5. Started'
    BY <1>1 DEF Complete, Started, GroupsFollow, Runs, Ends
  <1>6. Honoured'
    BY <1>1 DEF Complete, Honoured, CaptureTypes, Ends
  <1> QED
    BY <1>2, <1>3, <1>4, <1>5, <1>6 DEF CaptureInv

\* The group is gone, or its cleanup has given up.
LEMMA DrainKeeps ==
    ASSUME CaptureInv, Drain
    PROVE  CaptureInv'
  <1>1. /\ CaptureTypes /\ GroupsFollow /\ LocalsTrue /\ Published /\ Started /\ Honoured
        /\ run \in Runs /\ 1 \in Runs /\ 2 \in Runs
    BY DEF CaptureInv, CaptureTypes, Runs
  <1>2. CaptureTypes'
    BY <1>1 DEF Drain, CaptureTypes, Place, Runs, Ends
  <1>3. GroupsFollow'
    BY <1>1 DEF Drain, GroupsFollow, Runs, Ends
  <1>4. LocalsTrue' /\ Published'
    BY <1>1 DEF Drain, LocalsTrue, RunOnce, Published, GroupsFollow, CaptureTypes, Ends
  <1>5. Started'
    BY <1>1 DEF Drain, Started, CaptureTypes, Ends
  <1>6. Honoured'
    BY <1>1 DEF Drain, Honoured, CaptureTypes, Ends
  <1> QED
    BY <1>2, <1>3, <1>4, <1>5, <1>6 DEF CaptureInv

\* The second run begins when the group of the first is gone.
LEMMA VerifyKeeps ==
    ASSUME CaptureInv, Verify
    PROVE  CaptureInv'
  <1>1. /\ CaptureTypes /\ GroupsFollow /\ LocalsTrue /\ Published /\ Started /\ Honoured
        /\ run \in Runs /\ 1 \in Runs /\ 2 \in Runs
    BY DEF CaptureInv, CaptureTypes, Runs
  <1>2. CaptureTypes'
    BY <1>1 DEF Verify, CaptureTypes, Place, Runs, Ends, AfterStart
  <1>3. GroupsFollow'
    BY <1>1 DEF Verify, GroupsFollow, Gone, Unborn, Runs, Ends, AfterStart
  <1>4. LocalsTrue' /\ Published'
    BY <1>1 DEF Verify, LocalsTrue, RunOnce, Published, GroupsFollow, CaptureTypes, Ends, AfterStart
  <1>5. Started'
    BY <1>1 DEF Verify, Started, GroupsFollow, Runs, Ends, AfterStart
  <1>6. Honoured'
    BY <1>1 DEF Verify, Honoured, CaptureTypes, Ends, AfterStart
  <1> QED
    BY <1>2, <1>3, <1>4, <1>5, <1>6 DEF CaptureInv

\* The flags are read for the last time.
LEMMA FinishKeeps ==
    ASSUME CaptureInv, Finish
    PROVE  CaptureInv'
  <1>1. /\ CaptureTypes /\ GroupsFollow /\ LocalsTrue /\ Published /\ Started /\ Honoured
        /\ run \in Runs /\ 1 \in Runs /\ 2 \in Runs
    BY DEF CaptureInv, CaptureTypes, Runs
  <1>2. CaptureTypes'
    BY <1>1 DEF Finish, CaptureTypes, Place, Runs
  <1>3. GroupsFollow'
    BY <1>1 DEF Finish, GroupsFollow, Runs
  <1>4. LocalsTrue' /\ Published'
    BY <1>1 DEF Finish, LocalsTrue, RunOnce, Published, GroupsFollow, CaptureTypes
  <1>5. Started'
    BY <1>1 DEF Finish, Started, GroupsFollow, Runs
  <1>6. Honoured'
    BY <1>1 DEF Finish, Honoured, CaptureTypes
  <1> QED
    BY <1>2, <1>3, <1>4, <1>5, <1>6 DEF CaptureInv

\* The command is run again only if it was never started.
LEMMA RouteKeeps ==
    ASSUME CaptureInv, Route
    PROVE  CaptureInv'
  <1>1. /\ CaptureTypes /\ GroupsFollow /\ LocalsTrue /\ Published /\ Started /\ Honoured
        /\ run \in Runs /\ 1 \in Runs /\ 2 \in Runs
    BY DEF CaptureInv, CaptureTypes, Runs
  <1>2. CaptureTypes'
    BY <1>1 DEF Route, CaptureTypes, Place, Runs
  <1>3. GroupsFollow'
    BY <1>1 DEF Route, GroupsFollow, Runs
  <1>4. LocalsTrue' /\ Published'
    BY <1>1 DEF Route, LocalsTrue, RunOnce, Published, GroupsFollow, CaptureTypes
  <1>5. Started'
    BY <1>1 DEF Route, Started, GroupsFollow, Runs
  <1>6. Honoured'
    BY <1>1 DEF Route, Honoured, CaptureTypes
  <1> QED
    BY <1>2, <1>3, <1>4, <1>5, <1>6 DEF CaptureInv

\* A validated result is published.
LEMMA PublishKeeps ==
    ASSUME CaptureInv, Publish
    PROVE  CaptureInv'
  <1>1. /\ CaptureTypes /\ GroupsFollow /\ LocalsTrue /\ Published /\ Started /\ Honoured
        /\ run \in Runs /\ 1 \in Runs /\ 2 \in Runs
    BY DEF CaptureInv, CaptureTypes, Runs
  <1>2. CaptureTypes'
    BY <1>1 DEF Publish, CaptureTypes, Place, Runs
  <1>3. GroupsFollow'
    BY <1>1 DEF Publish, GroupsFollow, Runs
  <1>4. LocalsTrue' /\ Published'
    BY <1>1 DEF Publish, LocalsTrue, RunOnce, Published, GroupsFollow, CaptureTypes
  <1>5. Started'
    BY <1>1 DEF Publish, Started, GroupsFollow, Runs
  <1>6. Honoured'
    BY <1>1 DEF Publish, Honoured, CaptureTypes
  <1> QED
    BY <1>2, <1>3, <1>4, <1>5, <1>6 DEF CaptureInv

-----------------------------------------------------------------------------
(* The steps of run_once that act on its group.                            *)

LocalRow == [status : BOOLEAN, alive : BOOLEAN, eof : BOOLEAN, interrupted : BOOLEAN]

\* What such a step has to show: the locals stay true, and the loop and the cleanup
\* are left only when the group is gone or has been given up.
LEMMA RunStep ==
    ASSUME CaptureInv, pc \in RunOnce, pc' \in (RunOnce \ {"retain"}) \cup {"release", "drain"},
           group' \in [Runs -> GroupRow], \A r \in Runs : Later(group[r], group'[r]),
           UNCHANGED <<run, flags, outcome, user>>, local' \in LocalRow,
           ending' \in {ending, "afterStart"}, pgid' \in {0, run, pgid},
           ghost' \in {ghost, [ghost EXCEPT !.gaveUp = TRUE]}, LocalsTrue',
           pc' = "release" => Gone(group'[run]),
           pc' = "drain" => ghost'.gaveUp \/ Gone(group'[run]),
           pc' \in {"reap", "rekill", "drain"} => group'[run].leader # "runs"
    PROVE  CaptureInv'
  <1>1. /\ CaptureTypes /\ GroupsFollow /\ LocalsTrue /\ Published /\ Started /\ Honoured
        /\ run \in Runs /\ 1 \in Runs /\ 2 \in Runs
    BY DEF CaptureInv, CaptureTypes, Runs
  <1>2. /\ ghost' \in [handled : BOOLEAN, barred : BOOLEAN, late : BOOLEAN, gaveUp : BOOLEAN]
        /\ ghost'.handled = ghost.handled /\ ghost'.barred = ghost.barred
        /\ ghost'.late = ghost.late
    BY <1>1 DEF CaptureTypes
  <1>3. CaptureTypes'
    BY <1>1, <1>2 DEF CaptureTypes, Place, RunOnce, LocalRow
  <1>4. GroupsFollow'
    BY <1>1 DEF GroupsFollow, RunOnce, Later
  <1>5. Published'
    BY <1>1 DEF Published, LocalsTrue, RunOnce, Later
  <1>6. Started'
    BY <1>1 DEF Started, RunOnce, Later
  <1>7. Honoured'
    BY <1>1, <1>2 DEF Honoured, RunOnce
  <1> QED
    BY <1>3, <1>4, <1>5, <1>6, <1>7 DEF CaptureInv

\* The locals stay true of a group that only gets later.
LEMMA LocalsStay ==
    ASSUME CaptureInv, pc \in RunOnce, \A r \in Runs : Later(group[r], group'[r]),
           UNCHANGED <<run, local>>
    PROVE  LocalsTrue'
  <1>1. LocalsTrue /\ run \in Runs
    BY DEF CaptureInv, CaptureTypes
  <1> QED
    BY <1>1 DEF LocalsTrue, Later

\* The group of the run is killed or left alone.
LEMMA KillOrNot ==
    ASSUME CaptureInv, KillGroup(run) \/ UNCHANGED group
    PROVE  group' \in [Runs -> GroupRow] /\ \A r \in Runs : Later(group[r], group'[r])
  <1>1. group \in [Runs -> GroupRow] /\ run \in Runs /\ group[run] \in GroupRow
    BY DEF CaptureInv, CaptureTypes
  <1>2. CASE KillGroup(run)
    <2>1. Later(group[run], Killed(group[run])) /\ group' = [group EXCEPT ![run] = Killed(group[run])]
      BY <1>1, <1>2, GroupActs DEF KillGroup
    <2> QED
      BY <1>1, <2>1, OneGroup
  <1>3. CASE UNCHANGED group
    BY <1>1, <1>3, GroupActs
  <1> QED
    BY <1>2, <1>3

\* The group is published, and a signal that came before is forwarded.
LEMMA RetainKeeps ==
    ASSUME CaptureInv, Retain
    PROVE  CaptureInv'
  <1>1. KillGroup(run) \/ UNCHANGED group
    BY DEF Retain
  <1>2. pc \in RunOnce /\ pc' \in {"loop", "kill"} /\ UNCHANGED <<run, flags, outcome, user, local, ghost>>
    BY DEF Retain, RunOnce
  <1>3. ending' \in {ending, "afterStart"} /\ pgid' \in {0, run, pgid} /\ local' \in LocalRow
    BY <1>2 DEF Retain, CaptureInv, CaptureTypes, LocalRow
  <1>4. LocalsTrue' /\ pc' \in RunOnce \ {"retain"}
    BY <1>1, <1>2, KillOrNot, LocalsStay DEF RunOnce
  <1> QED
    BY <1>1, <1>2, <1>3, <1>4, KillOrNot, RunStep

\* The leader is waited for, and the members are counted.
LEMMA PollKeeps ==
    ASSUME CaptureInv, Poll
    PROVE  CaptureInv'
  <1> DEFINE g == group[run]
             status == local.status \/ g.leader = "zombie"
             alive == Members(run) > 0
  <1>1. /\ group \in [Runs -> GroupRow] /\ run \in Runs /\ g \in GroupRow /\ local \in LocalRow
        /\ LocalsTrue
    BY DEF CaptureInv, CaptureTypes, LocalRow
  <1>2. /\ pc = "poll" /\ group' = [group EXCEPT ![run] = Waited(g)]
        /\ local' = [local EXCEPT !.status = status, !.alive = IF status THEN alive ELSE @]
        /\ pc' = IF status /\ ~alive /\ local.eof THEN "release" ELSE "loop"
        /\ UNCHANGED <<run, ending, flags, outcome, user, pgid, ghost>>
    BY DEF Poll
  <1>3. /\ group' \in [Runs -> GroupRow] /\ \A r \in Runs : Later(group[r], group'[r])
        /\ group'[run] = Waited(g)
    BY <1>1, <1>2, GroupActs, OneGroup
  <1>4. local' \in LocalRow /\ local'.status = status /\ local'.alive = IF status THEN alive ELSE local.alive
    <2>1. status \in BOOLEAN /\ alive \in BOOLEAN
      OBVIOUS
    <2> HIDE DEF status, alive
    <2> QED
      BY <1>1, <1>2, <2>1 DEF LocalRow
  <1>5. status => group'[run].leader = "reaped"
    BY <1>1, <1>2, <1>3, GroupActs DEF LocalsTrue, RunOnce, Waited, GroupRow
  <1>6. status /\ ~alive => Gone(group'[run])
    BY <1>1, <1>3, <1>5, ExistsSees, GroupActs DEF Gone
  <1>7. ~Unborn(group'[run]) /\ (status \/ local.alive)
    BY <1>1, <1>2, <1>3 DEF LocalsTrue, RunOnce, Later
  <1> HIDE DEF status, alive, g
  <1>8. LocalsTrue'
    BY <1>2, <1>4, <1>5, <1>6, <1>7 DEF LocalsTrue
  <1>9. /\ pc \in RunOnce /\ pc' \in (RunOnce \ {"retain"}) \cup {"release", "drain"}
        /\ pc' = "release" => Gone(group'[run])
        /\ pc' # "drain"
    BY <1>2, <1>6 DEF RunOnce
  <1> QED
    BY <1>2, <1>3, <1>4, <1>8, <1>9, RunStep

\* A failed call is not taken for the end of the group.
LEMMA PollFailsKeeps ==
    ASSUME CaptureInv, PollFails
    PROVE  CaptureInv'
  <1>1. /\ group \in [Runs -> GroupRow] /\ run \in Runs /\ group[run] \in GroupRow
        /\ local \in LocalRow /\ LocalsTrue
    BY DEF CaptureInv, CaptureTypes, LocalRow
  <1>2. /\ pc = "poll" /\ pc' = "kill" /\ ending' = "afterStart"
        /\ UNCHANGED <<run, flags, outcome, user, pgid, ghost>>
        /\ pc \in RunOnce /\ pc' \in RunOnce \ {"retain"}
    BY DEF PollFails, RunOnce
  <1>3. CASE UNCHANGED <<group, local>>
    <2>1. group' \in [Runs -> GroupRow] /\ \A r \in Runs : Later(group[r], group'[r])
      BY <1>3, KillOrNot
    <2>2. LocalsTrue' /\ local' \in LocalRow
      BY <1>1, <1>2, <1>3, <2>1, LocalsStay
    <2> QED
      BY <1>2, <2>1, <2>2, RunStep
  <1>4. CASE /\ local.status \/ group[run].leader = "zombie"
             /\ group' = [group EXCEPT ![run] = Waited(@)]
             /\ local' = [local EXCEPT !.status = TRUE, !.alive = TRUE]
    <2>1. /\ group' \in [Runs -> GroupRow] /\ \A r \in Runs : Later(group[r], group'[r])
          /\ group'[run] = Waited(group[run])
      <3>1. group' = [group EXCEPT ![run] = Waited(group[run])]
        BY <1>4
      <3> QED
        BY <1>1, <3>1, GroupActs, OneGroup
    <2>2. local' \in LocalRow /\ local'.alive = TRUE
      BY <1>1, <1>4 DEF LocalRow
    <2>3. group'[run].leader = "reaped"
      BY <1>1, <1>2, <1>4, <2>1, GroupActs DEF LocalsTrue, Later
    <2>4. LocalsTrue'
      BY <1>2, <2>2, <2>3 DEF LocalsTrue, Unborn
    <2> QED
      BY <1>2, <2>1, <2>2, <2>4, RunStep
  <1> QED
    BY <1>3, <1>4 DEF PollFails

\* terminate_and_reap kills what may still be there.
LEMMA TerminateKillKeeps ==
    ASSUME CaptureInv, TerminateKill
    PROVE  CaptureInv'
  <1>1. KillGroup(run) \/ UNCHANGED group
    BY DEF TerminateKill
  <1>2. /\ pc = "kill" /\ pc \in RunOnce
        /\ pc' = IF local.status THEN (IF local.alive THEN "rekill" ELSE "drain") ELSE "reap"
        /\ UNCHANGED <<run, flags, pgid, local, ending, outcome, user, ghost>>
    BY DEF TerminateKill, thread, RunOnce
  <1>3. group' \in [Runs -> GroupRow] /\ \A r \in Runs : Later(group[r], group'[r])
    BY <1>1, KillOrNot
  <1>4. LocalsTrue' /\ local' \in LocalRow /\ LocalsTrue /\ run \in Runs
    BY <1>2, <1>3, LocalsStay DEF CaptureInv, CaptureTypes, LocalRow
  <1>5. group'[run].leader # "runs"
    <2>1. group \in [Runs -> GroupRow] /\ group[run] \in GroupRow
      BY <1>4 DEF CaptureInv, CaptureTypes
    <2>2. CASE KillGroup(run)
      <3>1. group'[run] = Killed(group[run])
        BY <1>4, <2>1, <2>2 DEF KillGroup
      <3> QED
        BY <2>1, <3>1, GroupActs
    <2>3. CASE ~KillGroup(run)
      <3>1. local.status /\ UNCHANGED group
        BY <2>3 DEF TerminateKill
      <3> QED
        BY <1>2, <1>4, <3>1 DEF LocalsTrue
    <2> QED
      BY <2>2, <2>3
  <1>6. /\ pc' \in (RunOnce \ {"retain"}) \cup {"release", "drain"} /\ pc' # "release"
        /\ pc' = "drain" => Gone(group'[run])
    BY <1>2, <1>3, <1>4 DEF LocalsTrue, RunOnce, Later
  <1> QED
    BY <1>2, <1>3, <1>4, <1>5, <1>6, RunStep

\* child.wait
LEMMA TerminateReapKeeps ==
    ASSUME CaptureInv, TerminateReap
    PROVE  CaptureInv'
  <1>1. /\ group \in [Runs -> GroupRow] /\ run \in Runs /\ group[run] \in GroupRow
        /\ local \in LocalRow /\ LocalsTrue /\ group[run].leader # "runs"
    BY DEF CaptureInv, CaptureTypes, LocalRow, GroupsFollow, TerminateReap
  <1>2. /\ pc = "reap" /\ pc' = "rekill"
        /\ UNCHANGED <<run, flags, ending, outcome, user, pgid, ghost>>
        /\ pc \in RunOnce /\ pc' \in RunOnce \ {"retain"}
    BY DEF TerminateReap, RunOnce
  <1>3. CASE /\ group[run].leader = "zombie"
             /\ group' = [group EXCEPT ![run] = Waited(@)]
             /\ local' = [local EXCEPT !.status = TRUE]
    <2>1. /\ group' \in [Runs -> GroupRow] /\ \A r \in Runs : Later(group[r], group'[r])
          /\ group'[run] = Waited(group[run])
      <3>1. group' = [group EXCEPT ![run] = Waited(group[run])]
        BY <1>3
      <3> QED
        BY <1>1, <3>1, GroupActs, OneGroup
    <2>2. group'[run].leader = "reaped"
      BY <1>1, <1>3, <2>1, GroupActs
    <2>3. local' \in LocalRow /\ local'.alive = local.alive /\ local'.status = TRUE
      BY <1>1, <1>3 DEF LocalRow
    <2>4. local.alive
      BY <1>1, <1>2, <1>3 DEF LocalsTrue, LocalRow
    <2>5. LocalsTrue'
      BY <1>2, <2>2, <2>3, <2>4 DEF LocalsTrue, Unborn
    <2> QED
      BY <1>2, <2>1, <2>2, <2>3, <2>5, RunStep
  <1>4. CASE UNCHANGED <<group, local>>
    <2>1. group' \in [Runs -> GroupRow] /\ \A r \in Runs : Later(group[r], group'[r])
      BY <1>4, KillOrNot
    <2>2. LocalsTrue' /\ local' \in LocalRow /\ group'[run].leader # "runs"
      BY <1>1, <1>2, <1>4, <2>1, LocalsStay
    <2> QED
      BY <1>2, <2>1, <2>2, RunStep
  <1> QED
    BY <1>3, <1>4 DEF TerminateReap

\* The group is signalled until it is gone, or is given up.
LEMMA RekillKeeps ==
    ASSUME CaptureInv, TerminateAgain \/ CleanupExpires \/ TerminateFails
    PROVE  CaptureInv'
  <1>1. /\ group \in [Runs -> GroupRow] /\ run \in Runs /\ local \in LocalRow
        /\ ghost \in [handled : BOOLEAN, barred : BOOLEAN, late : BOOLEAN, gaveUp : BOOLEAN]
    BY DEF CaptureInv, CaptureTypes, LocalRow
  <1>2. /\ pc = "rekill" /\ pc \in RunOnce /\ (KillGroup(run) \/ UNCHANGED group)
        /\ UNCHANGED <<run, flags, pgid, local, ending, outcome, user>>
    BY DEF TerminateAgain, CleanupExpires, TerminateFails, thread, RunOnce
  <1>3. \/ pc' = "drain" /\ ~Exists(run) /\ UNCHANGED <<group, ghost>>
        \/ pc' = "rekill" /\ UNCHANGED ghost
        \/ pc' = "drain" /\ ghost' = [ghost EXCEPT !.gaveUp = TRUE]
    BY <1>2 DEF TerminateAgain, CleanupExpires, TerminateFails
  <1>4. group' \in [Runs -> GroupRow] /\ \A r \in Runs : Later(group[r], group'[r])
    BY <1>2, KillOrNot
  <1>5. LocalsTrue' /\ local' \in LocalRow /\ group'[run].leader # "runs"
    <2>1. group[run].leader # "runs"
      BY <1>2 DEF CaptureInv, GroupsFollow
    <2> QED
      BY <1>1, <1>2, <1>4, <2>1, LocalsStay DEF Later
  <1>6. /\ pc' \in (RunOnce \ {"retain"}) \cup {"release", "drain"} /\ pc' # "release"
        /\ ghost' \in {ghost, [ghost EXCEPT !.gaveUp = TRUE]}
        /\ pc' = "drain" => ghost'.gaveUp \/ Gone(group'[run])
    <2>1. pc' \in (RunOnce \ {"retain"}) \cup {"release", "drain"} /\ pc' # "release"
      BY <1>3 DEF RunOnce
    <2>2. pc' = "drain" => ghost'.gaveUp \/ Gone(group'[run])
      BY <1>1, <1>3, ExistsSees
    <2> QED
      BY <1>3, <2>1, <2>2
  <1> QED
    BY <1>2, <1>4, <1>5, <1>6, RunStep

\* A run is started past its gate: no signal had been handled there.
LEMMA SpawnKeeps ==
    ASSUME CaptureInv, Spawn
    PROVE  CaptureInv'
  <1>1. /\ CaptureTypes /\ GroupsFollow /\ LocalsTrue /\ Published /\ Started /\ Honoured
        /\ run \in Runs /\ 1 \in Runs /\ 2 \in Runs /\ group[run] \in GroupRow
    BY DEF CaptureInv, CaptureTypes, Runs
  <1>2. /\ pc = "spawn" /\ UNCHANGED <<run, ending, kept, user, flags, pgid, signals>>
        /\ Unborn(group[run]) /\ pgid = 0 /\ ~ghost.barred /\ ~ghost.late
    BY <1>1 DEF Spawn, GroupsFollow, Published, Honoured
  <1>3. CASE /\ pc' = "retain" /\ group' = [group EXCEPT ![run].leader = "runs"]
             /\ local' = NoLocal /\ ghost' = [ghost EXCEPT !.late = @ \/ ghost.barred]
             /\ UNCHANGED outcome
    <2>1. /\ group' \in [Runs -> GroupRow] /\ group'[run].leader = "runs"
          /\ \A r \in Runs \ {run} : group'[r] = group[r]
      BY <1>1, <1>3 DEF CaptureTypes, GroupRow
    <2>2. ghost' = ghost
      <3>1. (ghost.late \/ ghost.barred) = ghost.late
        BY <1>1, <1>2 DEF CaptureTypes
      <3> QED
        BY <1>1, <1>3, <3>1 DEF CaptureTypes
    <2>3. CaptureTypes'
      BY <1>1, <1>2, <1>3, <2>1, <2>2 DEF CaptureTypes, Place, NoLocal
    <2>4. GroupsFollow'
      BY <1>1, <1>2, <1>3, <2>1 DEF GroupsFollow, Unborn, Runs
    <2>5. LocalsTrue' /\ Published'
      BY <1>2, <1>3, <2>1 DEF LocalsTrue, Published, Unborn, NoLocal
    <2>6. Started'
      BY <1>1, <1>2, <1>3 DEF Started
    <2>7. Honoured'
      BY <1>1, <1>2, <1>3, <2>2 DEF Honoured
    <2> QED
      BY <2>3, <2>4, <2>5, <2>6, <2>7 DEF CaptureInv
  <1>4. CASE /\ Ends(IF run = 1 THEN "beforeStart" ELSE "afterStart")
             /\ UNCHANGED <<group, local, ghost>>
    <2>1. pc' = "finish" /\ outcome' = (IF run = 1 THEN "beforeStart" ELSE "afterStart")
      BY <1>4 DEF Ends
    <2>2. CaptureTypes'
      BY <1>1, <1>2, <1>4, <2>1 DEF CaptureTypes, Place
    <2>3. GroupsFollow'
      BY <1>1, <1>2, <1>4, <2>1 DEF GroupsFollow, Gone, Unborn
    <2>4. LocalsTrue' /\ Published'
      BY <1>2, <1>4, <2>1 DEF LocalsTrue, Published, RunOnce
    <2>5. Started'
      BY <1>1, <1>2, <1>4, <2>1 DEF Started, GroupsFollow, Runs
    <2>6. Honoured'
      BY <1>1, <1>2, <1>4, <2>1 DEF Honoured
    <2> QED
      BY <2>2, <2>3, <2>4, <2>5, <2>6 DEF CaptureInv
  <1> QED
    BY <1>3, <1>4 DEF Spawn

\* A signal comes between any two steps.
LEMMA SignalKeeps ==
    ASSUME CaptureInv, Signal
    PROVE  CaptureInv'
  <1>1. /\ CaptureTypes /\ GroupsFollow /\ LocalsTrue /\ Published /\ Started /\ Honoured
        /\ run \in Runs /\ 1 \in Runs /\ 2 \in Runs
    BY DEF CaptureInv, CaptureTypes, Runs
  <1>2. /\ user = "waits" /\ pc # "dead" /\ pc # "end"
        /\ UNCHANGED <<run, local, ending, kept, outcome, user>>
    BY <1>1 DEF Signal, thread, Started
  <1>3. CASE /\ pc \in {"install", "route", "publish"} /\ pc' = "dead"
             /\ UNCHANGED <<flags, pgid, group, ghost>>
    <2>1. CaptureTypes' /\ GroupsFollow'
      BY <1>1, <1>2, <1>3 DEF CaptureTypes, Place, GroupsFollow
    <2>2. LocalsTrue' /\ Published'
      BY <1>1, <1>2, <1>3 DEF LocalsTrue, Published, RunOnce
    <2>3. Started' /\ Honoured'
      BY <1>1, <1>2, <1>3 DEF Started, Honoured
    <2> QED
      BY <2>1, <2>2, <2>3 DEF CaptureInv
  <1>4. CASE /\ pc \notin {"install", "route", "publish"}
             /\ flags' = [first |-> TRUE, escalated |-> flags.first]
             /\ IF flags.first /\ pgid # 0 THEN KillGroup(pgid) ELSE UNCHANGED group
             /\ ghost' = [ghost EXCEPT !.handled = TRUE, !.barred = @ \/ pc # "spawn"]
             /\ UNCHANGED <<pc, pgid>>
    <2>1. group' \in [Runs -> GroupRow] /\ \A r \in Runs : Later(group[r], group'[r])
      <3>1. KillGroup(run) \/ UNCHANGED group
        BY <1>1, <1>4 DEF Published
      <3> QED
        BY <3>1, KillOrNot
    <2>2. /\ flags' \in [first : BOOLEAN, escalated : BOOLEAN] /\ flags'.first = TRUE
      BY <1>1, <1>4 DEF CaptureTypes
    <2>3. /\ ghost' \in [handled : BOOLEAN, barred : BOOLEAN, late : BOOLEAN, gaveUp : BOOLEAN]
          /\ ghost'.handled = TRUE /\ ghost'.late = ghost.late /\ ghost'.gaveUp = ghost.gaveUp
          /\ ghost'.barred => pc # "spawn"
      <3>1. (ghost.barred \/ pc # "spawn") \in BOOLEAN
        OBVIOUS
      <3>2. PICK b \in BOOLEAN : b = (ghost.barred \/ pc # "spawn")
        BY <3>1
      <3>3. ghost' = [ghost EXCEPT !.handled = TRUE, !.barred = b]
        BY <1>4, <3>2
      <3>4. b => pc # "spawn"
        BY <1>1, <3>2 DEF Honoured
      <3> QED
        BY <1>1, <3>3, <3>4 DEF CaptureTypes
    <2>4. CaptureTypes'
      BY <1>1, <1>2, <1>4, <2>1, <2>2, <2>3 DEF CaptureTypes
    <2>5. GroupsFollow'
      BY <1>1, <1>2, <1>4, <2>1, <2>3 DEF GroupsFollow, Later
    <2>6. LocalsTrue' /\ Published'
      BY <1>1, <1>2, <1>4, <2>1 DEF LocalsTrue, Published, Later
    <2>7. Started'
      BY <1>1, <1>2, <1>4, <2>1 DEF Started, Later
    <2>8. Honoured'
      BY <1>1, <1>2, <1>4, <2>2, <2>3 DEF Honoured
    <2> QED
      BY <2>4, <2>5, <2>6, <2>7, <2>8 DEF CaptureInv
  <1> QED
    BY <1>3, <1>4 DEF Signal

-----------------------------------------------------------------------------
(* The theorem.                                                            *)

\* Nothing runs and no signal was handled at the start.
LEMMA CaptureStarts ==
    ASSUME Init
    PROVE  CaptureInv
  <1>1. NoGroup \in GroupRow /\ Unborn(NoGroup) /\ Gone(NoGroup)
    BY DEF NoGroup, GroupRow, Unborn, Gone
  <1>2. group \in [Runs -> GroupRow] /\ \A r \in Runs : group[r] = NoGroup
    BY <1>1 DEF Init
  <1>3. /\ flags.first = FALSE /\ ghost.handled = FALSE /\ ghost.barred = FALSE
        /\ ghost.late = FALSE
        /\ flags \in [first : BOOLEAN, escalated : BOOLEAN]
        /\ ghost \in [handled : BOOLEAN, barred : BOOLEAN, late : BOOLEAN, gaveUp : BOOLEAN]
        /\ local \in [status : BOOLEAN, alive : BOOLEAN, eof : BOOLEAN, interrupted : BOOLEAN]
    BY DEF Init, NoLocal
  <1>4. CaptureTypes
    BY <1>2, <1>3 DEF Init, CaptureTypes, Place, Runs
  <1>5. GroupsFollow
    BY <1>1, <1>2 DEF Init, GroupsFollow, Runs
  <1>6. LocalsTrue /\ Published /\ Started /\ Honoured
    BY <1>3 DEF Init, LocalsTrue, RunOnce, Published, Started, Honoured
  <1> QED
    BY <1>4, <1>5, <1>6 DEF CaptureInv

\* Every step of the thread, the command and the handler keeps the invariant.
LEMMA CaptureStep ==
    ASSUME CaptureInv, [Next]_vars
    PROVE  CaptureInv'
  <1>1. CASE Thread
    BY <1>1, InstallKeeps, PrepareKeeps, GateKeeps, SpawnKeeps, RetainKeeps, LoopTopKeeps,
       LoopExpiresKeeps, ReadKeeps, PollKeeps, PollFailsKeeps, ReleaseKeeps, CompleteKeeps,
       TerminateKillKeeps, TerminateReapKeeps, RekillKeeps, DrainKeeps, VerifyKeeps, FinishKeeps,
       RouteKeeps, PublishKeeps DEF Thread
  <1>2. CASE Environment
    BY <1>2, EnvironmentKeeps
  <1>3. CASE Signal
    BY <1>3, SignalKeeps
  <1>4. CASE UNCHANGED vars
    <2>1. UNCHANGED <<pc, run, flags, pgid, group, local, ending, kept, outcome, user, ghost>>
      BY <1>4 DEF vars
    <2>2. group' \in [Runs -> GroupRow] /\ \A r \in Runs : Later(group[r], group'[r])
      BY <2>1, KillOrNot
    <2> QED
      BY <2>1, <2>2, GroupsStay
  <1> QED
    BY <1>1, <1>2, <1>3, <1>4 DEF Next

\* An immutable capture, whenever signals come and whatever the command forks: the
\* command is run again only if it was never started and nobody asked it to stop, a
\* handled signal is the outcome and no later run starts.  The group of the first run
\* is gone before the second starts and both are before anything is published, even
\* where their members have closed the streams; at every other end the leaders have
\* been killed, and the groups are gone unless terminate_and_reap gave up.
THEOREM CaptureSound == Spec => []CaptureIsSound
  <1>1. Init => CaptureInv
    BY CaptureStarts
  <1>2. CaptureInv /\ [Next]_vars => CaptureInv'
    BY CaptureStep
  <1>3. CaptureInv => CaptureIsSound
    <2> SUFFICES ASSUME CaptureInv PROVE CaptureIsSound
      OBVIOUS
    <2>1. /\ CaptureTypes /\ GroupsFollow /\ LocalsTrue /\ Published /\ Started /\ Honoured
          /\ run \in Runs
      BY DEF CaptureInv, CaptureTypes
    <2>2. NoFurtherRun
      BY <2>1 DEF NoFurtherRun, Started, Honoured, Unborn
    <2>3. InterruptionHonoured
      BY <2>1 DEF InterruptionHonoured, Over, Honoured
    <2>4. Over /\ ~ghost.gaveUp => \A r \in Runs : ~Exists(r)
      <3> SUFFICES ASSUME Over, ~ghost.gaveUp, NEW r \in Runs PROVE ~Exists(r)
        OBVIOUS
      <3>1. Gone(group[run]) /\ (run = 1 => Gone(group[2])) /\ (run = 2 => Gone(group[1]))
        BY <2>1 DEF Over, GroupsFollow, Runs
      <3>2. Gone(group[r])
        BY <2>1, <3>1 DEF Runs
      <3> QED
        BY <2>1, <3>2, ExistsSees DEF CaptureTypes
    <2>5. Exists(1) => group[2].leader = "none"
      <3>1. group \in [Runs -> GroupRow] /\ 1 \in Runs
        BY <2>1 DEF CaptureTypes, Runs
      <3>2. Unborn(group[2]) \/ Gone(group[1])
        BY <2>1 DEF GroupsFollow, Runs
      <3> QED
        BY <3>1, <3>2, ExistsSees DEF Unborn
    <2>6. outcome = "validated" => \A r \in Runs : ~Exists(r)
      BY <2>1, ExistsSees DEF Started, CaptureTypes
    <2>7. Over => \A r \in Runs : group[r].leader # "runs"
      BY <2>1 DEF Over, GroupsFollow, Gone, Unborn, Runs
    <2>8. pgid # 0 => pgid = run /\ group[run].leader # "none" /\ ~Over
      BY <2>1 DEF Published, Over, Unborn
    <2> QED
      BY <2>2, <2>3, <2>4, <2>5, <2>6, <2>7, <2>8 DEF CaptureIsSound, GroupsContained
  <1> QED
    BY <1>1, <1>2, <1>3, PTL DEF Spec
=============================================================================
