----------------------------- MODULE LocalEngine -----------------------------
(***************************************************************************)
(* run_admitted: a read-only command is answered from the store, or is run *)
(* twice between three fingerprints of the files in its scope and stored.  *)
(* Other processes write the files at any time, and every fingerprint and  *)
(* every run of the command reads them one by one.  Content digests are    *)
(* remembered in a cache keyed by the identity of a file, of which the     *)
(* change time is the part that can tell two versions apart.  A key is the *)
(* identity and the content of every file; the executable and the          *)
(* environment are fixed.                                                  *)
(***************************************************************************)
EXTENDS Naturals, Sequences

CONSTANTS Call,
          Files,       \* number of files, walked in order
          Content,
          None,
          Reference,   \* the calls that only ask for a stored result
          FineClock,   \* whether every change of a file has a change time of its own
          MaxWrites,   \* bound: changes of files
          MaxDamage    \* bound: blobs the file system damages

\* What the engine is defined for
EngineAssumption ==
    /\ Files \in Nat \ {0} /\ FineClock \in BOOLEAN /\ Reference \subseteq Call
    /\ MaxWrites \in Nat /\ MaxDamage \in Nat /\ None \notin Content

File == 1..Files

VARIABLES
    disk,      \* the files: content and change time
    clock, writes, damage,
    cache,     \* file_digests: one row for each inode
    rows,      \* results
    call,      \* the calls
    told,      \* history: what a call was answered from the store
    seen       \* history: the contents of the disk during a call

vars == <<disk, clock, writes, damage, cache, rows, call, told, seen>>
world == <<disk, clock, writes, damage>>
history == <<told, seen>>

Stamp == 0..MaxWrites
Version == [data : Content, stamp : Stamp]
Outputs == [File -> Content]
Phase == {"before", "afterFirst", "afterShadow"}

Contents == [f \in File |-> disk[f].data]

Blank == [pc |-> "start", phase |-> "before", at |-> 1, stat |-> 0, digest |-> None,
          hit |-> FALSE, print |-> <<>>, key |-> <<>>, out |-> [first |-> <<>>, shadow |-> <<>>]]

Init ==
    /\ disk \in [File -> [data : Content, stamp : {0}]]
    /\ clock = 0 /\ writes = 0 /\ damage = 0
    /\ cache = [f \in File |-> None] /\ rows = {}
    /\ call = [c \in Call |-> Blank]
    /\ told = [c \in Call |-> None] /\ seen = [c \in Call |-> {}]

Goto(c, p) == call' = [call EXCEPT ![c].pc = p]
Ends(c) == call' = [call EXCEPT ![c] = [Blank EXCEPT !.pc = "done"]]

-----------------------------------------------------------------------------
(* fingerprint_scoped_with_cache; every stop of it is an error of the whole *)
(* call before the command has run and leaves the result unstored after it. *)

Start(c) ==
    /\ call[c].pc = "start"
    /\ Goto(c, "stat") /\ seen' = [seen EXCEPT ![c] = {Contents}]
    /\ UNCHANGED <<world, cache, rows, told>>

\* The identity of the file, and a digest for exactly this identity
Stat(c) ==
    LET f == call[c].at
        known == cache[f] # None /\ cache[f].stamp = disk[f].stamp
    IN /\ call[c].pc = "stat"
       /\ call' = [call EXCEPT ![c].stat = disk[f].stamp, ![c].hit = known,
                               ![c].pc = IF known THEN "verify" ELSE "load",
                               ![c].digest = IF known THEN cache[f].data ELSE None]
       /\ UNCHANGED <<world, cache, rows, history>>

Load(c) ==
    /\ call[c].pc = "load"
    /\ call' = [call EXCEPT ![c].pc = "verify", ![c].digest = disk[call[c].at].data]
    /\ UNCHANGED <<world, cache, rows, history>>

\* What a file adds to the key
FilePrint(c) == [data |-> call[c].digest, stamp |-> call[c].stat]

\* The next file, or the end of the fingerprint
Advance(c) ==
    call' = [call EXCEPT ![c].print = Append(@, FilePrint(c)),
                         ![c].at = IF @ < Files THEN @ + 1 ELSE 1,
                         ![c].pc = IF call[c].at < Files THEN "stat" ELSE call[c].phase,
                         ![c].stat = 0, ![c].digest = None, ![c].hit = FALSE]

\* hash_file_with_cache: the identity is the same after the read or the hit, and a
\* digest that was read is recorded for it
Verify(c) ==
    /\ call[c].pc = "verify"
    /\ \/ /\ disk[call[c].at].stamp = call[c].stat
          /\ Advance(c)
          /\ cache' = IF call[c].hit THEN cache
                      ELSE [cache EXCEPT ![call[c].at] = [data |-> call[c].digest,
                                                          stamp |-> call[c].stat]]
       \/ /\ disk[call[c].at].stamp # call[c].stat
          /\ Ends(c) /\ UNCHANGED cache
    /\ UNCHANGED <<world, rows, history>>

\* prune_file_digests, or a row that fails its checksum
Forget(f) ==
    /\ cache[f] # None /\ cache' = [cache EXCEPT ![f] = None]
    /\ UNCHANGED <<world, rows, call, history>>

-----------------------------------------------------------------------------
(* The hit.                                                                *)

Visible(k) == {r \in rows : r.key = k /\ r.status = "visible"}

\* get_result and validate_cached_result
Lookup(c) ==
    /\ call[c].pc = "before"
    /\ \/ /\ Visible(call[c].print) # {} \/ c \notin Reference
          /\ call' = [call EXCEPT
                ![c].key = call[c].print, ![c].print = <<>>, ![c].phase = "afterFirst",
                ![c].pc = IF Visible(call[c].print) # {} THEN "hit" ELSE "first"]
       \/ Visible(call[c].print) = {} /\ c \in Reference /\ Ends(c)
    /\ UNCHANGED <<world, cache, rows, history>>

\* The capability probe, the blobs, and the answer; a blob that fails its digest
\* quarantines the row
Answer(c) ==
    /\ call[c].pc = "hit"
    /\ \E r \in rows :
         /\ r.key = call[c].key
         /\ IF r.good
            THEN told' = [told EXCEPT ![c] = r.out] /\ UNCHANGED rows
            ELSE /\ rows' = (rows \ {r}) \cup {[r EXCEPT !.status = "quarantined"]}
                 /\ UNCHANGED told
    /\ Ends(c)
    /\ UNCHANGED <<world, cache, seen>>

ProbeFails(c) ==
    /\ call[c].pc = "hit" /\ Ends(c)
    /\ UNCHANGED <<world, cache, rows, history>>

-----------------------------------------------------------------------------
(* The miss.                                                               *)

\* execute_once: the command reads one file after the other
Execute(c) ==
    /\ call[c].pc \in {"first", "shadow"}
    /\ call' = [call EXCEPT
          ![c].out[call[c].pc] = Append(@, disk[call[c].at].data),
          ![c].pc = IF call[c].at < Files THEN @ ELSE "stat",
          ![c].at = IF @ < Files THEN @ + 1 ELSE 1]
    /\ UNCHANGED <<world, cache, rows, history>>

\* A status, output or stream that is not stored, or a run that fails
Unstorable(c) ==
    /\ call[c].pc \in {"first", "shadow"} /\ Ends(c)
    /\ UNCHANGED <<world, cache, rows, history>>

\* Slip: nothing is compared
UnchangedAssumed(c) == call[c].print # <<>>

Unchanged(c) == call[c].print = call[c].key

AfterFirst(c) ==
    /\ call[c].pc = "afterFirst"
    /\ \/ /\ Unchanged(c)
          /\ call' = [call EXCEPT ![c].pc = "shadow", ![c].print = <<>>,
                                  ![c].phase = "afterShadow"]
       \/ ~Unchanged(c) /\ Ends(c)
    /\ UNCHANGED <<world, cache, rows, history>>

\* insert_result: a new row, an equal one, or one that differs and is quarantined
AfterShadow(c) ==
    /\ call[c].pc = "afterShadow" /\ Ends(c)
    /\ LET same == {r \in rows : r.key = call[c].key}
           row == [key |-> call[c].key, out |-> call[c].out.first, good |-> TRUE,
                   status |-> "visible"]
       IN rows' = IF ~Unchanged(c) \/ call[c].out.shadow # call[c].out.first THEN rows
                  ELSE IF same = {} THEN rows \cup {row}
                  ELSE {r \in rows : r.key # call[c].key}
                       \cup {IF r.out = row.out THEN r
                             ELSE [r EXCEPT !.status = "quarantined"] : r \in same}
    /\ UNCHANGED <<world, cache, history>>

-----------------------------------------------------------------------------
(* Everybody else.                                                         *)

\* A file is rewritten, or replaced by one with another inode
Write(f, v) ==
    /\ writes < MaxWrites /\ writes' = writes + 1
    /\ clock' \in IF FineClock THEN {clock + 1} ELSE {clock, clock + 1}
    /\ disk' = [disk EXCEPT ![f] = [data |-> v, stamp |-> clock']]
    /\ seen' = [c \in Call |-> IF call[c].pc \in {"start", "done"} THEN seen[c]
                               ELSE seen[c] \cup {[Contents EXCEPT ![f] = v]}]
    /\ UNCHANGED <<damage, cache, rows, call, told>>

Damage ==
    /\ damage < MaxDamage /\ damage' = damage + 1
    /\ \E r \in rows : rows' = (rows \ {r}) \cup {[r EXCEPT !.good = FALSE]}
    /\ UNCHANGED <<disk, clock, writes, cache, call, history>>

CallNext(c) ==
    \/ Start(c) \/ Stat(c) \/ Load(c) \/ Verify(c) \/ Lookup(c) \/ Answer(c)
    \/ ProbeFails(c) \/ Execute(c) \/ Unstorable(c) \/ AfterFirst(c) \/ AfterShadow(c)

Next ==
    \/ \E c \in Call : CallNext(c)
    \/ \E f \in File : Forget(f) \/ \E v \in Content : Write(f, v)
    \/ Damage

Spec == Init /\ [][Next]_vars

-----------------------------------------------------------------------------
(* Properties.                                                             *)

EngineTypeOK ==
    /\ disk \in [File -> Version] /\ clock \in Stamp
    /\ cache \in [File -> Version \cup {None}]
    /\ \A r \in rows : r.key \in [File -> Version] /\ r.out \in Outputs
                       /\ r.status \in {"visible", "quarantined"}
    /\ \A r, s \in rows : r.key = s.key => r = s
    /\ \A c \in Call : call[c].at \in File /\ call[c].phase \in Phase
    /\ told \in [Call -> Outputs \cup {None}]

\* A remembered digest that would be used for a file is the digest of its content:
\* the identity is read before and after the bytes, whatever is written between.
DigestIsTrue ==
    \A f \in File : cache[f] # None /\ cache[f].stamp = disk[f].stamp =>
        cache[f].data = disk[f].data

\* A stored result is what the command prints on the contents its key stands for,
\* although files were written while it ran.
ResultIsTrue ==
    \A r \in rows : r.status = "visible" => \A f \in File : r.out[f] = r.key[f].data

\* An answer from the store is the output for contents that were all on the disk
\* at one moment of the call, never for a mixture of two moments.
HitIsCurrent == \A c \in Call : told[c] # None => told[c] \in seen[c]

\* Digests, stored results and answers are all true of the files.
EngineIsTrue == EngineTypeOK /\ DigestIsTrue /\ ResultIsTrue /\ HitIsCurrent
=============================================================================
