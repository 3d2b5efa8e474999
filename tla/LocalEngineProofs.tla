-------------------------- MODULE LocalEngineProofs --------------------------
(***************************************************************************)
(* What the engine stores and answers is true of the files, for any number *)
(* of calls, files, contents and writes, when every change of a file has a *)
(* change time of its own (FineClock): the digests it remembers, the rows  *)
(* it stores and the answers it gives.                                     *)
(*                                                                         *)
(* A version that was read fits its file: no later version has its change  *)
(* time, so while the times agree the contents do (Fits).  An output is    *)
(* therefore the output for the key as soon as the fingerprint after the   *)
(* run finds the key again.  That the contents of a key were on the disk   *)
(* TOGETHER needs more: when the first fingerprint of a run is complete,   *)
(* either they are there now, and every call that runs sees them, or a     *)
(* file has moved on, and then the fingerprint after the run misses the    *)
(* key.  The same holds of a call that begins later (Known): it sees them  *)
(* at its start, or it will not read that key.                             *)
(***************************************************************************)
EXTENDS LocalEngine, TLAPS

Pc == {"start", "stat", "load", "verify", "before", "hit", "first", "afterFirst", "shadow",
       "afterShadow", "done"}
CallRow == [pc : Pc, phase : Phase, at : File, stat : Stamp, digest : Content \cup {None},
            hit : BOOLEAN, print : Seq(Version), key : Seq(Version),
            out : [first : Seq(Content), shadow : Seq(Content)]]
Row == [key : [File -> Version], out : Outputs, good : BOOLEAN,
        status : {"visible", "quarantined"}]

\* The version v was on the disk as file f: nothing newer has its change time.
Fits(v, f) ==
    /\ v \in Version /\ v.stamp <= disk[f].stamp
    /\ v.stamp = disk[f].stamp => v.data = disk[f].data

Data(k) == [f \in File |-> k[f].data]

Reading == {"stat", "load", "verify"}

\* The call has read, or can only read, a newer version of a file than k has.
Missed(c, k) ==
    \E f \in File :
        /\ k[f].stamp < disk[f].stamp
        /\ f <= Len(call[c].print) => k[f].stamp < call[c].print[f].stamp
        /\ call[c].pc \in {"load", "verify"} /\ call[c].at = f => k[f].stamp < call[c].stat

\* A call that is reading its key was there when the contents of k were.
Known(c, k) ==
    call[c].pc \notin {"start", "done"} /\ call[c].phase = "before" =>
        Data(k) \in seen[c] \/ Missed(c, k)

-----------------------------------------------------------------------------
(* The inductive invariant.                                                *)

DiskInv ==
    /\ disk \in [File -> Version] /\ clock \in Nat /\ writes \in Nat
    /\ clock <= writes /\ writes <= MaxWrites
    /\ \A f \in File : disk[f].stamp <= clock

CacheInv ==
    /\ cache \in [File -> Version \cup {None}]
    /\ \A f \in File : cache[f] # None => Fits(cache[f], f)

RowsInv ==
    /\ rows \subseteq Row
    /\ \A r, s \in rows : r.key = s.key => r = s
    /\ \A r \in rows : \A f \in File : Fits(r.key[f], f) /\ r.out[f] = r.key[f].data

\* Where a call is, and what it has read by then.
Reads(c) ==
    LET m == call[c] IN
    /\ m.pc \in Reading => Len(m.print) = m.at - 1
    /\ m.pc \in Phase => m.pc = m.phase /\ Len(m.print) = Files /\ m.at = 1
    /\ m.pc \in {"first", "shadow", "hit", "start", "done"} => m.print = <<>>
    /\ m.pc \in {"hit", "start", "done"} => m.at = 1
    /\ m.pc = "start" => m.phase = "before" /\ told[c] = None
    /\ m.pc \in {"first", "hit"} => m.phase = "afterFirst"
    /\ m.pc = "shadow" => m.phase = "afterShadow"
    /\ \A f \in File : f <= Len(m.print) => Fits(m.print[f], f)
    /\ m.pc \in {"load", "verify"} => m.stat <= disk[m.at].stamp
    /\ m.pc = "verify" => /\ m.digest \in Content
                          /\ m.stat = disk[m.at].stamp => m.digest = disk[m.at].data

\* The key of a call that runs the command, and the output of the first run.
Runs(c) ==
    LET m == call[c] IN
    /\ m.phase # "before" => Len(m.key) = Files /\ \A f \in File : Fits(m.key[f], f)
    /\ m.phase = "before" => m.out.first = <<>>
    /\ m.phase = "afterFirst" =>
          /\ Len(m.out.first) = IF m.pc \in {"first", "hit"} THEN m.at - 1 ELSE Files
          /\ \A f \in File : /\ f <= Len(m.out.first) /\ m.key[f].stamp = disk[f].stamp
                                   => m.out.first[f] = m.key[f].data
                             /\ f <= Len(m.print) /\ m.print[f] = m.key[f]
                                   => m.out.first[f] = m.key[f].data
    /\ m.phase = "afterShadow" =>
          Len(m.out.first) = Files /\ \A f \in File : m.out.first[f] = m.key[f].data

\* The calls that see the contents of a key together.
Sees(c) ==
    /\ call[c].pc \notin {"start", "done"} => Contents \in seen[c]
    /\ told[c] # None => told[c] \in seen[c]
    /\ call[c].pc = "hit" => Data(call[c].key) \in seen[c]
    /\ \A r \in rows : Known(c, r.key)
    /\ call[c].phase # "before" =>
          Missed(c, call[c].key) \/ \A d \in Call : Known(d, call[c].key)

Types ==
    /\ call \in [Call -> CallRow] /\ told \in [Call -> Outputs \cup {None}]
    /\ seen = [c \in Call |-> seen[c]]

EngineInv ==
    /\ Types /\ DiskInv /\ CacheInv /\ RowsInv
    /\ \A c \in Call : Reads(c) /\ Runs(c) /\ Sees(c)

IsKey(k) == \A f \in File : k[f] \in Version

-----------------------------------------------------------------------------
(* What fits and what is missed stays so.                                  *)

\* A write gives a file a change time that nothing read before has.
LEMMA WriteTouches ==
    ASSUME FineClock, EngineAssumption, EngineInv, NEW g \in File, NEW v \in Content, Write(g, v)
    PROVE  /\ clock' = clock + 1 /\ clock' \in Stamp
           /\ disk' = [disk EXCEPT ![g] = [data |-> v, stamp |-> clock']]
           /\ DiskInv'
           /\ \A f \in File : disk[f].stamp \in Nat /\ disk'[f].stamp \in Nat
           /\ \A f \in File : disk[f].stamp <= disk'[f].stamp
           /\ \A f \in File : disk'[f].stamp = disk[f].stamp => disk'[f] = disk[f]
  <1>1. /\ clock' = clock + 1 /\ writes' = writes + 1 /\ writes < MaxWrites
        /\ disk' = [disk EXCEPT ![g] = [data |-> v, stamp |-> clock']]
    BY DEF Write
  <1>2. DiskInv /\ MaxWrites \in Nat
    BY DEF EngineInv, EngineAssumption
  <1>3. clock' \in Stamp
    BY <1>1, <1>2 DEF DiskInv, Stamp
  <1>4. [data |-> v, stamp |-> clock'] \in Version
    BY <1>3 DEF Version
  <1>5. \A f \in File : disk[f].stamp \in Nat
    BY <1>2 DEF DiskInv, Version, Stamp
  <1>6. \A f \in File : disk'[f] = IF f = g THEN [data |-> v, stamp |-> clock'] ELSE disk[f]
    BY <1>1, <1>2 DEF DiskInv
  <1>7. \A f \in File : disk'[f].stamp = IF f = g THEN clock + 1 ELSE disk[f].stamp
    BY <1>1, <1>6
  <1>8. DiskInv'
    BY <1>1, <1>2, <1>4, <1>5, <1>7 DEF DiskInv
  <1> QED
    BY <1>1, <1>2, <1>3, <1>5, <1>6, <1>7, <1>8 DEF DiskInv

\* Whatever is written, a version that was read still fits its file.
LEMMA FitsStays ==
    ASSUME FineClock, EngineAssumption, EngineInv, NEW g \in File, NEW v \in Content, Write(g, v),
           NEW f \in File, NEW x, Fits(x, f)
    PROVE  Fits(x, f)'
  <1>1. /\ disk[f].stamp \in Nat /\ disk'[f].stamp \in Nat /\ disk[f].stamp <= disk'[f].stamp
        /\ disk'[f].stamp = disk[f].stamp => disk'[f] = disk[f]
    BY WriteTouches
  <1>2. x \in Version /\ x.stamp \in Nat
    BY DEF Fits, Version, Stamp
  <1> QED
    BY <1>1, <1>2 DEF Fits

\* And a call that misses a key goes on missing it.
LEMMA MissedStays ==
    ASSUME FineClock, EngineAssumption, EngineInv, NEW g \in File, NEW v \in Content, Write(g, v),
           NEW c \in Call, NEW k, IsKey(k), Missed(c, k)
    PROVE  Missed(c, k)'
  <1>1. PICK f \in File :
           /\ k[f].stamp < disk[f].stamp
           /\ f <= Len(call[c].print) => k[f].stamp < call[c].print[f].stamp
           /\ call[c].pc \in {"load", "verify"} /\ call[c].at = f => k[f].stamp < call[c].stat
    BY DEF Missed
  <1>2. disk[f].stamp \in Nat /\ disk'[f].stamp \in Nat /\ disk[f].stamp <= disk'[f].stamp
    BY WriteTouches
  <1>3. k[f].stamp \in Nat /\ UNCHANGED call
    BY DEF IsKey, Version, Stamp, Write
  <1>4. k[f].stamp < disk'[f].stamp
    BY <1>1, <1>2, <1>3
  <1> QED
    BY <1>1, <1>3, <1>4 DEF Missed

\* The contents of a key that fits everywhere are on the disk, or a file has
\* moved on.
LEMMA TogetherOrMovedOn ==
    ASSUME DiskInv, NEW k, \A f \in File : Fits(k[f], f)
    PROVE  /\ IsKey(k)
           /\ Data(k) = Contents \/ \E f \in File : k[f].stamp < disk[f].stamp
  <1>1. \A f \in File : k[f] \in Version /\ k[f].stamp \in Nat /\ disk[f].stamp \in Nat
    BY DEF Fits, Version, Stamp, DiskInv
  <1>2. CASE \A f \in File : k[f].stamp = disk[f].stamp
    BY <1>1, <1>2 DEF Fits, Data, Contents, IsKey
  <1>3. CASE \E f \in File : k[f].stamp # disk[f].stamp
    BY <1>1, <1>3 DEF Fits, IsKey
  <1> QED
    BY <1>2, <1>3

-----------------------------------------------------------------------------
(* A step of one call that leaves the disk and the rows alone.             *)

\* What such a step has to show of its call carries over to all calls.
LEMMA CallMoves ==
    ASSUME EngineInv, NEW c \in Call, NEW m \in CallRow, call' = [call EXCEPT ![c] = m],
           UNCHANGED <<world, rows, history>>, CacheInv', Reads(c)', Runs(c)',
           m.pc \in {"start", "done"} \/ call[c].pc \notin {"start", "done"},
           m.pc = "hit" => Data(m.key) \in seen[c],
           \A k : IsKey(k) /\ Known(c, k) => Known(c, k)',
           m.phase # "before" => Missed(c, m.key)' \/ \A d \in Call : Known(d, m.key)'
    PROVE  EngineInv'
  <1>1. /\ call' \in [Call -> CallRow] /\ call'[c] = m
        /\ \A d \in Call \ {c} : call'[d] = call[d]
    BY DEF EngineInv, Types
  <1>2. UNCHANGED <<disk, clock, writes, rows, told, seen>>
    BY DEF world, history
  <1>3. Types' /\ DiskInv'
    BY <1>1, <1>2 DEF EngineInv, Types, DiskInv
  <1>4. RowsInv'
    BY <1>2 DEF EngineInv, RowsInv, Fits
  <1>5. ASSUME NEW d \in Call, d # c PROVE Reads(d)' /\ Runs(d)'
    <2>1. call'[d] = call[d] /\ Reads(d) /\ Runs(d)
      BY <1>1, <1>5 DEF EngineInv
    <2> QED
      BY <1>2, <2>1 DEF Reads, Runs, Fits
  <1>6. ASSUME NEW d \in Call, NEW k, IsKey(k), Known(d, k) PROVE Known(d, k)'
    <2>1. CASE d # c
      <3>1. call'[d] = call[d]
        BY <1>1, <2>1
      <3> QED
        BY <1>2, <1>6, <3>1 DEF Known, Missed
    <2> QED
      BY <1>6, <2>1
  <1>7. \A r \in rows : IsKey(r.key)
    BY DEF EngineInv, RowsInv, Row, IsKey
  <1>8. ASSUME NEW d \in Call, d # c PROVE Sees(d)'
    <2>1. call'[d] = call[d] /\ Sees(d) /\ Runs(d)
      BY <1>1, <1>8 DEF EngineInv
    <2>2. call[d].phase # "before" => IsKey(call[d].key)
      BY <2>1 DEF Runs, IsKey, Fits
    <2>3. call[d].phase # "before" =>
             Missed(d, call[d].key)' \/ \A e \in Call : Known(e, call[d].key)'
      <3>1. Missed(d, call[d].key) => Missed(d, call[d].key)'
        BY <1>2, <2>1 DEF Missed
      <3> QED
        BY <1>6, <2>1, <2>2, <3>1 DEF Sees
    <2>4. \A r \in rows : Known(d, r.key)'
      BY <1>6, <1>7, <2>1 DEF Sees
    <2> QED
      BY <1>2, <2>1, <2>3, <2>4 DEF Sees, Contents
  <1>9. Sees(c)'
    <2>1. Sees(c)
      BY DEF EngineInv
    <2>2. \A r \in rows : Known(c, r.key)'
      BY <1>6, <1>7, <2>1 DEF Sees
    <2> QED
      BY <1>1, <1>2, <2>1, <2>2 DEF Sees, Contents
  <1> QED
    BY <1>3, <1>4, <1>5, <1>8, <1>9 DEF EngineInv

\* A call that goes on in the same phase with the same key.
LEMMA CallGoesOn ==
    ASSUME EngineInv, NEW c \in Call, NEW m \in CallRow, call' = [call EXCEPT ![c] = m],
           UNCHANGED <<world, rows, history>>, CacheInv', Reads(c)', Runs(c)',
           call[c].pc \notin {"start", "done"}, m.pc \notin {"start", "done", "hit"},
           m.phase = call[c].phase, m.key = call[c].key,
           \A k : IsKey(k) /\ Missed(c, k) => Missed(c, k)'
    PROVE  EngineInv'
  <1>1. /\ call'[c] = m /\ \A d \in Call \ {c} : call'[d] = call[d]
    BY DEF EngineInv, Types
  <1>2. UNCHANGED <<disk, seen>>
    BY DEF world, history
  <1>3. ASSUME NEW k, IsKey(k), NEW d \in Call, Known(d, k) PROVE Known(d, k)'
    <2>1. CASE d = c
      BY <1>1, <1>2, <1>3, <2>1 DEF Known
    <2>2. CASE d # c
      <3>1. call'[d] = call[d]
        BY <1>1, <2>2
      <3> QED
        BY <1>2, <1>3, <3>1 DEF Known, Missed
    <2> QED
      BY <2>1, <2>2
  <1>4. m.phase # "before" => Missed(c, m.key)' \/ \A d \in Call : Known(d, m.key)'
    <2>1. Sees(c) /\ Runs(c)
      BY DEF EngineInv
    <2>2. m.phase # "before" => IsKey(m.key)
      BY <2>1 DEF Runs, IsKey, Fits
    <2> QED
      BY <1>3, <2>1, <2>2 DEF Sees
  <1>5. \A k : IsKey(k) /\ Known(c, k) => Known(c, k)'
    BY <1>3
  <1> QED
    BY <1>4, <1>5, CallMoves

\* A call that is over.
Done == [Blank EXCEPT !.pc = "done"]

\* It has read nothing, and holds no key and no output.
LEMMA DoneRow ==
    ASSUME EngineAssumption
    PROVE  /\ Done \in CallRow
           /\ Done.pc = "done" /\ Done.phase = "before" /\ Done.at = 1 /\ Done.print = <<>>
           /\ Done.out.first = <<>>
  <1>1. Files \in Nat \ {0} /\ MaxWrites \in Nat
    BY DEF EngineAssumption
  <1>2. <<>> \in Seq(Version) /\ <<>> \in Seq(Content)
    OBVIOUS
  <1>3. /\ 1 \in File /\ 0 \in Stamp /\ "done" \in Pc /\ "start" \in Pc /\ "before" \in Phase
    BY <1>1 DEF Pc, Phase, File, Stamp
  <1>4. [first |-> <<>>, shadow |-> <<>>] \in [first : Seq(Content), shadow : Seq(Content)]
    BY <1>2
  <1>5. Blank \in CallRow
    BY <1>2, <1>3, <1>4 DEF Blank, CallRow
  <1>6. Done \in CallRow
    BY <1>3, <1>5 DEF CallRow, Done
  <1> QED
    BY <1>6 DEF Blank, Done

\* Calls end, with or without an answer, and rows come of which every call knows.
LEMMA EndsOrStays ==
    ASSUME EngineAssumption, EngineInv, UNCHANGED <<disk, clock, writes, seen>>,
           CacheInv', RowsInv',
           call' \in [Call -> CallRow], \A d \in Call : call'[d] = call[d] \/ call'[d] = Done,
           told' \in [Call -> Outputs \cup {None}],
           \A d \in Call : told'[d] = told[d] \/ (told'[d] \in seen[d] /\ call'[d] = Done),
           \A r \in rows' : \/ \E s \in rows : s.key = r.key
                            \/ \A d \in Call : Known(d, r.key)
    PROVE  EngineInv'
  <1>1. Types' /\ DiskInv'
    BY DEF EngineInv, Types, DiskInv
  <1>2. ASSUME NEW d \in Call PROVE Reads(d)' /\ Runs(d)'
    <2>1. Reads(d) /\ Runs(d)
      BY DEF EngineInv
    <2>2. CASE call'[d] = Done
      BY <2>2, DoneRow DEF Reads, Runs, Reading, Phase, File, EngineAssumption
    <2>3. CASE call'[d] = call[d] /\ told'[d] = told[d]
      BY <2>1, <2>3 DEF Reads, Runs, Fits
    <2> QED
      BY <2>2, <2>3
  <1>3. ASSUME NEW d \in Call, NEW k, Known(d, k) PROVE Known(d, k)'
    <2>1. CASE call'[d] = call[d]
      BY <1>3, <2>1 DEF Known, Missed
    <2>2. CASE call'[d] = Done
      BY <2>2, DoneRow DEF Known
    <2> QED
      BY <2>1, <2>2
  <1>4. ASSUME NEW d \in Call PROVE Sees(d)'
    <2>1. Sees(d)
      BY DEF EngineInv
    <2>2. \A r \in rows' : Known(d, r.key)'
      BY <1>3, <2>1 DEF Sees
    <2>3. told'[d] # None => told'[d] \in seen'[d]
      BY <2>1 DEF Sees
    <2>4. CASE call'[d] = Done
      BY <2>2, <2>3, <2>4, DoneRow DEF Sees
    <2>5. CASE call'[d] = call[d]
      <3>1. call[d].phase # "before" =>
               Missed(d, call[d].key)' \/ \A e \in Call : Known(e, call[d].key)'
        <4>1. Missed(d, call[d].key) => Missed(d, call[d].key)'
          BY <2>5 DEF Missed
        <4> QED
          BY <1>3, <2>1, <2>5, <4>1 DEF Sees
      <3> QED
        BY <2>1, <2>2, <2>3, <2>5, <3>1 DEF Sees, Contents
    <2> QED
      BY <2>4, <2>5
  <1> QED
    BY <1>1, <1>2, <1>4 DEF EngineInv

\* A call that ends with nothing stored and nothing told.
LEMMA CallEnds ==
    ASSUME EngineAssumption, EngineInv, NEW c \in Call, Ends(c),
           UNCHANGED <<world, rows, history, cache>>
    PROVE  EngineInv'
  <1>1. call' = [call EXCEPT ![c] = Done] /\ call \in [Call -> CallRow]
    BY DEF Ends, Done, EngineInv, Types
  <1>2. call' \in [Call -> CallRow] /\ \A d \in Call : call'[d] = call[d] \/ call'[d] = Done
    BY <1>1, DoneRow
  <1>3. UNCHANGED <<disk, clock, writes, seen, rows, told>>
    BY DEF world, history
  <1>4. CacheInv' /\ RowsInv'
    BY <1>3 DEF EngineInv, CacheInv, RowsInv, Fits
  <1>5. told' \in [Call -> Outputs \cup {None}]
    BY <1>3 DEF EngineInv, Types
  <1> QED
    BY <1>2, <1>3, <1>4, <1>5, EndsOrStays

-----------------------------------------------------------------------------
(* The fingerprint.                                                        *)

\* The identity is read, and what is remembered for it is its content.
LEMMA StatKeeps ==
    ASSUME EngineAssumption, EngineInv, NEW c \in Call, Stat(c)
    PROVE  EngineInv'
  <1> DEFINE f == call[c].at
             known == cache[f] # None /\ cache[f].stamp = disk[f].stamp
             m == [call[c] EXCEPT !.stat = disk[f].stamp, !.hit = known,
                                  !.pc = IF known THEN "verify" ELSE "load",
                                  !.digest = IF known THEN cache[f].data ELSE None]
  <1>0. call \in [Call -> CallRow] /\ call[c] \in CallRow /\ f \in File
    BY DEF EngineInv, Types, CallRow
  <1>1. DiskInv /\ disk[f] \in Version /\ disk[f].stamp \in Stamp /\ disk[f].stamp \in Nat
    BY <1>0 DEF EngineInv, DiskInv, Version, Stamp
  <1>2. known \in BOOLEAN /\ (known => cache[f].data \in Content /\ cache[f].data = disk[f].data)
    BY <1>0 DEF EngineInv, CacheInv, Fits, Version
  <1>3. call' = [call EXCEPT ![c] = m]
    BY <1>0 DEF Stat
  <1>4. /\ m.pc = (IF known THEN "verify" ELSE "load") /\ m.stat = disk[f].stamp
        /\ m.digest = (IF known THEN cache[f].data ELSE None) /\ m.at = f
        /\ m.print = call[c].print /\ m.key = call[c].key /\ m.phase = call[c].phase
        /\ m.out = call[c].out
    BY <1>0 DEF CallRow
  <1>5. m \in CallRow
    BY <1>0, <1>1, <1>2 DEF CallRow, Pc
  <1> HIDE DEF m, known
  <1>6. call'[c] = m /\ UNCHANGED <<disk, cache, told>> /\ UNCHANGED <<world, rows, history>>
    BY <1>0, <1>3 DEF Stat, world, history
  <1>7. call[c].pc = "stat" /\ Reads(c) /\ Runs(c)
    BY DEF Stat, EngineInv
  <1>8. Reads(c)'
    BY <1>1, <1>2, <1>4, <1>6, <1>7 DEF Reads, Reading, Phase, Fits
  <1>9. Runs(c)'
    BY <1>4, <1>6, <1>7 DEF Runs, Fits
  <1>10. CacheInv'
    BY <1>6 DEF EngineInv, CacheInv, Fits
  <1>11. ASSUME NEW k, IsKey(k), Missed(c, k) PROVE Missed(c, k)'
    <2>1. PICK g \in File :
             /\ k[g].stamp < disk[g].stamp
             /\ g <= Len(call[c].print) => k[g].stamp < call[c].print[g].stamp
      BY <1>11 DEF Missed
    <2> QED
      BY <1>4, <1>6, <2>1 DEF Missed
  <1> QED
    BY <1>3, <1>4, <1>5, <1>6, <1>7, <1>8, <1>9, <1>10, <1>11, CallGoesOn

\* The bytes are read.
LEMMA LoadKeeps ==
    ASSUME EngineAssumption, EngineInv, NEW c \in Call, Load(c)
    PROVE  EngineInv'
  <1> DEFINE f == call[c].at
             m == [call[c] EXCEPT !.pc = "verify", !.digest = disk[f].data]
  <1>0. call \in [Call -> CallRow] /\ call[c] \in CallRow /\ f \in File
    BY DEF EngineInv, Types, CallRow
  <1>1. disk[f].data \in Content
    BY <1>0 DEF EngineInv, DiskInv, Version
  <1>3. call' = [call EXCEPT ![c] = m]
    BY <1>0 DEF Load
  <1>4. /\ m.pc = "verify" /\ m.stat = call[c].stat /\ m.digest = disk[f].data /\ m.at = f
        /\ m.print = call[c].print /\ m.key = call[c].key /\ m.phase = call[c].phase
        /\ m.out = call[c].out
    BY <1>0 DEF CallRow
  <1>5. m \in CallRow
    BY <1>0, <1>1 DEF CallRow, Pc
  <1> HIDE DEF m
  <1>6. call'[c] = m /\ UNCHANGED <<disk, cache, told>> /\ UNCHANGED <<world, rows, history>>
    BY <1>0, <1>3 DEF Load, world, history
  <1>7. call[c].pc = "load" /\ Reads(c) /\ Runs(c)
    BY DEF Load, EngineInv
  <1>8. Reads(c)'
    BY <1>1, <1>4, <1>6, <1>7 DEF Reads, Reading, Phase, Fits
  <1>9. Runs(c)'
    BY <1>4, <1>6, <1>7 DEF Runs, Fits
  <1>10. CacheInv'
    BY <1>6 DEF EngineInv, CacheInv, Fits
  <1>11. ASSUME NEW k, IsKey(k), Missed(c, k) PROVE Missed(c, k)'
    <2>1. PICK g \in File :
             /\ k[g].stamp < disk[g].stamp
             /\ g <= Len(call[c].print) => k[g].stamp < call[c].print[g].stamp
             /\ f = g => k[g].stamp < call[c].stat
      BY <1>7, <1>11 DEF Missed
    <2> QED
      BY <1>4, <1>6, <2>1 DEF Missed
  <1> QED
    BY <1>3, <1>4, <1>5, <1>6, <1>7, <1>8, <1>9, <1>10, <1>11, CallGoesOn

\* A list of versions or contents with one more.
LEMMA AppendedList ==
    ASSUME NEW S, NEW q \in Seq(S), NEW x \in S
    PROVE  /\ Append(q, x) \in Seq(S) /\ Len(q) \in Nat /\ Len(Append(q, x)) = Len(q) + 1
           /\ Append(q, x)[Len(q) + 1] = x
           /\ \A i \in 1..Len(q) : Append(q, x)[i] = q[i]
  OBVIOUS

\* The identity is the same after the read: the version read fits the file.
LEMMA VerifyKeeps ==
    ASSUME EngineAssumption, EngineInv, NEW c \in Call, Verify(c)
    PROVE  EngineInv'
  <1> DEFINE f == call[c].at
             x == FilePrint(c)
             m == [call[c] EXCEPT !.print = Append(call[c].print, x),
                                  !.at = IF f < Files THEN f + 1 ELSE 1,
                                  !.pc = IF f < Files THEN "stat" ELSE call[c].phase,
                                  !.stat = 0, !.digest = None, !.hit = FALSE]
  <1>0. /\ call \in [Call -> CallRow] /\ call[c] \in CallRow /\ f \in File
        /\ call[c].pc = "verify" /\ Reads(c) /\ Runs(c) /\ DiskInv
    BY DEF EngineInv, Types, CallRow, Verify
  <1>1. CASE disk[f].stamp # call[c].stat
    BY <1>1, CallEnds DEF Verify
  <1>2. CASE disk[f].stamp = call[c].stat
    <2>1. call[c].digest \in Content /\ call[c].digest = disk[f].data /\ call[c].stat \in Stamp
      BY <1>0, <1>2 DEF Reads, CallRow
    <2>2. x \in Version /\ x.data = disk[f].data /\ x.stamp = disk[f].stamp
      BY <1>2, <2>1 DEF FilePrint, Version
    <2>3. disk[f].stamp \in Nat /\ Files \in Nat \ {0} /\ f \in Nat /\ 1 <= f /\ f <= Files
      BY <1>0 DEF DiskInv, Version, Stamp, EngineAssumption, File
    <2>4. Fits(x, f)
      BY <2>2, <2>3 DEF Fits
    <2> HIDE DEF x
    <2>5. /\ call[c].print \in Seq(Version) /\ Len(call[c].print) = f - 1
      BY <1>0 DEF Reads, Reading, CallRow
    <2>6. /\ Append(call[c].print, x) \in Seq(Version)
          /\ Len(Append(call[c].print, x)) = f
          /\ Append(call[c].print, x)[f] = x
          /\ \A g \in File : g < f => Append(call[c].print, x)[g] = call[c].print[g]
      BY <2>2, <2>3, <2>5, AppendedList DEF File
    <2>7. call' = [call EXCEPT ![c] = m]
      BY <1>0, <1>2 DEF Verify, Advance, x
    <2>8. /\ m.pc = (IF f < Files THEN "stat" ELSE call[c].phase)
          /\ m.at = (IF f < Files THEN f + 1 ELSE 1)
          /\ m.print = Append(call[c].print, x) /\ m.key = call[c].key /\ m.phase = call[c].phase
          /\ m.out = call[c].out /\ m.stat = 0
      BY <1>0 DEF CallRow
    <2>9. m \in CallRow
      <3>1. m.at \in File /\ m.pc \in Pc /\ 0 \in Stamp
        BY <1>0, <2>3, <2>8 DEF File, Pc, Stamp, CallRow, Phase, EngineAssumption
      <3>2. m = [call[c] EXCEPT !.print = Append(call[c].print, x), !.at = m.at, !.pc = m.pc,
                                !.stat = 0, !.digest = None, !.hit = FALSE]
        BY <2>8
      <3> HIDE DEF m
      <3> QED
        BY <1>0, <2>6, <3>1, <3>2 DEF CallRow
    <2> HIDE DEF m
    <2>10. call'[c] = m /\ UNCHANGED <<disk, told>> /\ UNCHANGED <<world, rows, history>>
      BY <1>0, <2>7 DEF Verify, world, history
    <2>11. \A g \in File : g \in Nat /\ (g <= f => g < f \/ g = f)
      BY <2>3 DEF File
    <2>12. call[c].phase \in Phase
      BY <1>0 DEF CallRow
    <2>13. Reads(c)'
      <3>1. \A g \in File : g <= Len(m.print) => Fits(m.print[g], g)
        <4>1. \A g \in File : g < f => Fits(call[c].print[g], g)
          BY <1>0, <2>3, <2>5, <2>11 DEF Reads
        <4> QED
          BY <2>4, <2>6, <2>8, <2>11, <4>1
      <3>2. m.pc \in Reading => m.pc = "stat" /\ Len(m.print) = m.at - 1
        BY <2>3, <2>6, <2>8, <2>12 DEF Reading, Phase
      <3>3. m.pc \in Phase => m.pc = m.phase /\ Len(m.print) = Files /\ m.at = 1
        BY <2>3, <2>6, <2>8, <2>12 DEF Phase
      <3>4. m.pc \in {"stat"} \cup Phase
        BY <2>8, <2>12
      <3> QED
        BY <2>10, <3>1, <3>2, <3>3, <3>4 DEF Reads, Reading, Phase, Fits
    <2>14. Runs(c)'
      <3>1. call[c].phase = "afterFirst" =>
               \A g \in File : g <= Len(m.print) /\ m.print[g] = m.key[g]
                                  => m.out.first[g] = m.key[g].data
        <4>1. ASSUME call[c].phase = "afterFirst", x = call[c].key[f]
              PROVE  call[c].out.first[f] = call[c].key[f].data
          BY <1>0, <2>2, <2>3, <4>1 DEF Runs
        <4>2. ASSUME call[c].phase = "afterFirst", NEW g \in File, g < f,
                     call[c].print[g] = call[c].key[g]
              PROVE  call[c].out.first[g] = call[c].key[g].data
          <5>1. g <= Len(call[c].print)
            BY <2>3, <2>5, <2>11, <4>2
          <5> QED
            BY <1>0, <4>2, <5>1 DEF Runs
        <4> QED
          BY <2>6, <2>8, <2>11, <4>1, <4>2
      <3>2. m.pc \notin {"first", "hit"}
        BY <2>8, <2>12 DEF Phase
      <3> QED
        BY <1>0, <2>8, <2>10, <3>1, <3>2 DEF Runs, Fits
    <2>15. CacheInv'
      <3>1. cache' = cache \/ cache' = [cache EXCEPT ![f] = x]
        BY <1>0, <1>2 DEF Verify, x, FilePrint
      <3> QED
        BY <2>2, <2>4, <2>10, <3>1 DEF EngineInv, CacheInv, Fits
    <2>16. ASSUME NEW k, IsKey(k), Missed(c, k) PROVE Missed(c, k)'
      <3>1. PICK g \in File :
               /\ k[g].stamp < disk[g].stamp
               /\ g <= Len(call[c].print) => k[g].stamp < call[c].print[g].stamp
               /\ f = g => k[g].stamp < call[c].stat
        BY <1>0, <2>16 DEF Missed
      <3>2. g <= Len(m.print) => k[g].stamp < m.print[g].stamp
        <4>1. CASE g = f
          BY <2>2, <2>6, <2>8, <3>1, <4>1
        <4>2. CASE g # f /\ g <= f
          <5>1. g < f /\ g <= Len(call[c].print)
            BY <2>3, <2>5, <2>11, <4>2
          <5> QED
            BY <2>6, <2>8, <3>1, <5>1
        <4> QED
          BY <2>6, <2>8, <4>1, <4>2
      <3>3. m.pc \notin {"load", "verify"}
        BY <2>8, <2>12 DEF Phase
      <3> QED
        BY <2>10, <3>1, <3>2, <3>3 DEF Missed
    <2>17. m.pc \notin {"start", "done", "hit"}
      BY <2>8, <2>12 DEF Phase
    <2> QED
      BY <1>0, <2>7, <2>8, <2>9, <2>10, <2>13, <2>14, <2>15, <2>16, <2>17, CallGoesOn
  <1> QED
    BY <1>1, <1>2

\* A digest is forgotten.
LEMMA ForgetKeeps ==
    ASSUME EngineAssumption, EngineInv, NEW f \in File, Forget(f)
    PROVE  EngineInv'
  <1>1. UNCHANGED <<disk, clock, writes, seen, rows, told, call>>
    BY DEF Forget, world, history
  <1>2. CacheInv' /\ RowsInv'
    BY <1>1 DEF Forget, EngineInv, CacheInv, RowsInv, Fits
  <1>3. call' \in [Call -> CallRow] /\ told' \in [Call -> Outputs \cup {None}]
    BY <1>1 DEF EngineInv, Types
  <1> QED
    BY <1>1, <1>2, <1>3, EndsOrStays

\* A call begins: it sees the contents of a key, or a file has moved on.
LEMMA StartKeeps ==
    ASSUME EngineAssumption, EngineInv, NEW c \in Call, Start(c)
    PROVE  EngineInv'
  <1> DEFINE m == [call[c] EXCEPT !.pc = "stat"]
  <1>0. call \in [Call -> CallRow] /\ call[c] \in CallRow /\ Reads(c) /\ Runs(c) /\ DiskInv
    BY DEF EngineInv, Types
  <1>1. call' = [call EXCEPT ![c] = m]
    BY <1>0 DEF Start, Goto
  <1>2. /\ m.pc = "stat" /\ m.phase = call[c].phase /\ m.print = call[c].print
        /\ m.key = call[c].key /\ m.at = call[c].at /\ m.out = call[c].out /\ m \in CallRow
    BY <1>0 DEF CallRow, Pc
  <1> HIDE DEF m
  <1>3. /\ call' \in [Call -> CallRow] /\ call'[c] = m
        /\ \A d \in Call \ {c} : call'[d] = call[d] /\ seen'[d] = seen[d]
        /\ seen'[c] = {Contents} /\ seen' = [d \in Call |-> seen'[d]]
        /\ UNCHANGED <<disk, clock, writes, cache, rows, told>>
    BY <1>0, <1>1, <1>2 DEF Start, world, EngineInv, Types
  <1>4. /\ call[c].pc = "start" /\ m.phase = "before" /\ m.print = <<>> /\ told[c] = None
        /\ Len(m.print) = 0 /\ m.at = 1 /\ m.out.first = <<>>
    BY <1>0, <1>2 DEF Start, Reads, Runs
  <1>5. Types' /\ DiskInv' /\ CacheInv' /\ RowsInv'
    BY <1>3 DEF EngineInv, Types, DiskInv, CacheInv, RowsInv, Fits
  <1>6. ASSUME NEW d \in Call PROVE Reads(d)' /\ Runs(d)'
    <2>1. CASE d # c
      <3>1. call'[d] = call[d] /\ Reads(d) /\ Runs(d)
        BY <1>3, <2>1 DEF EngineInv
      <3> QED
        BY <1>3, <3>1 DEF Reads, Runs, Fits
    <2>2. CASE d = c
      <3>1. \A f \in File : ~(f <= 0)
        BY DEF File
      <3> QED
        BY <1>2, <1>3, <1>4, <2>2, <3>1 DEF Reads, Runs, Reading, Phase
    <2> QED
      BY <2>1, <2>2
  <1>7. ASSUME NEW k, \A f \in File : Fits(k[f], f) PROVE Known(c, k)'
    <2>1. CASE Data(k) = Contents
      BY <1>3, <2>1 DEF Known
    <2>2. ASSUME NEW f \in File, k[f].stamp < disk[f].stamp PROVE Missed(c, k)'
      <3>1. ~(f <= 0)
        BY DEF File
      <3> QED
        BY <1>2, <1>3, <1>4, <2>2, <3>1 DEF Missed
    <2> QED
      BY <1>0, <1>7, <2>1, <2>2, TogetherOrMovedOn DEF Known
  <1>8. ASSUME NEW d \in Call, d # c, NEW k, Known(d, k) PROVE Known(d, k)'
    <2>1. call'[d] = call[d] /\ seen'[d] = seen[d]
      BY <1>3, <1>8
    <2> QED
      BY <1>3, <1>8, <2>1 DEF Known, Missed
  <1>9. \A r \in rows : \A f \in File : Fits(r.key[f], f)
    BY DEF EngineInv, RowsInv
  <1>10. ASSUME NEW d \in Call PROVE Sees(d)'
    <2>1. Sees(d) /\ Runs(d)
      BY DEF EngineInv
    <2>2. \A r \in rows' : Known(d, r.key)'
      BY <1>3, <1>7, <1>8, <1>9, <2>1 DEF Sees
    <2>3. CASE d = c
      BY <1>2, <1>3, <1>4, <2>2, <2>3 DEF Sees, Contents
    <2>4. CASE d # c
      <3>1. call'[d] = call[d] /\ seen'[d] = seen[d]
        BY <1>3, <2>4
      <3>2. call[d].phase # "before" =>
               Missed(d, call[d].key)' \/ \A e \in Call : Known(e, call[d].key)'
        <4>1. call[d].phase # "before" => \A f \in File : Fits(call[d].key[f], f)
          BY <2>1 DEF Runs
        <4>2. Missed(d, call[d].key) => Missed(d, call[d].key)'
          BY <1>3, <3>1 DEF Missed
        <4> QED
          BY <1>7, <1>8, <2>1, <3>1, <4>1, <4>2 DEF Sees
      <3> QED
        BY <1>3, <2>1, <2>2, <3>1, <3>2 DEF Sees, Contents
    <2> QED
      BY <2>3, <2>4
  <1> QED
    BY <1>5, <1>6, <1>10 DEF EngineInv

-----------------------------------------------------------------------------
(* The hit and the runs of the command.                                    *)

\* The key is complete: its contents are there together, or a file of it has
\* moved on and the fingerprint after the run will miss it.
LEMMA LookupKeeps ==
    ASSUME EngineAssumption, EngineInv, NEW c \in Call, Lookup(c)
    PROVE  EngineInv'
  <1> DEFINE k == call[c].print
             p == IF Visible(k) # {} THEN "hit" ELSE "first"
             n == [call[c] EXCEPT !.key = k, !.print = <<>>, !.phase = "afterFirst", !.pc = p]
  <1>0. /\ call \in [Call -> CallRow] /\ call[c] \in CallRow /\ Reads(c) /\ Runs(c) /\ Sees(c)
        /\ DiskInv /\ call[c].pc = "before"
    BY DEF EngineInv, Types, Lookup
  <1>1. CASE Ends(c)
    BY <1>1, CallEnds DEF Lookup
  <1>2. CASE call' = [call EXCEPT ![c].key = k, ![c].print = <<>>, ![c].phase = "afterFirst",
                                  ![c].pc = p]
    <2>1. call' = [call EXCEPT ![c] = n]
      BY <1>0, <1>2
    <2>2. /\ call[c].phase = "before" /\ Len(k) = Files /\ call[c].at = 1
          /\ k \in Seq(Version) /\ call[c].out.first = <<>>
      BY <1>0 DEF Reads, Runs, Phase, CallRow
    <2>3. \A f \in File : f <= Files /\ ~(f <= 0) /\ Fits(k[f], f) /\ k[f].stamp \in Nat
      BY <1>0, <2>2 DEF Reads, File, EngineAssumption, Fits, Version, Stamp
    <2>4. /\ n.key = k /\ n.print = <<>> /\ n.phase = "afterFirst" /\ n.pc = p
          /\ n.at = 1 /\ n.out = call[c].out
      BY <1>0, <2>2 DEF CallRow
    <2>5. n \in CallRow
      <3>1. <<>> \in Seq(Version) /\ p \in Pc /\ "afterFirst" \in Phase
        BY DEF Pc, Phase
      <3> HIDE DEF p
      <3> QED
        BY <1>0, <2>2, <3>1 DEF CallRow
    <2>6. p \in {"hit", "first"} /\ (p = "hit" => Visible(k) # {})
      OBVIOUS
    <2> HIDE DEF n, p
    <2> PICK m \in CallRow : m = n
      BY <2>5
    <2>7. /\ call'[c] = m /\ UNCHANGED <<disk, cache, told, seen>>
          /\ UNCHANGED <<world, rows, history>> /\ \A d \in Call \ {c} : call'[d] = call[d]
      BY <1>0, <2>1 DEF Lookup, world, history
    <2>8. Reads(c)'
      BY <2>3, <2>4, <2>6, <2>7 DEF Reads, Reading, Phase
    <2>9. Runs(c)'
      BY <2>2, <2>3, <2>4, <2>6, <2>7 DEF Runs, Fits
    <2>10. CacheInv'
      BY <2>7 DEF EngineInv, CacheInv, Fits
    <2>11. ~Missed(c, k)
      BY <2>2, <2>3 DEF Missed
    <2>12. m.pc = "hit" => Data(m.key) \in seen[c]
      BY <1>0, <2>2, <2>4, <2>6, <2>11 DEF Visible, Sees, Known
    <2>13. \A j : Known(c, j)'
      BY <2>4, <2>7 DEF Known
    <2>14. Missed(c, m.key)' \/ \A d \in Call : Known(d, m.key)'
      <3>1. CASE Data(k) = Contents
        <4>1. ASSUME NEW d \in Call, d # c PROVE Known(d, m.key)'
          <5>1. Sees(d) /\ call'[d] = call[d]
            BY <2>7, <4>1 DEF EngineInv
          <5> QED
            BY <2>4, <2>7, <3>1, <5>1 DEF Sees, Known
        <4> QED
          BY <2>13, <4>1
      <3>2. ASSUME NEW f \in File, k[f].stamp < disk[f].stamp PROVE Missed(c, m.key)'
        BY <2>3, <2>4, <2>6, <2>7, <3>2 DEF Missed
      <3> QED
        BY <1>0, <2>3, <3>1, <3>2, TogetherOrMovedOn
    <2> QED
      BY <1>0, <2>1, <2>4, <2>5, <2>6, <2>7, <2>8, <2>9, <2>10, <2>12, <2>13, <2>14, CallMoves
  <1> QED
    BY <1>1, <1>2 DEF Lookup

\* One row is marked: its key and its output stay.
LEMMA RowMarked ==
    ASSUME EngineInv, UNCHANGED disk, NEW r \in rows, NEW q \in Row, q.key = r.key, q.out = r.out,
           rows' = (rows \ {r}) \cup {q}
    PROVE  RowsInv' /\ \A x \in rows' : \E y \in rows : y.key = x.key
  <1>1. RowsInv
    BY DEF EngineInv
  <1>2. \A x \in rows' : \E y \in rows : y.key = x.key /\ y.out = x.out
    OBVIOUS
  <1>3. \A x, y \in rows' : x.key = y.key => x = y
    BY <1>1 DEF RowsInv
  <1>4. rows' \subseteq Row
    BY <1>1 DEF RowsInv
  <1>5. \A x \in rows' : \A f \in File : Fits(x.key[f], f)' /\ x.out[f] = x.key[f].data
    BY <1>1, <1>2 DEF RowsInv, Fits
  <1> QED
    BY <1>2, <1>3, <1>4, <1>5 DEF RowsInv

\* A hit is answered, or its row is quarantined.
LEMMA AnswerKeeps ==
    ASSUME EngineAssumption, EngineInv, NEW c \in Call, Answer(c)
    PROVE  EngineInv'
  <1>1. call' = [call EXCEPT ![c] = Done] /\ call \in [Call -> CallRow]
    BY DEF Answer, Ends, Done, EngineInv, Types
  <1>2. /\ call' \in [Call -> CallRow] /\ call'[c] = Done
        /\ \A d \in Call : call'[d] = call[d] \/ call'[d] = Done
    BY <1>1, DoneRow
  <1>3. UNCHANGED <<disk, clock, writes, seen>> /\ told \in [Call -> Outputs \cup {None}] /\ RowsInv
    BY DEF Answer, world, EngineInv, Types
  <1>4. CacheInv'
    BY <1>3 DEF Answer, EngineInv, CacheInv, Fits
  <1>5. PICK r \in rows :
           /\ r.key = call[c].key
           /\ IF r.good
              THEN told' = [told EXCEPT ![c] = r.out] /\ UNCHANGED rows
              ELSE /\ rows' = (rows \ {r}) \cup {[r EXCEPT !.status = "quarantined"]}
                   /\ UNCHANGED told
    BY DEF Answer
  <1>6. r \in Row
    BY <1>3 DEF RowsInv
  <1>7. CASE told' = [told EXCEPT ![c] = r.out] /\ UNCHANGED rows
    <2>1. r.out \in Outputs /\ Data(r.key) = r.out
      BY <1>3, <1>6 DEF RowsInv, Row, Data, Outputs
    <2>2. r.out \in seen[c]
      BY <1>5, <2>1 DEF Answer, EngineInv, Sees
    <2>3. told' \in [Call -> Outputs \cup {None}]
      BY <1>3, <1>7, <2>1
    <2>4. \A d \in Call : told'[d] = told[d] \/ (told'[d] \in seen[d] /\ call'[d] = Done)
      BY <1>2, <1>3, <1>7, <2>2
    <2>5. RowsInv'
      BY <1>3, <1>7 DEF RowsInv, Fits
    <2> QED
      BY <1>2, <1>3, <1>4, <1>7, <2>3, <2>4, <2>5, EndsOrStays
  <1>8. CASE /\ rows' = (rows \ {r}) \cup {[r EXCEPT !.status = "quarantined"]}
             /\ UNCHANGED told
    <2> DEFINE q == [r EXCEPT !.status = "quarantined"]
    <2>1. q \in Row /\ q.key = r.key /\ q.out = r.out
      BY <1>6 DEF Row
    <2> HIDE DEF q
    <2>2. RowsInv' /\ \A x \in rows' : \E y \in rows : y.key = x.key
      BY <1>3, <1>8, <2>1, RowMarked DEF q
    <2>3. told' \in [Call -> Outputs \cup {None}]
      BY <1>3, <1>8
    <2> QED
      BY <1>2, <1>3, <1>4, <1>8, <2>2, <2>3, EndsOrStays
  <1> QED
    BY <1>5, <1>7, <1>8

\* A blob is damaged.
LEMMA DamageKeeps ==
    ASSUME EngineAssumption, EngineInv, Damage
    PROVE  EngineInv'
  <1>1. UNCHANGED <<disk, clock, writes, seen, told, call, cache>> /\ RowsInv
    BY DEF Damage, history, EngineInv
  <1>2. PICK r \in rows : rows' = (rows \ {r}) \cup {[r EXCEPT !.good = FALSE]}
    BY DEF Damage
  <1> DEFINE q == [r EXCEPT !.good = FALSE]
  <1>3. q \in Row /\ q.key = r.key /\ q.out = r.out
    BY <1>1 DEF Row, RowsInv
  <1> HIDE DEF q
  <1>4. RowsInv' /\ \A x \in rows' : \E y \in rows : y.key = x.key
    BY <1>1, <1>2, <1>3, RowMarked DEF q
  <1>5. CacheInv' /\ call' \in [Call -> CallRow] /\ told' \in [Call -> Outputs \cup {None}]
    BY <1>1 DEF EngineInv, CacheInv, Fits, Types
  <1> QED
    BY <1>1, <1>4, <1>5, EndsOrStays

\* The command reads a file: while the key fits the file it reads the key's.
LEMMA ExecuteKeeps ==
    ASSUME EngineAssumption, EngineInv, NEW c \in Call, Execute(c)
    PROVE  EngineInv'
  <1> DEFINE f == call[c].at
             p == call[c].pc
             o == [call[c].out EXCEPT ![p] = Append(@, disk[f].data)]
             m == [call[c] EXCEPT !.out = o,
                                  !.pc = IF f < Files THEN p ELSE "stat",
                                  !.at = IF f < Files THEN f + 1 ELSE 1]
  <1>0. /\ call \in [Call -> CallRow] /\ call[c] \in CallRow /\ f \in File
        /\ Reads(c) /\ Runs(c) /\ DiskInv /\ p \in {"first", "shadow"}
    BY DEF EngineInv, Types, CallRow, Execute
  <1>1. Files \in Nat \ {0} /\ f \in Nat /\ 1 <= f /\ f <= Files /\ disk[f].data \in Content
    BY <1>0 DEF EngineAssumption, File, DiskInv, Version
  <1>2. call' = [call EXCEPT ![c] = m]
    BY <1>0 DEF Execute, CallRow
  <1>3. /\ call[c].out \in [first : Seq(Content), shadow : Seq(Content)]
        /\ call[c].out.first \in Seq(Content) /\ call[c].out.shadow \in Seq(Content)
    BY <1>0 DEF CallRow
  <1>4. /\ o \in [first : Seq(Content), shadow : Seq(Content)]
        /\ p = "first" => o.first = Append(call[c].out.first, disk[f].data)
        /\ p = "shadow" => o.first = call[c].out.first
    BY <1>0, <1>1, <1>3, AppendedList
  <1>5. /\ m.out = o /\ m.pc = (IF f < Files THEN p ELSE "stat")
        /\ m.at = (IF f < Files THEN f + 1 ELSE 1) /\ m.print = call[c].print
        /\ m.key = call[c].key /\ m.phase = call[c].phase
    BY <1>0 DEF CallRow
  <1>6. m \in CallRow
    <2>1. (IF f < Files THEN f + 1 ELSE 1) \in File /\ (IF f < Files THEN p ELSE "stat") \in Pc
      BY <1>0, <1>1 DEF File, Pc
    <2> HIDE DEF o
    <2> QED
      BY <1>0, <1>4, <2>1 DEF CallRow
  <1> HIDE DEF m, o
  <1>7. call'[c] = m /\ UNCHANGED <<disk, cache, told>> /\ UNCHANGED <<world, rows, history>>
    BY <1>0, <1>2 DEF Execute, world, history
  <1>8. call[c].print = <<>> /\ Len(call[c].print) = 0
    BY <1>0 DEF Reads
  <1>9. \A g \in File : g \in Nat /\ ~(g <= 0) /\ (g <= f => g < f \/ g = f)
    BY <1>1 DEF File
  <1>10. Reads(c)'
    <2>1. m.pc \in {"first", "shadow", "stat"} /\ (m.pc = "stat" => m.at = 1)
      BY <1>0, <1>1, <1>5
    <2>2. /\ m.pc = "first" => m.phase = "afterFirst"
          /\ m.pc = "shadow" => m.phase = "afterShadow"
      BY <1>0, <1>5 DEF Reads
    <2> QED
      BY <1>5, <1>7, <1>8, <1>9, <2>1, <2>2 DEF Reads, Reading, Phase
  <1>11. Runs(c)'
    <2>1. CASE p = "first"
      <3>1. call[c].phase = "afterFirst" /\ Len(call[c].out.first) = f - 1
        BY <1>0, <2>1 DEF Reads, Runs
      <3>2. /\ Len(o.first) = f /\ o.first[f] = disk[f].data
            /\ \A g \in File : g < f => o.first[g] = call[c].out.first[g]
        <4> DEFINE q == call[c].out.first
                   x == disk[f].data
        <4>1. q \in Seq(Content) /\ x \in Content /\ Len(q) = f - 1 /\ o.first = Append(q, x)
          BY <1>1, <1>3, <1>4, <2>1, <3>1
        <4>2. \A g \in File : g < f => g \in 1..Len(q)
          BY <1>1, <4>1 DEF File
        <4> HIDE DEF q, x
        <4>3. /\ Len(q) \in Nat /\ Len(Append(q, x)) = Len(q) + 1
              /\ Append(q, x)[Len(q) + 1] = x
              /\ \A i \in 1..Len(q) : Append(q, x)[i] = q[i]
          BY <4>1, AppendedList
        <4>4. Len(q) + 1 = f
          BY <1>1, <4>1
        <4> QED
          BY <4>1, <4>2, <4>3, <4>4 DEF q, x
      <3>3. Len(call[c].key) = Files /\ \A g \in File : Fits(call[c].key[g], g)
        BY <1>0, <3>1 DEF Runs
      <3>4. ASSUME NEW g \in File, g <= Len(o.first), call[c].key[g].stamp = disk[g].stamp
            PROVE  o.first[g] = call[c].key[g].data
        <4>1. CASE g = f
          BY <3>2, <3>3, <3>4, <4>1 DEF Fits
        <4>2. CASE g < f
          <5>1. g <= Len(call[c].out.first)
            BY <1>1, <1>9, <3>1, <4>2
          <5> QED
            BY <1>0, <3>1, <3>2, <3>4, <4>2, <5>1 DEF Runs
        <4> QED
          BY <1>9, <3>2, <3>4, <4>1, <4>2
      <3>5. Len(o.first) = IF m.pc \in {"first", "hit"} THEN m.at - 1 ELSE Files
        BY <1>1, <1>5, <2>1, <3>2
      <3> QED
        BY <1>5, <1>7, <1>8, <1>9, <3>1, <3>3, <3>4, <3>5 DEF Runs, Fits
    <2>2. CASE p = "shadow"
      <3>1. call[c].phase = "afterShadow" /\ o.first = call[c].out.first
        BY <1>0, <1>4, <2>2 DEF Reads
      <3> QED
        BY <1>0, <1>5, <1>7, <3>1 DEF Runs, Fits
    <2> QED
      BY <1>0, <2>1, <2>2
  <1>12. CacheInv'
    BY <1>7 DEF EngineInv, CacheInv, Fits
  <1>13. m.pc \notin {"load", "verify", "start", "done", "hit"}
    BY <1>0, <1>5
  <1>14. ASSUME NEW k, IsKey(k), Missed(c, k) PROVE Missed(c, k)'
    BY <1>5, <1>7, <1>13, <1>14 DEF Missed
  <1> QED
    BY <1>0, <1>2, <1>5, <1>6, <1>7, <1>10, <1>11, <1>12, <1>13, <1>14, CallGoesOn

\* A fingerprint that finds the key again: no file had moved on.
LEMMA FoundAgain ==
    ASSUME EngineAssumption, EngineInv, NEW c \in Call, call[c].pc \in {"afterFirst", "afterShadow"},
           Unchanged(c)
    PROVE  /\ ~Missed(c, call[c].key) /\ \A d \in Call : Known(d, call[c].key)
           /\ \A f \in File : call[c].out.first[f] = call[c].key[f].data
           /\ Len(call[c].out.first) = Files /\ Len(call[c].key) = Files
           /\ \A f \in File : Fits(call[c].key[f], f)
  <1>1. /\ call[c].phase = call[c].pc /\ Len(call[c].print) = Files
        /\ Runs(c) /\ Sees(c) /\ call[c].phase # "before"
    BY DEF EngineInv, Reads, Phase
  <1>2. \A f \in File : f <= Files
    BY DEF File, EngineAssumption
  <1>3. Len(call[c].key) = Files /\ \A f \in File : Fits(call[c].key[f], f)
    BY <1>1 DEF Runs
  <1>4. \A f \in File : call[c].key[f].stamp \in Nat
    BY <1>3 DEF Fits, Version, Stamp
  <1>5. ~Missed(c, call[c].key)
    BY <1>1, <1>2, <1>4 DEF Missed, Unchanged
  <1>6. \A f \in File : call[c].out.first[f] = call[c].key[f].data
    BY <1>1, <1>2 DEF Runs, Unchanged
  <1>7. Len(call[c].out.first) = Files
    BY <1>1 DEF Runs
  <1> QED
    BY <1>1, <1>3, <1>5, <1>6, <1>7 DEF Sees

\* Between the two runs.
LEMMA AfterFirstKeeps ==
    ASSUME EngineAssumption, EngineInv, NEW c \in Call, AfterFirst(c)
    PROVE  EngineInv'
  <1> DEFINE n == [call[c] EXCEPT !.pc = "shadow", !.print = <<>>, !.phase = "afterShadow"]
  <1>0. /\ call \in [Call -> CallRow] /\ call[c] \in CallRow /\ Reads(c) /\ Runs(c)
        /\ call[c].pc = "afterFirst"
    BY DEF EngineInv, Types, AfterFirst
  <1>1. CASE Ends(c)
    BY <1>1, CallEnds DEF AfterFirst
  <1>2. CASE /\ Unchanged(c)
             /\ call' = [call EXCEPT ![c].pc = "shadow", ![c].print = <<>>,
                                     ![c].phase = "afterShadow"]
    <2>1. call' = [call EXCEPT ![c] = n]
      BY <1>0, <1>2
    <2>2. /\ n.pc = "shadow" /\ n.print = <<>> /\ n.phase = "afterShadow"
          /\ n.key = call[c].key /\ n.out = call[c].out /\ n.at = call[c].at
      BY <1>0 DEF CallRow
    <2>3. n \in CallRow
      <3>1. <<>> \in Seq(Version) /\ "shadow" \in Pc /\ "afterShadow" \in Phase
        BY DEF Pc, Phase
      <3> QED
        BY <1>0, <3>1 DEF CallRow
    <2> HIDE DEF n
    <2> PICK m \in CallRow : m = n
      BY <2>3
    <2>4. /\ call'[c] = m /\ UNCHANGED <<disk, cache, told, seen>>
          /\ UNCHANGED <<world, rows, history>> /\ \A d \in Call \ {c} : call'[d] = call[d]
      BY <1>0, <2>1 DEF AfterFirst, world, history
    <2>5. /\ \A d \in Call : Known(d, m.key)
          /\ \A f \in File : m.out.first[f] = m.key[f].data
          /\ Len(m.out.first) = Files /\ Len(m.key) = Files
          /\ \A f \in File : Fits(m.key[f], f)
      BY <1>0, <1>2, <2>2, FoundAgain
    <2>6. \A f \in File : ~(f <= 0)
      BY DEF File
    <2>7. Reads(c)' /\ Runs(c)'
      BY <2>2, <2>4, <2>5, <2>6 DEF Reads, Runs, Reading, Phase, Fits
    <2>8. CacheInv'
      BY <2>4 DEF EngineInv, CacheInv, Fits
    <2>9. \A k : Known(c, k)'
      BY <2>2, <2>4 DEF Known
    <2>10. ASSUME NEW d \in Call PROVE Known(d, m.key)'
      <3>1. CASE d # c
        <4>1. call'[d] = call[d]
          BY <2>4, <3>1
        <4> QED
          BY <2>4, <2>5, <4>1 DEF Known, Missed
      <3> QED
        BY <2>9, <3>1
    <2> QED
      BY <1>0, <2>1, <2>2, <2>4, <2>7, <2>8, <2>9, <2>10, CallMoves
  <1> QED
    BY <1>1, <1>2 DEF AfterFirst

\* The result is stored.
LEMMA AfterShadowKeeps ==
    ASSUME EngineAssumption, EngineInv, NEW c \in Call, AfterShadow(c)
    PROVE  EngineInv'
  <1> DEFINE same == {r \in rows : r.key = call[c].key}
             row == [key |-> call[c].key, out |-> call[c].out.first, good |-> TRUE,
                     status |-> "visible"]
             Marked(r) == IF r.out = row.out THEN r ELSE [r EXCEPT !.status = "quarantined"]
  <1>1. call' = [call EXCEPT ![c] = Done] /\ call \in [Call -> CallRow] /\ call[c] \in CallRow
    BY DEF AfterShadow, Ends, Done, EngineInv, Types
  <1>2. /\ call' \in [Call -> CallRow]
        /\ \A d \in Call : call'[d] = call[d] \/ call'[d] = Done
    BY <1>1, DoneRow
  <1>3. /\ UNCHANGED <<disk, clock, writes, seen, told, cache>> /\ RowsInv
        /\ told' \in [Call -> Outputs \cup {None}]
    BY DEF AfterShadow, world, history, EngineInv, Types
  <1>4. CacheInv'
    BY <1>3 DEF EngineInv, CacheInv, Fits
  <1>5. \/ rows' = rows
        \/ Unchanged(c) /\ rows' = rows \cup {row} /\ same = {}
        \/ rows' = {r \in rows : r.key # call[c].key} \cup {Marked(r) : r \in same}
    BY DEF AfterShadow
  <1>6. CASE rows' = rows
    <2>1. RowsInv'
      BY <1>3, <1>6 DEF RowsInv, Fits
    <2> QED
      BY <1>2, <1>3, <1>4, <1>6, <2>1, EndsOrStays
  <1>7. CASE Unchanged(c) /\ rows' = rows \cup {row} /\ same = {}
    <2>1. /\ \A d \in Call : Known(d, call[c].key)
          /\ \A f \in File : call[c].out.first[f] = call[c].key[f].data
          /\ Len(call[c].out.first) = Files /\ Len(call[c].key) = Files
          /\ \A f \in File : Fits(call[c].key[f], f)
      BY <1>7, FoundAgain DEF AfterShadow
    <2>2. call[c].key \in Seq(Version) /\ call[c].out.first \in Seq(Content)
      BY <1>1 DEF CallRow
    <2>3. call[c].key \in [File -> Version] /\ call[c].out.first \in Outputs
      BY <2>1, <2>2 DEF File, Outputs
    <2>4. row \in Row /\ row.key = call[c].key /\ row.out = call[c].out.first
      BY <2>3 DEF Row
    <2>5. \A r \in rows : r.key # row.key
      BY <1>7, <2>4
    <2> HIDE DEF row
    <2>6. rows' \subseteq Row /\ \A x, y \in rows' : x.key = y.key => x = y
      BY <1>3, <1>7, <2>4, <2>5 DEF RowsInv
    <2>7. \A x \in rows' : \A f \in File : Fits(x.key[f], f)' /\ x.out[f] = x.key[f].data
      BY <1>3, <1>7, <2>1, <2>4 DEF RowsInv, Fits
    <2>8. RowsInv'
      BY <2>6, <2>7 DEF RowsInv
    <2>9. \A x \in rows' : (\E y \in rows : y.key = x.key) \/ \A d \in Call : Known(d, x.key)
      BY <1>7, <2>1, <2>4
    <2> QED
      BY <1>2, <1>3, <1>4, <2>8, <2>9, EndsOrStays
  <1>8. CASE rows' = {r \in rows : r.key # call[c].key} \cup {Marked(r) : r \in same}
    <2>1. \A r \in rows : Marked(r) \in Row /\ Marked(r).key = r.key /\ Marked(r).out = r.out
      BY <1>3 DEF RowsInv, Row
    <2> HIDE DEF Marked
    <2>2. \A x \in rows' : \E y \in rows : /\ y.key = x.key /\ y.out = x.out
                                           /\ x = y \/ (y.key = call[c].key /\ x = Marked(y))
      BY <1>8, <2>1
    <2>3. rows' \subseteq Row
      BY <1>3, <1>8, <2>1 DEF RowsInv
    <2>4. \A x \in rows' : x.key = call[c].key => \E y \in same : x = Marked(y)
      BY <1>8
    <2>5. \A x, y \in rows' : x.key = y.key => x = y
      BY <1>3, <2>1, <2>2, <2>4 DEF RowsInv
    <2>6. \A x \in rows' : \A f \in File : Fits(x.key[f], f)' /\ x.out[f] = x.key[f].data
      BY <1>3, <2>2 DEF RowsInv, Fits
    <2>7. RowsInv'
      BY <2>3, <2>5, <2>6 DEF RowsInv
    <2> QED
      BY <1>2, <1>3, <1>4, <2>2, <2>7, EndsOrStays
  <1> QED
    BY <1>5, <1>6, <1>7, <1>8

\* A write in the middle of anything: what was read before it still fits, what was
\* missed is still missed, and every call that runs sees the new contents too.
LEMMA WriteKeeps ==
    ASSUME FineClock, EngineAssumption, EngineInv, NEW g \in File, NEW v \in Content, Write(g, v)
    PROVE  EngineInv'
  <1>1. /\ DiskInv' /\ DiskInv /\ \A f \in File : disk[f].stamp \in Nat /\ disk'[f].stamp \in Nat
        /\ \A f \in File : disk[f].stamp <= disk'[f].stamp
        /\ \A f \in File : disk'[f].stamp = disk[f].stamp => disk'[f] = disk[f]
        /\ disk' = [disk EXCEPT ![g] = [data |-> v, stamp |-> clock']]
    BY WriteTouches DEF EngineInv
  <1>2. /\ UNCHANGED <<cache, rows, call, told>>
        /\ seen' = [c \in Call |-> IF call[c].pc \in {"start", "done"} THEN seen[c]
                                   ELSE seen[c] \cup {[Contents EXCEPT ![g] = v]}]
    BY DEF Write
  <1>3. \A f \in File : \A x : Fits(x, f) => Fits(x, f)'
    BY FitsStays
  <1>4. \A c \in Call : \A k : IsKey(k) /\ Missed(c, k) => Missed(c, k)'
    BY MissedStays
  <1>5. /\ \A c \in Call : seen[c] \subseteq seen'[c]
        /\ \A c \in Call : call[c].pc \notin {"start", "done"} =>
               [Contents EXCEPT ![g] = v] \in seen'[c]
    BY <1>2
  <1>6. Contents' = [Contents EXCEPT ![g] = v]
    BY <1>1 DEF Contents, DiskInv
  <1>7. \A c \in Call : \A k : IsKey(k) /\ Known(c, k) => Known(c, k)'
    BY <1>2, <1>4, <1>5 DEF Known
  <1>8. Types' /\ CacheInv' /\ RowsInv'
    <2>1. Types'
      BY <1>2 DEF EngineInv, Types
    <2>2. CacheInv'
      BY <1>2, <1>3 DEF EngineInv, CacheInv
    <2>3. RowsInv'
      BY <1>2, <1>3 DEF EngineInv, RowsInv
    <2> QED
      BY <2>1, <2>2, <2>3
  <1>9. ASSUME NEW c \in Call PROVE Reads(c)' /\ Runs(c)' /\ Sees(c)'
    <2>1. Reads(c) /\ Runs(c) /\ Sees(c) /\ call[c] \in CallRow /\ call'[c] = call[c]
      BY <1>2 DEF EngineInv, Types
    <2>2. call[c].at \in File /\ call[c].stat \in Nat
      BY <2>1 DEF CallRow, Stamp
    <2>3. Reads(c)'
      <3>1. \A f \in File : f <= Len(call[c].print) => Fits(call[c].print[f], f)'
        BY <1>3, <2>1 DEF Reads
      <3>2. call[c].pc \in {"load", "verify"} => call[c].stat <= disk'[call[c].at].stamp
        <4>1. call[c].pc \in {"load", "verify"} => call[c].stat <= disk[call[c].at].stamp
          BY <2>1 DEF Reads
        <4> QED
          BY <1>1, <2>2, <4>1
      <3>3. /\ call[c].pc = "verify" /\ call[c].stat = disk'[call[c].at].stamp
                 => call[c].digest = disk'[call[c].at].data
        <4>1. /\ call[c].pc = "verify" => call[c].stat <= disk[call[c].at].stamp
              /\ call[c].pc = "verify" /\ call[c].stat = disk[call[c].at].stamp
                   => call[c].digest = disk[call[c].at].data
          BY <2>1 DEF Reads
        <4> QED
          BY <1>1, <2>2, <4>1
      <3> QED
        BY <1>2, <2>1, <3>1, <3>2, <3>3 DEF Reads
    <2>4. Runs(c)'
      <3>1. call[c].phase # "before" =>
               \A f \in File : Fits(call[c].key[f], f) /\ Fits(call[c].key[f], f)'
        BY <1>3, <2>1 DEF Runs
      <3>2. ASSUME NEW f \in File, call[c].phase # "before",
                   call[c].key[f].stamp = disk'[f].stamp
            PROVE  call[c].key[f].stamp = disk[f].stamp
        <4>1. call[c].key[f].stamp <= disk[f].stamp
          BY <3>1, <3>2 DEF Fits
        <4> QED
          BY <1>1, <3>2, <4>1
      <3> QED
        BY <2>1, <3>1, <3>2 DEF Runs
    <2>5. Sees(c)'
      <3>1. call[c].phase # "before" => IsKey(call[c].key)
        BY <2>1 DEF Runs, IsKey, Fits
      <3>2. \A r \in rows : IsKey(r.key)
        BY DEF EngineInv, RowsInv, Row, IsKey
      <3>3. call[c].phase # "before" =>
               Missed(c, call[c].key)' \/ \A d \in Call : Known(d, call[c].key)'
        BY <1>4, <1>7, <2>1, <3>1 DEF Sees
      <3>4. \A r \in rows : Known(c, r.key)'
        BY <1>7, <2>1, <3>2 DEF Sees
      <3> QED
        BY <1>2, <1>5, <1>6, <2>1, <3>3, <3>4 DEF Sees
    <2> QED
      BY <2>3, <2>4, <2>5
  <1> QED
    BY <1>1, <1>8, <1>9 DEF EngineInv

-----------------------------------------------------------------------------
(* The theorem.                                                            *)

\* Nothing has been read, stored or answered at the start.
LEMMA EngineStarts ==
    ASSUME EngineAssumption, Init
    PROVE  EngineInv
  <1>1. Files \in Nat \ {0} /\ MaxWrites \in Nat /\ 1 \in File /\ 0 \in Stamp
    BY DEF EngineAssumption, File, Stamp
  <1>2. \A f \in File : disk[f].data \in Content /\ disk[f].stamp = 0
    BY DEF Init
  <1>3. DiskInv
    <2>1. disk \in [File -> Version]
      BY <1>1 DEF Init, Version
    <2> QED
      BY <1>1, <1>2, <2>1 DEF Init, DiskInv
  <1>4. CacheInv /\ RowsInv
    BY DEF Init, CacheInv, RowsInv
  <1>5. /\ Blank.pc = "start" /\ Blank.phase = "before" /\ Blank.at = 1 /\ Blank.print = <<>>
        /\ Blank.out.first = <<>>
    BY DEF Blank
  <1>6. Blank \in CallRow
    <2>1. <<>> \in Seq(Version) /\ <<>> \in Seq(Content) /\ "start" \in Pc /\ "before" \in Phase
      BY DEF Pc, Phase
    <2>2. [first |-> <<>>, shadow |-> <<>>] \in [first : Seq(Content), shadow : Seq(Content)]
      BY <2>1
    <2> QED
      BY <1>1, <2>1, <2>2 DEF Blank, CallRow
  <1>7. \A c \in Call : call[c] = Blank /\ told[c] = None
    BY DEF Init
  <1>8. Types
    BY <1>6 DEF Init, Types
  <1>9. ASSUME NEW c \in Call PROVE Reads(c) /\ Runs(c) /\ Sees(c)
    <2>1. \A f \in File : ~(f <= 0)
      BY DEF File
    <2>2. Len(<<>>) = 0
      OBVIOUS
    <2>3. Reads(c)
      BY <1>5, <1>7, <2>1, <2>2 DEF Reads, Reading, Phase
    <2>4. Runs(c)
      BY <1>5, <1>7 DEF Runs
    <2>5. Sees(c)
      BY <1>5, <1>7 DEF Init, Sees
    <2> QED
      BY <2>3, <2>4, <2>5
  <1> QED
    BY <1>3, <1>4, <1>8, <1>9 DEF EngineInv

\* Every step keeps the invariant.
LEMMA EngineStep ==
    ASSUME FineClock, EngineAssumption, EngineInv, [Next]_vars
    PROVE  EngineInv'
  <1>1. ASSUME NEW c \in Call, CallNext(c) PROVE EngineInv'
    <2>1. CASE Start(c)
      BY <2>1, StartKeeps
    <2>2. CASE Stat(c)
      BY <2>2, StatKeeps
    <2>3. CASE Load(c)
      BY <2>3, LoadKeeps
    <2>4. CASE Verify(c)
      BY <2>4, VerifyKeeps
    <2>5. CASE Lookup(c)
      BY <2>5, LookupKeeps
    <2>6. CASE Answer(c)
      BY <2>6, AnswerKeeps
    <2>7. CASE ProbeFails(c)
      BY <2>7, CallEnds DEF ProbeFails
    <2>8. CASE Execute(c)
      BY <2>8, ExecuteKeeps
    <2>9. CASE Unstorable(c)
      BY <2>9, CallEnds DEF Unstorable
    <2>10. CASE AfterFirst(c)
      BY <2>10, AfterFirstKeeps
    <2>11. CASE AfterShadow(c)
      BY <2>11, AfterShadowKeeps
    <2> QED
      BY <1>1, <2>1, <2>2, <2>3, <2>4, <2>5, <2>6, <2>7, <2>8, <2>9, <2>10, <2>11 DEF CallNext
  <1>2. ASSUME NEW f \in File, Forget(f) PROVE EngineInv'
    BY <1>2, ForgetKeeps
  <1>3. ASSUME NEW f \in File, NEW v \in Content, Write(f, v) PROVE EngineInv'
    BY <1>3, WriteKeeps
  <1>4. CASE Damage
    BY <1>4, DamageKeeps
  <1>5. CASE UNCHANGED vars
    <2>1. UNCHANGED <<disk, clock, writes, cache, rows, call, told, seen>>
      BY <1>5 DEF vars
    <2>2. Types' /\ DiskInv' /\ CacheInv' /\ RowsInv'
      BY <2>1 DEF EngineInv, Types, DiskInv, CacheInv, RowsInv, Fits
    <2>3. \A c \in Call : Reads(c)' /\ Runs(c)'
      BY <2>1 DEF EngineInv, Reads, Runs, Fits
    <2>4. \A c \in Call : Sees(c)'
      BY <2>1 DEF EngineInv, Sees, Known, Missed, Contents
    <2> QED
      BY <2>2, <2>3, <2>4 DEF EngineInv
  <1> QED
    BY <1>1, <1>2, <1>3, <1>4, <1>5 DEF Next

\* The invariant says what EngineIsTrue promises, and more.
LEMMA EngineInvIsTrue ==
    ASSUME EngineAssumption, EngineInv
    PROVE  EngineIsTrue
  <1>1. clock \in Stamp
    BY DEF EngineInv, DiskInv, Stamp, EngineAssumption
  <1>2. \A r \in rows : r.key \in [File -> Version] /\ r.out \in Outputs
                        /\ r.status \in {"visible", "quarantined"}
    BY DEF EngineInv, RowsInv, Row
  <1>3. \A c \in Call : call[c].at \in File /\ call[c].phase \in Phase
    BY DEF EngineInv, Types, CallRow
  <1>4. EngineTypeOK
    BY <1>1, <1>2, <1>3 DEF EngineTypeOK, EngineInv, Types, DiskInv, CacheInv, RowsInv
  <1>5. DigestIsTrue
    BY DEF DigestIsTrue, EngineInv, CacheInv, Fits
  <1>6. ResultIsTrue
    BY DEF ResultIsTrue, EngineInv, RowsInv
  <1>7. HitIsCurrent
    BY DEF HitIsCurrent, EngineInv, Sees
  <1> QED
    BY <1>4, <1>5, <1>6, <1>7 DEF EngineIsTrue

\* run_admitted, for any number of calls, files and writes: a remembered digest
\* that would be used is the digest of the file, a stored result is the output for
\* the contents its key stands for, and an answer is the output for contents that
\* were all on the disk at one moment of the call.
THEOREM EngineTrue ==
    ASSUME EngineAssumption, FineClock
    PROVE  Spec => []EngineIsTrue
  <1>1. Init => EngineInv
    BY EngineStarts
  <1>2. EngineInv /\ [Next]_vars => EngineInv'
    BY EngineStep
  <1>3. EngineInv => EngineIsTrue
    BY EngineInvIsTrue
  <1> QED
    BY <1>1, <1>2, <1>3, PTL DEF Spec
=============================================================================
