------------------------ MODULE EndpointAuditProofs --------------------------
(***************************************************************************)
(* Proofs about EndpointAudit, for any peers, windows, capacities, boots    *)
(* and failures: an episode that is over is on the spool with all its       *)
(* writes, revisions stay in order, a shutdown does not wait, and an append *)
(* that fails shows.                                                        *)
(***************************************************************************)
EXTENDS EndpointAudit, FiniteSetTheorems, FunctionTheorems, SequenceTheorems, TLAPS

\* Nothing is counted twice, and only finitely many episodes are open.
Bounded ==
    /\ spool \in Seq(Events) /\ IsFiniteSet(Openings)
    /\ \A id \in Ids : observed[id] <= writes
    /\ next <= writes + faults /\ state.next <= writes + faults
    /\ \A p \in Openings : open[p].count <= writes

\* While the agent runs the state file is of its boot; a process that ended holds nothing.
Process ==
    /\ running = "up" => state.boot = boot /\ state.next <= next
    /\ running # "up" => Openings = {}

TypeInv == TypeOK /\ Bounded /\ Process

(***************************************************************************)
(* Episodes and their events.                                               *)
(***************************************************************************)

\* An episode before its first write, or later.
Drafts ==
    [id : Ids, rev : Nat, last : 1 .. MaxTime, emitted : 0 .. MaxTime, writes : SUBSET Writes,
     codes : SUBSET {6, 16}, count : Nat, seen : [Registers -> 0 .. MaxTime],
     shutdown : BOOLEAN, dirty : BOOLEAN]

LEMMA EpisodeType ==
    ASSUME TypeOK, NEW id \in Ids
    PROVE  /\ Episode(id) \in Drafts
           /\ Episode(id).id = id /\ Episode(id).rev = 0 /\ Episode(id).count = 0
           /\ Episode(id).emitted = Never /\ Episode(id).shutdown = FALSE
  BY EndpointAssumption DEF TypeOK, Episode, Drafts, Never

LEMMA SeenType ==
    ASSUME TypeOK, NEW e \in Drafts, NEW w \in Writes
    PROVE  Seen(e, w) \in [Registers -> 0 .. MaxTime]
  BY EndpointAssumption DEF TypeOK, Seen, Drafts

LEMMA UpdateFields ==
    ASSUME TypeOK, NEW e \in Drafts, NEW w \in Writes
    PROVE  LET u == Update(e, w) IN
           /\ u \in Drafts
           /\ u.id = e.id /\ u.rev = e.rev /\ u.count = e.count + 1 /\ u.last = now
           /\ u.emitted = e.emitted /\ u.shutdown = IsShutdown(e, w) /\ u.dirty = TRUE
<1> DEFINE a == e.codes \cup {FunctionCode(w)}
           b == IF Cardinality(e.writes) < MaxBuckets THEN e.writes \cup {w} ELSE e.writes
           c == IF Correlates(w) THEN Seen(e, w) ELSE e.seen
           d == IsShutdown(e, w)
<1>1. a \in SUBSET {6, 16} /\ b \in SUBSET Writes /\ c \in [Registers -> 0 .. MaxTime]
  BY SeenType DEF FunctionCode, Drafts
<1>2. d \in BOOLEAN
  BY DEF IsShutdown, Within, Drafts
<1>3. now \in 1 .. MaxTime /\ e.count \in Nat
  BY DEF TypeOK, Drafts
<1>4. Update(e, w) = [e EXCEPT !.last = now, !.count = e.count + 1, !.dirty = TRUE, !.codes = a,
                               !.writes = b, !.seen = c, !.shutdown = d]
  BY DEF Update
<1> HIDE DEF a, b, c, d
<1> DEFINE u == [id |-> e.id, rev |-> e.rev, last |-> now, emitted |-> e.emitted, writes |-> b,
                 codes |-> a, count |-> e.count + 1, seen |-> c, shutdown |-> d, dirty |-> TRUE]
<1>5. Update(e, w) = u
  BY <1>4 DEF Drafts
<1>6. u \in Drafts
  BY <1>1, <1>2, <1>3 DEF Drafts
<1>7. IsShutdown(e, w) = d
  BY DEF d
<1> QED BY <1>5, <1>6, <1>7

LEMMA RenderFields ==
    ASSUME NEW e \in Drafts
    PROVE  LET r == Rendered(e) IN
           /\ r \in Drafts
           /\ r.id = e.id /\ r.rev = e.rev + 1 /\ r.count = e.count /\ r.dirty = FALSE
           /\ r.shutdown = e.shutdown /\ r.emitted = e.last /\ r.last = e.last
<1> DEFINE r == [id |-> e.id, rev |-> e.rev + 1, last |-> e.last, emitted |-> e.last,
                 writes |-> e.writes, codes |-> e.codes, count |-> e.count, seen |-> e.seen,
                 shutdown |-> e.shutdown, dirty |-> FALSE]
<1>1. Rendered(e) = r
  <2>1. Rendered(e) = [e EXCEPT !.rev = e.rev + 1, !.emitted = e.last, !.dirty = FALSE]
    BY DEF Rendered
  <2> QED BY <2>1 DEF Drafts
<1>2. r \in Drafts
  BY DEF Drafts
<1> QED BY <1>1, <1>2

\* What is rendered is a revision of the episode, and no garbled line.
LEMMA EventType ==
    ASSUME NEW e \in Drafts, e.count \in 1 .. MaxWrites
    PROVE  /\ Event(e) \in Events \ {Garbled}
           /\ Event(e).id = e.id /\ Event(e).rev = e.rev + 1
           /\ Event(e).count = e.count /\ Event(e).shutdown = e.shutdown
  BY DEF Event, Events, Drafts, Garbled, Ids

LEMMA OpenTypes ==
    ASSUME TypeOK, NEW p \in Openings
    PROVE  p \in Peers /\ open[p] \in Drafts /\ open[p] \in Episodes
           /\ open[p].count \in 1 .. MaxWrites
  BY DEF TypeOK, Openings, IsOpen, Episodes, Drafts

(***************************************************************************)
(* What a callback appends.                                                 *)
(***************************************************************************)

OneEach == \A p, q \in Openings : open[p].id = open[q].id => p = q

\* The events are the last revisions of the episodes of P that have something to say.
LEMMA FinalsGive ==
    ASSUME TypeOK, IsFiniteSet(Openings), NEW P, NEW finals \in Finals(P)
    PROVE  /\ finals \in Seq(Events \ {Garbled})
           /\ \A m \in 1 .. Len(finals) :
                 \E q \in P \cap Openings : open[q].dirty /\ finals[m] = Event(open[q])
           /\ \A q \in P \cap Openings :
                 open[q].dirty => \E m \in 1 .. Len(finals) : finals[m] = Event(open[q])
           /\ OneEach => \A m, l \in 1 .. Len(finals) : finals[m].id = finals[l].id => m = l
<1> DEFINE S == {p \in P \cap Openings : open[p].dirty}
           n == Cardinality(S)
<1>1. IsFiniteSet(S) /\ n \in Nat
  <2>1. S \in SUBSET Openings
    OBVIOUS
  <2> HIDE DEF S
  <2> QED BY <2>1, FS_Subset, FS_CardinalityType
<1>2. PICK order \in SetToSeqs(S) : finals = [i \in DOMAIN order |-> Event(open[order[i]])]
  BY DEF Finals
<1>3. order \in [1 .. n -> S] /\ \A i, j \in 1 .. n : i # j => order[i] # order[j]
  BY <1>2 DEF SetToSeqs
<1>4. \A q \in S : \E i \in 1 .. n : order[i] = q
  <2> DEFINE D == 1 .. n
             R == Range(order)
  <2>1. order \in Surjection(D, R) /\ R \subseteq S
    BY <1>3, Fun_RangeProperties
  <2>2. IsFiniteSet(D) /\ Cardinality(D) = n
    BY <1>1, FS_Interval
  <2>3. order \in Injection(D, R)
    BY <1>3, <2>1 DEF Injection, Surjection, IsInjective
  <2> HIDE DEF D, n, S
  <2>4. Cardinality(R) = n
    <3> HIDE DEF R
    <3> QED BY <2>1, <2>2, <2>3, FS_Surjection
  <2>5. R = S
    <3>1. R \in SUBSET S
      BY <2>1
    <3> HIDE DEF R
    <3> QED BY <1>1, <2>4, <3>1, FS_Subset DEF n
  <2> QED BY <1>3, <2>5 DEF Range, D
<1>5. \A q \in S : Event(open[q]) \in Events \ {Garbled} /\ Event(open[q]).id = open[q].id
  BY OpenTypes, EventType
<1>6. finals \in [1 .. n -> Events \ {Garbled}] /\ Len(finals) = n
      /\ \A i \in 1 .. n : order[i] \in S /\ finals[i] = Event(open[order[i]])
  BY <1>1, <1>2, <1>3, <1>5
<1>7. finals \in Seq(Events \ {Garbled})
  BY <1>1, <1>6, IsASeq
<1> HIDE DEF n
<1> QED BY <1>3, <1>4, <1>5, <1>6, <1>7 DEF OneEach

\* The first k of the events reach the spool, and the episodes of the others lose a revision.
Wrote(events, k) ==
    /\ k \in 0 .. Len(events)
    /\ spool' = spool \o Lines(events, k)
    /\ missed' = missed \cup Lost(events, k)
    /\ Len(spool) + k <= Capacity
    /\ torn' \in BOOLEAN /\ faults' \in faults .. MaxFaults

LEMMA Room ==
    ASSUME TypeInv
    PROVE  /\ spool \in Seq(Events) /\ Len(spool) \in Nat /\ Len(spool) <= Capacity
           /\ faults \in 0 .. MaxFaults /\ MaxFaults \in Nat /\ Capacity \in Nat
  BY EndpointAssumption DEF TypeInv, TypeOK, Bounded

LEMMA WroteNothing ==
    ASSUME TypeInv, UNCHANGED <<spool, torn, faults, missed>>
    PROVE  Wrote(<< >>, 0)
<1>1. Lines(<< >>, 0) = << >> /\ Lost(<< >>, 0) = {}
  BY DEF Lines, Lost
<1>2. spool \o << >> = spool
  BY ConcatEmptySeq DEF TypeInv, Bounded
<1>3. torn' \in BOOLEAN
  BY DEF TypeInv, TypeOK
<1>4. faults' \in faults .. MaxFaults /\ Len(spool) + 0 <= Capacity
  BY Room
<1>5. 0 \in 0 .. Len(<< >>)
  BY EmptySeq
<1>6. spool' = spool \o Lines(<< >>, 0) /\ missed' = missed \cup Lost(<< >>, 0)
  BY <1>1, <1>2
<1> QED BY <1>3, <1>4, <1>5, <1>6, Zenon DEF Wrote

LEMMA WroteAll ==
    ASSUME TypeInv, NEW events \in Seq(Events), Appended(events)
    PROVE  Wrote(events, Len(events))
<1>1. Len(events) \in Nat /\ Len(spool) + Len(events) <= Capacity
  <2>1. events # << >> /\ ~(Len(spool) + (Len(events) - 1) >= Capacity)
    BY DEF Appended, Full
  <2>2. Len(events) \in Nat /\ Len(events) # 0
    BY <2>1, EmptySeq
  <2> QED BY <2>1, <2>2, Room
<1>2. faults' \in faults .. MaxFaults
  BY Room DEF Appended
<1>3. Len(events) \in 0 .. Len(events)
  BY <1>1
<1> QED BY <1>1, <1>2, <1>3, Zenon DEF Wrote, Appended

LEMMA WroteSome ==
    ASSUME TypeInv, NEW events \in Seq(Events), NEW k \in 0 .. Len(events), AppendFails(events, k)
    PROVE  Wrote(events, k)
<1>1. Len(spool) + k <= Capacity
  BY EndpointAssumption DEF AppendFails, Full, TypeInv, TypeOK, Bounded
<1>2. torn' \in BOOLEAN
  BY DEF AppendFails, TypeInv, TypeOK
<1>3. faults' \in faults .. MaxFaults
  <2>1. faults' = faults \/ (faults < MaxFaults /\ faults' = faults + 1)
    BY DEF AppendFails
  <2> QED BY <2>1, Room
<1> QED BY <1>1, <1>2, <1>3 DEF AppendFails, Wrote

LEMMA EmitWrites ==
    ASSUME TypeInv, NEW events \in Seq(Events), Emit(events)
    PROVE  \E k \in Nat : Wrote(events, k)
<1>1. CASE events = << >> /\ UNCHANGED <<spool, torn, failure, health, failedAt, faults, missed>>
  BY <1>1, WroteNothing
<1>2. CASE Appended(events)
  BY <1>2, WroteAll
<1>3. CASE \E k \in 0 .. Len(events) : AppendFails(events, k) /\ Report
  BY <1>3, WroteSome
<1> QED BY <1>1, <1>2, <1>3 DEF Emit

LEMMA FlushWrites ==
    ASSUME TypeInv, NEW events \in Seq(Events), Flush(events)
    PROVE  \E k \in Nat : Wrote(events, k)
<1>1. CASE events = << >> /\ Touch
           /\ UNCHANGED <<spool, torn, failure, failedAt, faults, missed, looping>>
  BY <1>1, WroteNothing
<1>2. CASE Appended(events)
  BY <1>2, WroteAll
<1>3. CASE \E k \in 0 .. Len(events) : AppendFails(events, k)
  BY <1>3, WroteSome
<1> QED BY <1>1, <1>2, <1>3 DEF Flush

(***************************************************************************)
(* The spool, episode by episode.                                           *)
(***************************************************************************)

\* The spool grows by k lines, the first of which is garbled if it joins a torn one.
LEMMA Growth ==
    ASSUME TypeInv, NEW events \in Seq(Events), NEW k \in Nat, Wrote(events, k)
    PROVE  /\ spool' \in Seq(Events) /\ Len(spool') = Len(spool) + k
           /\ \A i \in 1 .. Len(spool) : spool'[i] = spool[i]
           /\ \A m \in 1 .. k : /\ m \in 1 .. Len(events)
                                /\ spool'[Len(spool) + m] = IF m = 1 /\ torn THEN Garbled
                                                            ELSE events[m]
<1> DEFINE L == Lines(events, k)
<1>1. k <= Len(events) /\ Len(events) \in Nat
  BY DEF Wrote
<1>2. \A m \in 1 .. k : m \in 1 .. Len(events) /\ events[m] \in Events
  BY <1>1
<1>3. Garbled \in Events
  BY DEF Events
<1>4. L \in [1 .. k -> Events]
  BY <1>2, <1>3 DEF Lines
<1>5. L \in Seq(Events) /\ Len(L) = k
  BY <1>4, IsASeq
<1>6. \A m \in 1 .. k : L[m] = IF m = 1 /\ torn THEN Garbled ELSE events[m]
  BY DEF Lines
<1>7. spool \in Seq(Events) /\ spool' = spool \o L
  BY DEF Wrote, TypeInv, Bounded
<1> HIDE DEF L
<1>8. /\ spool' \in Seq(Events) /\ Len(spool') = Len(spool) + k
      /\ \A i \in 1 .. Len(spool) + k :
            spool'[i] = IF i <= Len(spool) THEN spool[i] ELSE L[i - Len(spool)]
  BY <1>5, <1>7, ConcatProperties
<1>9. \A m \in 1 .. k : spool'[Len(spool) + m] = L[m]
  <2> TAKE m \in 1 .. k
  <2> DEFINE i == Len(spool) + m
  <2>1. i \in 1 .. Len(spool) + k /\ ~(i <= Len(spool)) /\ i - Len(spool) = m
    BY <1>7
  <2> HIDE DEF i
  <2>2. spool'[i] = L[m]
    BY <1>8, <2>1
  <2> QED BY <2>2 DEF i
<1>10. \A i \in 1 .. Len(spool) : spool'[i] = spool[i]
  BY <1>7, <1>8
<1> QED BY <1>2, <1>6, <1>8, <1>9, <1>10

LEMMA Revisions ==
    ASSUME TypeInv, NEW id
    PROVE  RevisionsOf(id) = {i \in 1 .. Len(spool) : spool[i].id = id}
  BY DEF RevisionsOf, TypeInv, Bounded

\* An episode of which nothing is appended.
LEMMA Silent ==
    ASSUME TypeInv, NEW events \in Seq(Events), NEW k \in Nat, Wrote(events, k), NEW id \in Ids,
           \A m \in 1 .. Len(events) : events[m].id # id
    PROVE  /\ RevisionsOf(id)' = RevisionsOf(id)
           /\ \A i \in RevisionsOf(id) : spool'[i] = spool[i]
           /\ id \in missed' <=> id \in missed
<1>1. Garbled.id # id
  BY DEF Garbled, Ids
<1>2. Len(spool) \in Nat /\ spool' \in Seq(Events)
  BY Growth DEF TypeInv, Bounded
<1>3. RevisionsOf(id)' = {i \in 1 .. Len(spool') : spool'[i].id = id}
  BY <1>2 DEF RevisionsOf
<1>4. \A i \in 1 .. Len(spool') : i \in 1 .. Len(spool) \/ \E m \in 1 .. k : i = Len(spool) + m
  <2>1. Len(spool') = Len(spool) + k
    BY Growth
  <2> SUFFICES ASSUME NEW i \in 1 .. Len(spool'), i \notin 1 .. Len(spool)
               PROVE  \E m \in 1 .. k : i = Len(spool) + m
    OBVIOUS
  <2>2. i - Len(spool) \in 1 .. k /\ i = Len(spool) + (i - Len(spool))
    BY <1>2, <2>1
  <2> QED BY <2>2
<1>5. \A m \in 1 .. k : spool'[Len(spool) + m].id # id
  <2> TAKE m \in 1 .. k
  <2>1. /\ m \in 1 .. Len(events)
        /\ spool'[Len(spool) + m] = IF m = 1 /\ torn THEN Garbled ELSE events[m]
    BY Growth
  <2>2. spool'[Len(spool) + m] \in {Garbled, events[m]}
    BY <2>1
  <2> QED BY <1>1, <2>1, <2>2
<1>6. RevisionsOf(id)' = RevisionsOf(id)
  <2>1. Len(spool') = Len(spool) + k
    BY Growth
  <2>2. 1 .. Len(spool) \subseteq 1 .. Len(spool')
    BY <1>2, <2>1
  <2>3. \A i \in 1 .. Len(spool) : spool'[i] = spool[i]
    BY Growth
  <2>4. RevisionsOf(id) = {i \in 1 .. Len(spool) : spool[i].id = id}
    BY Revisions
  <2> QED BY <1>3, <1>4, <1>5, <2>2, <2>3, <2>4
<1>7. id \notin Lost(events, k)
  BY DEF Lost
<1> QED BY <1>6, <1>7, Growth, Revisions DEF Wrote

InOrder(id) == \A i, j \in RevisionsOf(id) : i < j => spool[i].rev < spool[j].rev

Upto(id, n) == \A i \in RevisionsOf(id) : spool[i].rev <= n

\* The last revision of an episode on the spool.
Says(id, i) == i \in RevisionsOf(id) /\ \A j \in RevisionsOf(id) : j <= i

\* Where the lines of an episode are after an append.
LEMMA NewLines ==
    ASSUME TypeInv, NEW events \in Seq(Events), NEW k \in Nat, Wrote(events, k), NEW id \in Ids
    PROVE  /\ RevisionsOf(id) \subseteq RevisionsOf(id)'
           /\ \A i \in RevisionsOf(id) : i <= Len(spool) /\ spool'[i] = spool[i]
           /\ \A i \in RevisionsOf(id)' \ RevisionsOf(id) :
                 \E m \in 1 .. k : /\ i = Len(spool) + m /\ spool'[i] = events[m]
                                   /\ m \in 1 .. Len(events) /\ ~(m = 1 /\ torn)
                                   /\ events[m].id = id
           /\ \A m \in 1 .. k : /\ m \in 1 .. Len(events)
                                /\ ~(m = 1 /\ torn) /\ events[m].id = id
                                   => /\ Len(spool) + m \in RevisionsOf(id)'
                                      /\ spool'[Len(spool) + m] = events[m]
<1>1. Garbled.id # id
  BY DEF Garbled, Ids
<1>2. Len(spool) \in Nat /\ spool' \in Seq(Events) /\ Len(spool') = Len(spool) + k
  BY Growth, Room
<1>3. RevisionsOf(id)' = {i \in 1 .. Len(spool') : spool'[i].id = id}
  BY <1>2 DEF RevisionsOf
<1>4. RevisionsOf(id) = {i \in 1 .. Len(spool) : spool[i].id = id}
  BY Revisions
<1>5. \A i \in 1 .. Len(spool) : i \in 1 .. Len(spool') /\ spool'[i] = spool[i]
  BY <1>2, Growth
<1>6. \A m \in 1 .. k : /\ m \in 1 .. Len(events)
                        /\ Len(spool) + m \in 1 .. Len(spool')
                        /\ m = 1 /\ torn => spool'[Len(spool) + m] = Garbled
                        /\ ~(m = 1 /\ torn) => spool'[Len(spool) + m] = events[m]
  <2> TAKE m \in 1 .. k
  <2>1. /\ m \in 1 .. Len(events)
        /\ spool'[Len(spool) + m] = IF m = 1 /\ torn THEN Garbled ELSE events[m]
    BY Growth
  <2>2. Len(spool) + m \in 1 .. Len(spool')
    BY <1>2
  <2> QED BY <2>1, <2>2, Zenon
<1>7. ASSUME NEW i \in RevisionsOf(id)' \ RevisionsOf(id)
      PROVE  \E m \in 1 .. k : /\ i = Len(spool) + m /\ spool'[i] = events[m]
                               /\ m \in 1 .. Len(events) /\ ~(m = 1 /\ torn)
                               /\ events[m].id = id
  <2> DEFINE m == i - Len(spool)
  <2>1. i \in 1 .. Len(spool') /\ spool'[i].id = id /\ i \notin 1 .. Len(spool)
    BY <1>3, <1>4, <1>5, <1>7
  <2>2. m \in 1 .. k /\ i = Len(spool) + m
    BY <1>2, <2>1
  <2> HIDE DEF m
  <2> QED BY <1>1, <1>6, <2>1, <2>2
<1>8. \A i \in RevisionsOf(id) : i <= Len(spool) /\ i \in RevisionsOf(id)' /\ spool'[i] = spool[i]
  BY <1>2, <1>3, <1>4, <1>5
<1> QED BY <1>3, <1>6, <1>7, <1>8

\* An episode of which one revision is appended, or lost: its line is the last, and the latest.
LEMMA Told ==
    ASSUME TypeInv, NEW events \in Seq(Events), NEW k \in Nat, Wrote(events, k), NEW id \in Ids,
           NEW m \in 1 .. Len(events), events[m].id = id,
           \A l \in 1 .. Len(events) : events[l].id = id => l = m,
           InOrder(id), NEW n \in Nat, Upto(id, n), events[m].rev = n + 1
    PROVE  /\ InOrder(id)' /\ Upto(id, n + 1)'
           /\ missed \subseteq missed'
           /\ id \in missed' \/ \E i \in RevisionsOf(id)' : Says(id, i)' /\ spool'[i] = events[m]
<1>1. missed' = missed \cup Lost(events, k) /\ Len(spool) \in Nat
  BY Room DEF Wrote
<1>2. \A i \in RevisionsOf(id) : i \in Nat /\ spool[i].rev \in Nat /\ spool[i].rev <= n
  <2>1. \A i \in 1 .. Len(spool) : spool[i].rev \in Nat
    BY Room DEF Events, Garbled
  <2> QED BY <2>1, Revisions DEF Upto
<1>3. /\ RevisionsOf(id) \subseteq RevisionsOf(id)'
      /\ \A i \in RevisionsOf(id) : i <= Len(spool) /\ spool'[i] = spool[i]
      /\ \A i \in RevisionsOf(id)' \ RevisionsOf(id) : i = Len(spool) + m /\ spool'[i] = events[m]
  <2>1. ASSUME NEW i \in RevisionsOf(id)' \ RevisionsOf(id)
        PROVE  i = Len(spool) + m /\ spool'[i] = events[m]
    <3>1. PICK l \in 1 .. k : /\ i = Len(spool) + l /\ spool'[i] = events[l]
                              /\ l \in 1 .. Len(events) /\ events[l].id = id
      BY NewLines
    <3> QED BY <3>1
  <2>2. /\ RevisionsOf(id) \subseteq RevisionsOf(id)'
        /\ \A i \in RevisionsOf(id) : i <= Len(spool) /\ spool'[i] = spool[i]
    BY NewLines
  <2> QED BY <2>1, <2>2
<1>4. InOrder(id)'
  <2> SUFFICES ASSUME NEW i \in RevisionsOf(id)', NEW j \in RevisionsOf(id)', i < j
               PROVE  spool'[i].rev < spool'[j].rev
    BY DEF InOrder
  <2>1. CASE i \in RevisionsOf(id) /\ j \in RevisionsOf(id)
    BY <1>3, <2>1 DEF InOrder
  <2>2. CASE i \in RevisionsOf(id) /\ j \notin RevisionsOf(id)
    BY <1>2, <1>3, <2>2
  <2>3. CASE i \notin RevisionsOf(id)
    <3>1. i = Len(spool) + m
      BY <1>3, <2>3
    <3>2. j <= Len(spool) \/ j = Len(spool) + m
      BY <1>3
    <3>3. j \in Nat
      BY <1>1, <1>2, <1>3
    <3> QED BY <1>1, <3>1, <3>2, <3>3
  <2> QED BY <2>1, <2>2, <2>3
<1>5. Upto(id, n + 1)'
  <2> SUFFICES ASSUME NEW i \in RevisionsOf(id)' PROVE spool'[i].rev <= n + 1
    BY DEF Upto
  <2>1. CASE i \in RevisionsOf(id)
    BY <1>2, <1>3, <2>1
  <2>2. CASE i \notin RevisionsOf(id)
    BY <1>3, <2>2
  <2> QED BY <2>1, <2>2
<1>6. ASSUME id \notin missed'
      PROVE  \E i \in RevisionsOf(id)' : Says(id, i)' /\ spool'[i] = events[m]
  <2>1. m <= k /\ ~(m = 1 /\ torn)
    <3>1. m \in DOMAIN events
      OBVIOUS
    <3>2. m \notin {j \in DOMAIN events : j > k \/ (torn /\ j = 1)}
      BY <1>1, <1>6 DEF Lost
    <3>3. ~(m > k) /\ ~(torn /\ m = 1)
      BY <3>1, <3>2, Zenon
    <3> QED BY <3>3
  <2>2. Len(spool) + m \in RevisionsOf(id)' /\ spool'[Len(spool) + m] = events[m]
    BY <2>1, NewLines
  <2>3. \A j \in RevisionsOf(id)' : j <= Len(spool) + m
    BY <1>1, <1>2, <1>3
  <2> QED BY <2>2, <2>3 DEF Says
<1> QED BY <1>1, <1>4, <1>5, <1>6

(***************************************************************************)
(* Type correctness, and what the health shows.                             *)
(***************************************************************************)

\* A failure that the agent knows of is in its health file; one it does not know of ended the
\* loop, and the file is no younger than the failure.
Shows ==
    /\ failedAt <= now /\ health.at <= now
    /\ failure => health.status = "error"
    /\ running = "up" /\ failedAt # Never => failure \/ (~looping /\ health.at <= failedAt)

Healths == [status : {"ready", "error"}, at : 1 .. MaxTime]

\* What an append leaves of the agent's own state.
StatusOK ==
    /\ failure' \in BOOLEAN /\ looping' \in BOOLEAN
    /\ health' \in Healths /\ failedAt' \in 0 .. MaxTime

LEMMA WroteTypes ==
    ASSUME TypeInv, NEW events \in Seq(Events \ {Garbled}), NEW k \in Nat, Wrote(events, k)
    PROVE  /\ spool' \in Seq(Events) /\ Len(spool') <= Capacity
           /\ \A i \in DOMAIN spool' : spool'[i] \in Events
           /\ torn' \in BOOLEAN /\ faults' \in 0 .. MaxFaults /\ faults' >= faults
           /\ missed' \subseteq Ids /\ missed \subseteq missed'
<1>1. events \in Seq(Events)
  OBVIOUS
<1>2. spool' \in Seq(Events) /\ Len(spool') = Len(spool) + k
  BY <1>1, Growth
<1>3. Len(spool) + k <= Capacity /\ torn' \in BOOLEAN /\ faults' \in faults .. MaxFaults
  BY DEF Wrote
<1>4. Lost(events, k) \subseteq Ids
  <2>1. \A i \in DOMAIN events : events[i].id \in Ids
    BY DEF Events
  <2> QED BY <2>1 DEF Lost
<1>5. missed' = missed \cup Lost(events, k) /\ missed \subseteq Ids
  BY DEF Wrote, TypeInv, TypeOK
<1> QED BY <1>2, <1>3, <1>4, <1>5, Room

\* After an append that succeeds, and after one that fails in the flush loop.
LEMMA ReadyStatus ==
    ASSUME TypeInv, failure' = FALSE, health' = [status |-> "ready", at |-> now],
           failedAt' = Never, UNCHANGED <<now, looping>>
    PROVE  StatusOK /\ Shows'
<1>1. now \in 1 .. MaxTime /\ now' = now /\ looping' \in BOOLEAN /\ MaxTime \in Nat
  BY EndpointAssumption DEF TypeInv, TypeOK
<1>2. health' \in Healths /\ failedAt' \in 0 .. MaxTime /\ failure' \in BOOLEAN
  <2>1. failure' \in BOOLEAN
    OBVIOUS
  <2>2. health' \in Healths
    BY <1>1 DEF Healths
  <2>3. failedAt' \in 0 .. MaxTime
    BY <1>1 DEF Never
  <2> QED BY <2>1, <2>2, <2>3
<1>3. failedAt' <= now' /\ health'.at <= now'
  BY <1>1 DEF Never
<1>4. ~failure' /\ ~(failedAt' # Never)
  OBVIOUS
<1> QED BY <1>1, <1>2, <1>3, <1>4, Zenon DEF StatusOK, Shows

LEMMA SilentStatus ==
    ASSUME TypeInv, Shows, failedAt' = now, looping' = FALSE, UNCHANGED <<now, failure, health>>
    PROVE  StatusOK /\ Shows'
<1>1. now \in 1 .. MaxTime /\ now' = now /\ failure' \in BOOLEAN /\ health' \in Healths
  BY DEF TypeInv, TypeOK, Healths
<1>2. failedAt' \in 0 .. MaxTime /\ looping' \in BOOLEAN
  <2>1. looping' \in BOOLEAN
    OBVIOUS
  <2>2. failedAt' \in 0 .. MaxTime
    BY <1>1, EndpointAssumption
  <2> QED BY <2>1, <2>2
<1>3. failedAt' <= now' /\ health'.at <= now' /\ health'.at <= failedAt'
  BY <1>1 DEF Shows
<1>4. failure' => health'.status = "error"
  BY Zenon DEF Shows
<1>5. ~looping'
  OBVIOUS
<1> QED BY <1>1, <1>2, <1>3, <1>4, <1>5, Zenon DEF StatusOK, Shows

LEMMA EmitStatus ==
    ASSUME TypeInv, Shows, NEW events, Emit(events), UNCHANGED <<now, running, looping>>
    PROVE  StatusOK /\ Shows'
<1>1. now \in 1 .. MaxTime /\ failure \in BOOLEAN /\ looping \in BOOLEAN
      /\ health \in Healths /\ failedAt \in 0 .. MaxTime
  BY DEF TypeInv, TypeOK, Healths
<1>2. CASE UNCHANGED <<failure, health, failedAt>>
  BY <1>1, <1>2 DEF Shows, StatusOK
<1>3. CASE failure' = FALSE /\ health' = [status |-> "ready", at |-> now] /\ failedAt' = Never
  BY <1>3, ReadyStatus
<1>4. CASE failedAt' = now /\ Report
  BY <1>1, <1>4 DEF Shows, StatusOK, Report, Healths
<1> QED BY <1>2, <1>3, <1>4 DEF Emit, Appended, AppendFails

LEMMA FlushStatus ==
    ASSUME TypeInv, Shows, looping, NEW events, Flush(events), UNCHANGED <<now, running>>
    PROVE  StatusOK /\ Shows'
<1>1. now \in 1 .. MaxTime /\ failure \in BOOLEAN /\ looping \in BOOLEAN
      /\ health \in Healths /\ failedAt \in 0 .. MaxTime
  BY DEF TypeInv, TypeOK, Healths
<1>2. CASE events = << >> /\ Touch /\ UNCHANGED <<failure, failedAt, looping>>
  <2>1. CASE failure
    BY <1>1, <1>2, <2>1 DEF Shows, StatusOK, Touch
  <2>2. CASE ~failure
    BY <1>1, <1>2, <2>2 DEF Shows, StatusOK, Touch, Healths
  <2> QED BY <1>1, <2>1, <2>2
<1>3. CASE failure' = FALSE /\ health' = [status |-> "ready", at |-> now] /\ failedAt' = Never
           /\ UNCHANGED looping
  BY <1>3, ReadyStatus
<1>4. CASE failedAt' = now /\ looping' = FALSE /\ UNCHANGED <<failure, health>>
  BY <1>4, SilentStatus
<1> QED BY <1>2, <1>3, <1>4 DEF Flush, Appended, AppendFails

LEMMA StillBelow ==
    ASSUME NEW a \in Nat, NEW b \in Nat, NEW c \in Nat, NEW d \in Nat, a <= b + c, c <= d
    PROVE  a <= b + d
  OBVIOUS

LEMMA Closes ==
    ASSUME TypeInv, NEW P, Close(P)
    PROVE  /\ Openings' = Openings \ P /\ IsFiniteSet(Openings')
           /\ \A p \in Peers : open'[p] \in Episodes \cup {Closed}
           /\ \A p \in Openings' : open'[p] = open[p]
           /\ \A p \in Peers \ P : open'[p] = open[p]
           /\ \A p \in Peers \cap P : open'[p] = Closed
<1>1. \A p \in Peers : open'[p] = IF p \in P THEN Closed ELSE open[p]
  BY DEF Close
<1>2. Openings' = Openings \ P
  BY <1>1 DEF Openings, IsOpen
<1>3. IsFiniteSet(Openings')
  <2>1. Openings' \in SUBSET Openings /\ IsFiniteSet(Openings)
    BY <1>2 DEF TypeInv, Bounded
  <2> QED BY <2>1, FS_Subset
<1>4. Openings \subseteq Peers
  BY DEF Openings
<1> QED BY <1>1, <1>2, <1>3, <1>4 DEF TypeInv, TypeOK

\* A callback that closes episodes and appends what they have left to say.
LEMMA ClosingTypes ==
    ASSUME TypeInv, NEW P, Close(P), NEW events \in Seq(Events \ {Garbled}), NEW k \in Nat,
           Wrote(events, k), StatusOK, running' \in {running, "down"},
           running' = running \/ Openings \subseteq P,
           UNCHANGED <<now, boot, sender, next, state, writes, observed, clobbered>>
    PROVE  TypeInv'
<1>1. TypeOK'
  <2>1. /\ now' \in 1 .. MaxTime /\ boot' \in 1 .. MaxBoots
        /\ running' \in {"up", "down", "refused"} /\ sender' \in {"off", "stale", "on"}
        /\ next' \in Numbers /\ state' \in [boot : 1 .. MaxBoots, next : Numbers]
        /\ writes' \in 0 .. MaxWrites /\ observed' \in [Ids -> 0 .. MaxWrites]
        /\ clobbered' \in BOOLEAN
    BY DEF TypeInv, TypeOK
  <2> QED BY <2>1, WroteTypes, Closes, Zenon DEF TypeOK, StatusOK, Healths
<1>2. Bounded'
  <2>1. \A p \in Openings' : open'[p].count <= writes'
    <3>1. \A p \in Openings' : p \in Openings /\ open'[p] = open[p]
      BY Closes
    <3> QED BY <3>1 DEF TypeInv, Bounded
  <2>2. next' <= writes' + faults' /\ state'.next <= writes' + faults'
    <3>1. faults' \in Nat /\ faults \in Nat /\ faults <= faults'
      <4>1. faults' \in 0 .. MaxFaults /\ faults' >= faults
        BY WroteTypes
      <4> QED BY <4>1, Room
    <3>2. next \in Nat /\ state.next \in Nat /\ writes \in Nat
      BY EndpointAssumption DEF TypeInv, TypeOK, Numbers
    <3>3. next <= writes + faults /\ state.next <= writes + faults
      BY DEF TypeInv, Bounded
    <3>4. next' = next /\ state' = state /\ writes' = writes
      OBVIOUS
    <3>5. next <= writes + faults' /\ state.next <= writes + faults'
      BY <3>1, <3>2, <3>3, StillBelow
    <3> QED BY <3>4, <3>5
  <2>3. \A id \in Ids : observed'[id] <= writes'
    BY DEF TypeInv, Bounded
  <2>4. spool' \in Seq(Events) /\ IsFiniteSet(Openings')
    BY WroteTypes, Closes
  <2> QED BY <2>1, <2>2, <2>3, <2>4 DEF Bounded
<1>3. Process'
  <2>1. running' = "up" => running = "up"
    OBVIOUS
  <2>2. running' # "up" => Openings' = {}
    <3>1. CASE running' = running
      BY <3>1, Closes DEF TypeInv, Process
    <3>2. CASE Openings \subseteq P
      BY <3>2, Closes
    <3> QED BY <3>1, <3>2
  <2> QED BY <2>1, <2>2 DEF TypeInv, Process
<1> QED BY <1>1, <1>2, <1>3 DEF TypeInv

LEMMA FinalsSeq ==
    ASSUME TypeInv, NEW P, NEW finals \in Finals(P)
    PROVE  finals \in Seq(Events \ {Garbled}) /\ finals \in Seq(Events)
  BY FinalsGive DEF TypeInv, Bounded

\* A step that closes the episodes of P: a disconnection, a turn of the loop, a stop.
Closing(P, finals, k) ==
    /\ finals \in Finals(P) /\ k \in Nat /\ Wrote(finals, k)
    /\ Close(P)
    /\ running' \in {running, "down"} /\ (running' = running \/ Openings \subseteq P)
    /\ UNCHANGED <<now, boot, sender, next, state, writes, observed, clobbered>>

LEMMA DisconnectCloses ==
    ASSUME TypeInv, Shows, NEW p \in Peers, Disconnect(p)
    PROVE  /\ \E finals, k : Closing({p}, finals, k)
           /\ StatusOK /\ Shows'
<1>1. PICK finals \in Finals({p}) : Emit(finals)
  BY DEF Disconnect
<1>2. UNCHANGED <<now, boot, running, sender, next, state, looping, writes, observed, clobbered>>
      /\ Close({p})
  BY DEF Disconnect
<1>3. PICK k \in Nat : Wrote(finals, k)
  BY <1>1, FinalsSeq, EmitWrites
<1>4. StatusOK /\ Shows'
  BY <1>1, <1>2, EmitStatus
<1> QED BY <1>1, <1>2, <1>3, <1>4 DEF Closing

LEMMA FlushCloses ==
    ASSUME TypeInv, Shows, FlushExpired
    PROVE  /\ \E finals, k : Closing(Expired, finals, k)
           /\ StatusOK /\ Shows'
<1>1. PICK finals \in Finals(Expired) : Flush(finals)
  BY DEF FlushExpired
<1>2. UNCHANGED <<now, boot, running, sender, next, state, writes, observed, clobbered>>
      /\ Close(Expired) /\ looping
  BY DEF FlushExpired, Turn
<1>3. PICK k \in Nat : Wrote(finals, k)
  BY <1>1, FinalsSeq, FlushWrites
<1>4. StatusOK /\ Shows'
  BY <1>1, <1>2, FlushStatus
<1> QED BY <1>1, <1>2, <1>3, <1>4 DEF Closing

LEMMA StopCloses ==
    ASSUME TypeInv, Shows, Stop
    PROVE  /\ \E finals, k : Closing(Peers, finals, k)
           /\ StatusOK /\ Shows'
<1>1. PICK finals \in Finals(Peers) :
          \/ finals = << >> /\ UNCHANGED <<spool, torn, failure, health, failedAt, faults, missed>>
          \/ Appended(finals)
          \/ \E k \in 0 .. Len(finals) : AppendFails(finals, k) /\ UNCHANGED <<failure, health>>
  BY DEF Stop
<1>2. /\ running' = "down" /\ Close(Peers)
      /\ UNCHANGED <<now, boot, sender, next, looping, state, writes, observed, clobbered>>
  BY DEF Stop
<1>3. \E k \in Nat : Wrote(finals, k)
  BY <1>1, FinalsSeq, WroteNothing, WroteAll, WroteSome
<1>4. StatusOK /\ Shows'
  <2>1. now \in 1 .. MaxTime /\ failure \in BOOLEAN /\ looping \in BOOLEAN
        /\ health \in Healths /\ failedAt \in 0 .. MaxTime
    BY DEF TypeInv, TypeOK, Healths
  <2>2. CASE UNCHANGED <<failure, health, failedAt>>
    BY <1>2, <2>1, <2>2 DEF Shows, StatusOK
  <2>3. CASE Appended(finals)
    BY <1>2, <2>3, ReadyStatus DEF Appended
  <2>4. CASE failedAt' = now /\ UNCHANGED <<failure, health>>
    <3>1. health.at <= now /\ (failure => health.status = "error")
      BY DEF Shows
    <3>2. failedAt' <= now' /\ health'.at <= now' /\ failedAt' \in 0 .. MaxTime
      BY <1>2, <2>1, <2>4, <3>1
    <3>3. running' # "up"
      BY <1>2
    <3>4. StatusOK
      BY <1>2, <2>1, <2>4, <3>2, Zenon DEF StatusOK
    <3> QED BY <2>4, <3>1, <3>2, <3>3, <3>4, Zenon DEF Shows
  <2> QED BY <1>1, <2>2, <2>3, <2>4 DEF AppendFails
<1>5. Openings \subseteq Peers
  BY DEF Openings
<1> QED BY <1>1, <1>2, <1>3, <1>4, <1>5 DEF Closing

(***************************************************************************)
(* A request.                                                               *)
(***************************************************************************)

Fresh(p) == ~IsOpen(p) \/ p \in Expired

\* The episode of a request before it, the same with its write, and what stays open.
Was(p)     == IF Fresh(p) THEN Episode(<<boot, next>>) ELSE open[p]
With(p, w) == Update(Was(p), w)
Left(p, w) == IF Due(Was(p), w) THEN Rendered(With(p, w)) ELSE With(p, w)

\* What a request appends after the episodes that it finds expired.
Tail1(p, w) == IF Due(Was(p), w) THEN <<Event(With(p, w))>> ELSE << >>

LEMMA Amounts ==
    ASSUME TypeInv
    PROVE  /\ next \in Nat /\ state.next \in Nat /\ writes \in Nat /\ faults \in Nat
           /\ next <= writes + faults /\ state.next <= writes + faults
           /\ writes <= MaxWrites /\ faults <= MaxFaults
           /\ MaxWrites \in Nat /\ MaxFaults \in Nat /\ boot \in 1 .. MaxBoots
           /\ now \in 1 .. MaxTime
  BY EndpointAssumption DEF TypeInv, TypeOK, Bounded, Numbers

LEMMA RequestBefore ==
    ASSUME TypeInv, NEW p \in Peers
    PROVE  /\ Was(p) \in Drafts
           /\ Fresh(p) => /\ Was(p).id = <<boot, next>> /\ Was(p).rev = 0 /\ Was(p).count = 0
                          /\ Was(p).emitted = Never /\ Was(p).shutdown = FALSE
           /\ ~Fresh(p) => p \in Openings \ Expired /\ Was(p) = open[p]
           /\ Was(p).count <= writes
<1>1. <<boot, next>> \in Ids
  BY DEF TypeInv, TypeOK, Ids
<1>2. CASE Fresh(p)
  <2>1. Was(p) = Episode(<<boot, next>>)
    BY <1>2 DEF Was
  <2> DEFINE d == Episode(<<boot, next>>)
  <2>2. /\ d \in Drafts /\ d.id = <<boot, next>> /\ d.rev = 0 /\ d.count = 0
        /\ d.emitted = Never /\ d.shutdown = FALSE
    BY <1>1, EpisodeType DEF TypeInv
  <2> HIDE DEF d
  <2>3. d.count <= writes
    BY <2>2, Amounts
  <2> QED BY <1>2, <2>1, <2>2, <2>3 DEF d
<1>3. CASE ~Fresh(p)
  <2>1. p \in Openings \ Expired /\ Was(p) = open[p]
    BY <1>3 DEF Fresh, Was, Openings
  <2> QED BY <1>3, <2>1, OpenTypes DEF TypeInv, Bounded
<1> QED BY <1>2, <1>3

LEMMA RequestAfter ==
    ASSUME TypeInv, NEW p \in Peers, NEW w \in Writes, writes < MaxWrites
    PROVE  /\ With(p, w).id = Was(p).id /\ With(p, w).rev = Was(p).rev
           /\ With(p, w).count = Was(p).count + 1 /\ With(p, w).dirty = TRUE
           /\ With(p, w).shutdown = IsShutdown(Was(p), w)
           /\ Event(With(p, w)) \in Events \ {Garbled}
           /\ Event(With(p, w)).id = Was(p).id /\ Event(With(p, w)).rev = Was(p).rev + 1
           /\ Event(With(p, w)).count = Was(p).count + 1
           /\ Event(With(p, w)).shutdown = With(p, w).shutdown
           /\ Left(p, w) \in Episodes
           /\ Left(p, w).id = Was(p).id /\ Left(p, w).count = Was(p).count + 1
           /\ Left(p, w).shutdown = With(p, w).shutdown
           /\ IF Due(Was(p), w) THEN Left(p, w).rev = Was(p).rev + 1
              ELSE Left(p, w).rev = Was(p).rev /\ Left(p, w).dirty = TRUE
           /\ Fresh(p) => Due(Was(p), w)
           /\ Was(p).count \in Nat /\ Was(p).rev \in Nat /\ Was(p).id \in Ids
<1> DEFINE e == Was(p)
           u == With(p, w)
<1>1. e \in Drafts /\ e.count <= writes
  BY RequestBefore
<1>2. e.count \in Nat /\ e.rev \in Nat /\ e.id \in Ids
  BY <1>1 DEF Drafts
<1>3. /\ u \in Drafts /\ u.id = e.id /\ u.rev = e.rev /\ u.count = e.count + 1
      /\ u.dirty = TRUE /\ u.shutdown = IsShutdown(e, w)
  BY <1>1, UpdateFields DEF With, TypeInv
<1>4. u.count \in 1 .. MaxWrites
  BY <1>1, <1>2, <1>3, Amounts
<1>5. /\ Rendered(u) \in Drafts /\ Rendered(u).id = u.id /\ Rendered(u).rev = u.rev + 1
      /\ Rendered(u).count = u.count /\ Rendered(u).shutdown = u.shutdown
  BY <1>3, RenderFields
<1>6. \A d \in Drafts : d.count \in 1 .. MaxWrites => d \in Episodes
  BY DEF Drafts, Episodes
<1>7. Fresh(p) => Due(e, w)
  BY RequestBefore DEF Due
<1>8. /\ Event(u) \in Events \ {Garbled}
      /\ Event(u).id = u.id /\ Event(u).rev = u.rev + 1
      /\ Event(u).count = u.count /\ Event(u).shutdown = u.shutdown
  BY <1>3, <1>4, EventType
<1> HIDE DEF e, u
<1>9. Left(p, w) = IF Due(e, w) THEN Rendered(u) ELSE u
  BY DEF Left, e, u
<1>10. CASE Due(e, w)
  BY <1>2, <1>3, <1>4, <1>5, <1>6, <1>8, <1>9, <1>10 DEF e, u
<1>11. CASE ~Due(e, w)
  BY <1>2, <1>3, <1>4, <1>6, <1>7, <1>8, <1>9, <1>11 DEF e, u
<1> QED BY <1>10, <1>11

\* A request, in these terms.
LEMMA RequestDoes ==
    ASSUME TypeInv, NEW p \in Peers, NEW w \in Writes, Request(p, w)
    PROVE  /\ running = "up" /\ writes < MaxWrites /\ writes' = writes + 1
           /\ IF Fresh(p) THEN state' = [boot |-> boot, next |-> next + 1] /\ next' = next + 1
              ELSE UNCHANGED <<state, next>>
           /\ open'[p] = Left(p, w)
           /\ \A q \in Peers \ {p} : open'[q] = IF q \in Expired THEN Closed ELSE open[q]
           /\ observed' = [observed EXCEPT ![Was(p).id] = @ + 1]
           /\ \E finals \in Finals(Expired) : Emit(finals \o Tail1(p, w))
           /\ UNCHANGED <<now, boot, running, sender, looping, clobbered>>
<1>1. Was(p).id = IF Fresh(p) THEN <<boot, next>> ELSE open[p].id
  BY RequestBefore
<1> QED BY <1>1, Zenon DEF Request, Fresh, Was, With, Left, Tail1, Save

LEMMA RequestEvents ==
    ASSUME TypeInv, NEW p \in Peers, NEW w \in Writes, writes < MaxWrites,
           NEW finals \in Finals(Expired)
    PROVE  finals \o Tail1(p, w) \in Seq(Events \ {Garbled})
<1>1. Tail1(p, w) \in Seq(Events \ {Garbled})
  <2> DEFINE x == Event(With(p, w))
  <2>1. x \in Events \ {Garbled}
    BY RequestAfter
  <2> HIDE DEF x
  <2>2. <<x>> \in Seq(Events \ {Garbled}) /\ << >> \in Seq(Events \ {Garbled})
    BY <2>1
  <2> QED BY <2>2 DEF Tail1, x
<1> QED BY <1>1, FinalsSeq, ConcatProperties

LEMMA RequestOpenings ==
    ASSUME TypeInv, NEW p \in Peers, NEW w \in Writes, Request(p, w)
    PROVE  /\ Openings' = (Openings \ Expired) \cup {p} /\ IsFiniteSet(Openings')
           /\ \A q \in Peers : open'[q] \in Episodes \cup {Closed}
           /\ \A q \in Openings' \ {p} : q \in Openings \ Expired /\ open'[q] = open[q]
           /\ \A q \in Expired : q = p \/ open'[q] = Closed
<1>1. Closed \notin Episodes
  BY DEF Closed, Episodes, Ids
<1>2. open'[p] \in Episodes
  <2>1. open'[p] = Left(p, w) /\ writes < MaxWrites
    BY RequestDoes
  <2>2. Left(p, w) \in Episodes
    BY <2>1, RequestAfter
  <2> QED BY <2>1, <2>2
<1>3. \A q \in Peers \ {p} : open'[q] = IF q \in Expired THEN Closed ELSE open[q]
  BY RequestDoes
<1>4. Openings = {q \in Peers : open[q] # Closed} /\ Openings' = {q \in Peers : open'[q] # Closed}
  BY DEF Openings, IsOpen
<1>5. Expired \subseteq Openings /\ Openings \subseteq Peers
  BY <1>4 DEF Expired
<1>6. Openings' = (Openings \ Expired) \cup {p}
  BY <1>1, <1>2, <1>3, <1>4, <1>5
<1>7. IsFiniteSet(Openings')
  <2>1. Openings \ Expired \in SUBSET Openings /\ IsFiniteSet(Openings)
    BY DEF TypeInv, Bounded
  <2>2. IsFiniteSet(Openings \ Expired)
    BY <2>1, FS_Subset
  <2> QED BY <1>6, <2>2, FS_AddElement
<1>8. \A q \in Peers : open[q] \in Episodes \cup {Closed}
  BY DEF TypeInv, TypeOK
<1> QED BY <1>2, <1>3, <1>5, <1>6, <1>7, <1>8

LEMMA OneMore ==
    ASSUME NEW a \in Nat, NEW b \in Nat, NEW c \in Nat, NEW d \in Nat, a <= b + c, c <= d
    PROVE  a + 1 <= (b + 1) + d
  OBVIOUS

LEMMA InBounds ==
    ASSUME NEW a \in Nat, NEW b \in Nat, NEW c \in Nat, NEW d \in Nat, a <= c, b <= d
    PROVE  \A n \in Nat : n <= a + b => n \in 0 .. c + d
  OBVIOUS

LEMMA RequestTypes ==
    ASSUME TypeInv, Shows, NEW p \in Peers, NEW w \in Writes, Request(p, w)
    PROVE  TypeInv' /\ Shows'
<1>1. PICK finals \in Finals(Expired) : Emit(finals \o Tail1(p, w))
  BY RequestDoes
<1> DEFINE events == finals \o Tail1(p, w)
<1>2. /\ running = "up" /\ writes < MaxWrites /\ writes' = writes + 1
      /\ IF Fresh(p) THEN state' = [boot |-> boot, next |-> next + 1] /\ next' = next + 1
         ELSE UNCHANGED <<state, next>>
      /\ open'[p] = Left(p, w)
      /\ observed' = [observed EXCEPT ![Was(p).id] = @ + 1]
      /\ UNCHANGED <<now, boot, running, sender, looping, clobbered>>
  BY RequestDoes
<1>3. events \in Seq(Events \ {Garbled}) /\ events \in Seq(Events) /\ Emit(events)
  BY <1>1, <1>2, RequestEvents
<1> HIDE DEF events
<1>4. PICK k \in Nat : Wrote(events, k)
  BY <1>3, EmitWrites
<1>5. StatusOK /\ Shows'
  BY <1>2, <1>3, EmitStatus
<1>6. /\ spool' \in Seq(Events) /\ Len(spool') <= Capacity
      /\ \A i \in DOMAIN spool' : spool'[i] \in Events
      /\ torn' \in BOOLEAN /\ faults' \in 0 .. MaxFaults /\ faults' >= faults
      /\ missed' \subseteq Ids
  BY <1>3, <1>4, WroteTypes
<1>7. writes' \in 0 .. MaxWrites /\ writes' \in Nat /\ faults' \in Nat /\ faults <= faults'
      /\ faults' <= MaxFaults
  BY <1>2, <1>6, Amounts
<1>8. /\ next' \in Nat /\ state'.next \in Nat
      /\ next' <= writes' + faults' /\ state'.next <= writes' + faults'
  <2>1. next + 1 <= (writes + 1) + faults' /\ next <= (writes + 1) + faults'
        /\ state.next <= (writes + 1) + faults' /\ next + 1 \in Nat
    <3>1. next + 1 <= (writes + 1) + faults' /\ state.next + 1 <= (writes + 1) + faults'
      BY <1>7, Amounts, OneMore
    <3> QED BY <1>7, <3>1, Amounts
  <2>2. CASE Fresh(p)
    BY <1>2, <2>1, <2>2
  <2>3. CASE ~Fresh(p)
    BY <1>2, <2>1, <2>3, Amounts
  <2> QED BY <2>2, <2>3
<1>9. next' \in Numbers /\ state' \in [boot : 1 .. MaxBoots, next : Numbers]
  <2>1. \A n \in Nat : n <= writes' + faults' => n \in Numbers
    <3>1. writes' <= MaxWrites /\ writes' \in Nat /\ MaxWrites \in Nat /\ MaxFaults \in Nat
          /\ faults' \in Nat /\ faults' <= MaxFaults
      BY <1>2, <1>7, Amounts
    <3> QED BY <3>1, InBounds DEF Numbers
  <2>2. next' \in Numbers /\ state'.next \in Numbers
    BY <1>8, <2>1
  <2>3. CASE Fresh(p)
    BY <1>2, <2>2, <2>3, Amounts
  <2>4. CASE ~Fresh(p)
    BY <1>2, <2>2, <2>4 DEF TypeInv, TypeOK
  <2> QED BY <2>2, <2>3, <2>4
<1>10. /\ observed' \in [Ids -> 0 .. MaxWrites]
       /\ \A id \in Ids : observed'[id] <= writes'
  <2>1. observed \in [Ids -> 0 .. MaxWrites] /\ \A id \in Ids : observed[id] <= writes
    BY DEF TypeInv, TypeOK, Bounded
  <2>2. Was(p).id \in Ids
    BY <1>2, RequestAfter
  <2>3. \A id \in Ids : observed'[id] = IF id = Was(p).id THEN observed[id] + 1 ELSE observed[id]
    BY <1>2, <2>1, <2>2
  <2>4. \A id \in Ids : observed'[id] \in Nat /\ observed'[id] <= writes + 1
    BY <2>1, <2>3, Amounts
  <2>5. \A id \in Ids : observed'[id] \in 0 .. MaxWrites
    BY <1>2, <2>4, Amounts
  <2> QED BY <1>2, <2>1, <2>4, <2>5
<1>11. TypeOK'
  <2>1. /\ now' \in 1 .. MaxTime /\ boot' \in 1 .. MaxBoots
        /\ running' \in {"up", "down", "refused"} /\ sender' \in {"off", "stale", "on"}
        /\ clobbered' \in BOOLEAN
    BY <1>2 DEF TypeInv, TypeOK
  <2>2. \A q \in Peers : open'[q] \in Episodes \cup {Closed}
    BY RequestOpenings
  <2> QED BY <1>5, <1>6, <1>7, <1>9, <1>10, <2>1, <2>2, Zenon DEF TypeOK, StatusOK, Healths
<1>12. Bounded'
  <2>1. \A q \in Openings' : open'[q].count <= writes'
    <3>1. \A q \in Openings' \ {p} : q \in Openings /\ open'[q] = open[q]
      BY RequestOpenings
    <3>2. \A q \in Openings : open[q].count \in Nat /\ open[q].count <= writes
      BY OpenTypes DEF TypeInv, Bounded
    <3>3. open'[p].count <= writes'
      <4>1. open'[p].count = Was(p).count + 1 /\ Was(p).count \in Nat /\ Was(p).count <= writes
        BY <1>2, RequestAfter, RequestBefore
      <4> QED BY <1>2, <4>1, Amounts
    <3> QED BY <1>2, <3>1, <3>2, <3>3, Amounts
  <2>2. IsFiniteSet(Openings')
    BY RequestOpenings
  <2> QED BY <1>6, <1>8, <1>10, <2>1, <2>2 DEF Bounded
<1>13. Process'
  <2>1. state.boot = boot /\ state.next <= next
    BY <1>2 DEF TypeInv, Process
  <2>2. CASE Fresh(p)
    BY <1>2, <2>2, Amounts DEF Process
  <2>3. CASE ~Fresh(p)
    BY <1>2, <2>1, <2>3 DEF Process
  <2> QED BY <2>2, <2>3
<1> QED BY <1>5, <1>11, <1>12, <1>13 DEF TypeInv

(***************************************************************************)
(* The other steps.                                                         *)
(***************************************************************************)

LEMMA OpenIds ==
    ASSUME TypeInv, NEW P
    PROVE  {open[q].id : q \in {q \in P \cap Openings : open[q].dirty}} \subseteq Ids
  BY OpenTypes DEF TypeInv, Drafts

LEMMA AllocationTypes ==
    ASSUME TypeInv, Shows, NEW p \in Peers, AllocationFails(p)
    PROVE  TypeInv' /\ Shows'
<1>1. /\ running = "up" /\ faults < MaxFaults /\ next < MaxWrites /\ next' = next + 1
      /\ Close(Expired) /\ Report /\ failedAt' = now /\ faults' = faults + 1
      /\ UNCHANGED <<now, boot, running, sender, looping, state, spool, torn, writes, observed,
                     clobbered>>
  BY DEF AllocationFails
<1>2. missed' \subseteq Ids
  <2>1. Expired = Expired \cap Openings
    BY DEF Expired
  <2>2. missed' = missed \cup {open[q].id : q \in {q \in Expired : open[q].dirty}}
    BY DEF AllocationFails
  <2>3. missed \subseteq Ids
    BY DEF TypeInv, TypeOK
  <2> QED BY <2>1, <2>2, <2>3, OpenIds
<1>3. /\ Openings' \subseteq Openings /\ IsFiniteSet(Openings')
      /\ \A q \in Peers : open'[q] \in Episodes \cup {Closed}
      /\ \A q \in Openings' : open'[q] = open[q]
  BY <1>1, Closes
<1>4. /\ next' \in Numbers /\ faults' \in 0 .. MaxFaults
      /\ next' <= writes' + faults' /\ state'.next <= writes' + faults'
  <2>1. faults + 1 \in 0 .. MaxFaults /\ faults + 1 \in Nat /\ next + 1 \in Nat
    BY <1>1, Amounts
  <2>2. next + 1 <= writes + (faults + 1) /\ state.next <= writes + (faults + 1)
    <3>1. \A a, b, c \in Nat : a <= b + c => a + 1 <= b + (c + 1) /\ a <= b + (c + 1)
      OBVIOUS
    <3> QED BY <3>1, Amounts
  <2>3. next + 1 \in Numbers
    BY <1>1, <2>1, <2>2, Amounts, InBounds DEF Numbers
  <2> QED BY <1>1, <2>1, <2>2, <2>3
<1>5. StatusOK /\ Shows'
  <2>1. now \in 1 .. MaxTime /\ MaxTime \in Nat
    BY EndpointAssumption DEF TypeInv, TypeOK
  <2>2. /\ health' = [status |-> "error", at |-> now] /\ failure' = TRUE /\ now' = now
        /\ failedAt' = now /\ looping' = looping
    BY <1>1 DEF Report
  <2>3. health' \in Healths /\ failedAt' \in 0 .. MaxTime
    BY <2>1, <2>2 DEF Healths
  <2>4. looping' \in BOOLEAN /\ failure' \in BOOLEAN
    BY <2>2 DEF TypeInv, TypeOK
  <2>5. failedAt' <= now' /\ health'.at <= now' /\ health'.status = "error"
    BY <2>1, <2>2
  <2>6. failure'
    BY <2>2
  <2> QED BY <2>3, <2>4, <2>5, <2>6, Zenon DEF StatusOK, Shows
<1>6. TypeOK'
  <2>1. /\ now' \in 1 .. MaxTime /\ boot' \in 1 .. MaxBoots
        /\ running' \in {"up", "down", "refused"} /\ sender' \in {"off", "stale", "on"}
        /\ state' \in [boot : 1 .. MaxBoots, next : Numbers]
        /\ Len(spool') <= Capacity /\ \A i \in DOMAIN spool' : spool'[i] \in Events
        /\ writes' \in 0 .. MaxWrites /\ observed' \in [Ids -> 0 .. MaxWrites]
        /\ torn' \in BOOLEAN /\ clobbered' \in BOOLEAN
    BY <1>1, Zenon DEF TypeInv, TypeOK
  <2> QED BY <1>2, <1>3, <1>4, <1>5, <2>1, Zenon DEF TypeOK, StatusOK, Healths
<1>7. Bounded'
  BY <1>1, <1>3, <1>4 DEF TypeInv, Bounded
<1>8. Process'
  <2>1. state.boot = boot /\ state.next <= next
    BY <1>1 DEF TypeInv, Process
  <2>2. state.next <= next + 1
    BY <2>1, Amounts
  <2> QED BY <1>1, <2>1, <2>2 DEF Process
<1> QED BY <1>5, <1>6, <1>7, <1>8 DEF TypeInv

LEMMA DieTypes ==
    ASSUME TypeInv, Shows, Die
    PROVE  TypeInv' /\ Shows'
<1>1. /\ running = "up" /\ faults < MaxFaults /\ running' = "down" /\ Close(Peers)
      /\ state' = state \/ state' = [boot |-> boot, next |-> next + 1]
      /\ torn' \in {torn, TRUE} /\ faults' = faults + 1
      /\ UNCHANGED <<now, boot, sender, next, looping, failure, spool, health, writes,
                     observed, failedAt, clobbered>>
  BY DEF Die
<1>2. missed' \subseteq Ids
  <2>1. Openings = Peers \cap Openings
    BY DEF Openings
  <2>2. missed' = missed \cup {open[q].id : q \in {q \in Openings : open[q].dirty}}
    BY DEF Die
  <2>3. missed \subseteq Ids
    BY DEF TypeInv, TypeOK
  <2> QED BY <2>1, <2>2, <2>3, OpenIds
<1>3. Openings' = {} /\ \A q \in Peers : open'[q] \in Episodes \cup {Closed}
  <2>1. Openings \subseteq Peers
    BY DEF Openings
  <2> QED BY <1>1, <2>1, Closes
<1>4. /\ faults' \in 0 .. MaxFaults /\ state' \in [boot : 1 .. MaxBoots, next : Numbers]
      /\ next' <= writes' + faults' /\ state'.next <= writes' + faults'
  <2>1. faults + 1 \in 0 .. MaxFaults /\ faults + 1 \in Nat /\ next + 1 \in Nat
        /\ faults + 1 <= MaxFaults
    BY <1>1, Amounts
  <2>2. /\ next + 1 <= writes + (faults + 1) /\ state.next <= writes + (faults + 1)
        /\ next <= writes + (faults + 1)
    <3>1. \A a, b, c \in Nat : a <= b + c => a + 1 <= b + (c + 1) /\ a <= b + (c + 1)
      OBVIOUS
    <3> QED BY <3>1, Amounts
  <2>3. next + 1 \in Numbers
    BY <2>1, <2>2, Amounts, InBounds DEF Numbers
  <2>4. state' = state \/ (state'.boot = boot /\ state'.next = next + 1)
    BY <1>1
  <2>5. state' \in [boot : 1 .. MaxBoots, next : Numbers]
    BY <1>1, <2>3, Amounts DEF TypeInv, TypeOK
  <2>6. state'.next <= writes + (faults + 1)
    BY <2>2, <2>4
  <2> QED BY <1>1, <2>1, <2>2, <2>5, <2>6
<1>5. TypeOK'
  <2>1. /\ now' \in 1 .. MaxTime /\ boot' \in 1 .. MaxBoots
        /\ running' \in {"up", "down", "refused"} /\ sender' \in {"off", "stale", "on"}
        /\ next' \in Numbers
        /\ Len(spool') <= Capacity /\ \A i \in DOMAIN spool' : spool'[i] \in Events
        /\ writes' \in 0 .. MaxWrites /\ observed' \in [Ids -> 0 .. MaxWrites]
        /\ torn' \in BOOLEAN /\ clobbered' \in BOOLEAN /\ looping' \in BOOLEAN
        /\ failure' \in BOOLEAN /\ failedAt' \in 0 .. MaxTime
        /\ health' \in [status : {"ready", "error"}, at : 1 .. MaxTime]
    BY <1>1, Zenon DEF TypeInv, TypeOK
  <2> QED BY <1>2, <1>3, <1>4, <2>1, Zenon DEF TypeOK
<1>6. Bounded'
  <2>1. IsFiniteSet(Openings') /\ \A q \in Openings' : open'[q].count <= writes'
    BY <1>3, FS_EmptySet
  <2> QED BY <1>1, <1>4, <2>1 DEF TypeInv, Bounded
<1>7. Process' /\ Shows'
  BY <1>1, <1>3, Zenon DEF Process, Shows
<1> QED BY <1>5, <1>6, <1>7 DEF TypeInv

LEMMA TickTypes ==
    ASSUME TypeInv, Shows, Tick
    PROVE  TypeInv' /\ Shows'
<1>1. now < MaxTime /\ now' = now + 1
      /\ UNCHANGED <<boot, running, sender, agent, disk, ghost>>
  BY DEF Tick
<1>2. now' \in 1 .. MaxTime
  BY <1>1, EndpointAssumption DEF TypeInv, TypeOK
<1>3. TypeOK'
  BY <1>1, <1>2, Zenon DEF TypeInv, TypeOK, agent, disk, ghost
<1>4. Openings' = Openings
  BY <1>1 DEF Openings, IsOpen, agent
<1>5. Bounded' /\ Process'
  BY <1>1, <1>4, Zenon DEF TypeInv, Bounded, Process, agent, disk, ghost
<1>6. Shows'
  <2>1. failedAt <= now /\ health.at <= now /\ failedAt \in 0 .. MaxTime
        /\ health \in Healths /\ now \in 1 .. MaxTime /\ MaxTime \in Nat
    BY EndpointAssumption DEF Shows, TypeInv, TypeOK, Healths
  <2>2. failedAt <= now + 1 /\ health.at <= now + 1
    BY <2>1 DEF Healths
  <2>3. failedAt' <= now' /\ health'.at <= now'
    BY <1>1, <2>2 DEF ghost, disk
  <2> QED BY <1>1, <2>3, Zenon DEF Shows, agent, disk, ghost
<1> QED BY <1>3, <1>5, <1>6 DEF TypeInv

LEMMA StartTypes ==
    ASSUME TypeInv, Shows, Start
    PROVE  TypeInv' /\ Shows' /\ Openings' = {}
<1>1. /\ running = "down" /\ state' = Load /\ next' = Load.next
      /\ UNCHANGED <<now, boot, sender, open, spool, torn, writes, faults, observed, missed,
                     clobbered>>
  BY DEF Start
<1>2. \/ /\ running' = "up" /\ looping' = TRUE /\ failure' = FALSE
         /\ health' = [status |-> "ready", at |-> now] /\ failedAt' = Never
      \/ running' = "refused" /\ UNCHANGED <<looping, failure, health, failedAt>>
  BY DEF Start
<1>3. /\ state' \in [boot : 1 .. MaxBoots, next : Numbers] /\ next' \in Numbers
      /\ next' = state'.next /\ state'.boot = boot
      /\ next' <= writes + faults /\ state'.next <= writes + faults
  <2>1. CASE state.boot = boot
    BY <1>1, <2>1, Amounts DEF Load, TypeInv, TypeOK
  <2>2. CASE state.boot # boot
    <3>1. state' = [boot |-> boot, next |-> 0] /\ next' = 0
      BY <1>1, <2>2 DEF Load
    <3>2. 0 \in Numbers /\ 0 <= writes + faults
      BY Amounts DEF Numbers
    <3> QED BY <3>1, <3>2, Amounts
  <2> QED BY <2>1, <2>2
<1>4. Openings = {} /\ Openings' = {}
  BY <1>1 DEF Openings, IsOpen, TypeInv, Process
<1>5. /\ looping' \in BOOLEAN /\ failure' \in BOOLEAN /\ health' \in Healths
      /\ failedAt' \in 0 .. MaxTime
  <2>1. CASE running' = "up"
    <3>1. /\ looping' = TRUE /\ failure' = FALSE /\ failedAt' = Never
          /\ health' = [status |-> "ready", at |-> now]
      BY <1>2, <2>1
    <3>2. now \in 1 .. MaxTime /\ MaxTime \in Nat
      BY EndpointAssumption DEF TypeInv, TypeOK
    <3>3. health' \in Healths /\ failedAt' \in 0 .. MaxTime
      BY <3>1, <3>2 DEF Healths, Never
    <3> QED BY <3>1, <3>3, Zenon
  <2>2. CASE running' # "up"
    BY <1>2, <2>2, Zenon DEF TypeInv, TypeOK, Healths
  <2> QED BY <2>1, <2>2
<1>6. TypeOK'
  <2>1. /\ now' \in 1 .. MaxTime /\ boot' \in 1 .. MaxBoots /\ sender' \in {"off", "stale", "on"}
        /\ \A p \in Peers : open'[p] \in Episodes \cup {Closed}
        /\ Len(spool') <= Capacity /\ \A i \in DOMAIN spool' : spool'[i] \in Events
        /\ torn' \in BOOLEAN /\ writes' \in 0 .. MaxWrites /\ faults' \in 0 .. MaxFaults
        /\ observed' \in [Ids -> 0 .. MaxWrites] /\ missed' \subseteq Ids
        /\ clobbered' \in BOOLEAN
    BY <1>1, Zenon DEF TypeInv, TypeOK
  <2>2. running' \in {"up", "down", "refused"}
    BY <1>2
  <2> QED BY <1>3, <1>5, <2>1, <2>2, Zenon DEF TypeOK, Healths
<1>7. Bounded'
  <2>1. IsFiniteSet(Openings') /\ \A q \in Openings' : open'[q].count <= writes'
    BY <1>4, FS_EmptySet
  <2> QED BY <1>1, <1>3, <2>1 DEF TypeInv, Bounded
<1>8. Process'
  <2>1. state'.next \in Nat
    BY <1>3 DEF Numbers
  <2>2. state'.boot = boot' /\ state'.next <= next'
    BY <1>1, <1>3, <2>1
  <2> QED BY <1>4, <2>2 DEF Process
<1>9. Shows'
  <2>1. CASE running' = "up"
    <3>1. failure' = FALSE /\ failedAt' = Never /\ health'.at = now /\ now' = now
      BY <1>1, <1>2, <2>1
    <3>2. failedAt' <= now' /\ health'.at <= now'
      BY <3>1 DEF Never, TypeInv, TypeOK
    <3> QED BY <3>1, <3>2, Zenon DEF Shows
  <2>2. CASE running' # "up"
    <3>1. now' = now /\ health' = health /\ failedAt' = failedAt
      BY <1>1, <1>2, <2>2
    <3>2. failure' = failure
      BY <1>2, <2>2, Zenon
    <3> QED BY <2>2, <3>1, <3>2, Zenon DEF Shows
  <2> QED BY <2>1, <2>2
<1> QED BY <1>4, <1>6, <1>7, <1>8, <1>9 DEF TypeInv

LEMMA RebootTypes ==
    ASSUME TypeInv, Shows, Reboot
    PROVE  TypeInv' /\ Shows'
<1>1. /\ running # "up" /\ boot < MaxBoots /\ boot' = boot + 1 /\ running' = "down"
      /\ sender' = "off" /\ UNCHANGED <<now, agent, disk, ghost>>
  BY DEF Reboot
<1>2. boot' \in 1 .. MaxBoots
  BY <1>1, EndpointAssumption DEF TypeInv, TypeOK
<1>3. Openings' = Openings
  BY <1>1 DEF Openings, IsOpen, agent
<1>4. TypeOK'
  BY <1>1, <1>2, Zenon DEF TypeInv, TypeOK, agent, disk, ghost
<1>5. Bounded' /\ Process' /\ Shows'
  BY <1>1, <1>3, Zenon DEF TypeInv, Bounded, Process, Shows, agent, disk, ghost
<1> QED BY <1>4, <1>5 DEF TypeInv

LEMMA SenderTypes ==
    ASSUME TypeInv, Shows, SenderLoads \/ SenderSaves
    PROVE  TypeInv' /\ Shows'
<1>1. CASE SenderLoads
  <2>1. sender' \in {"off", "stale", "on"} /\ UNCHANGED <<now, boot, running, agent, disk, ghost>>
    BY <1>1 DEF SenderLoads
  <2>2. Openings' = Openings
    BY <2>1 DEF Openings, IsOpen, agent
  <2> QED BY <2>1, <2>2, Zenon
          DEF TypeInv, TypeOK, Bounded, Process, Shows, agent, disk, ghost
<1>2. CASE SenderSaves
  <2>1. /\ sender' = "on" /\ state' = [boot |-> boot, next |-> 0]
        /\ clobbered' \in BOOLEAN
        /\ UNCHANGED <<now, boot, running, agent, spool, torn, health, writes, faults, observed,
                       missed, failedAt>>
    BY <1>2 DEF SenderSaves
  <2>2. Openings' = Openings
    BY <2>1 DEF Openings, IsOpen, agent
  <2>3. 0 \in Numbers /\ 0 <= writes + faults /\ 0 <= next
    BY Amounts DEF Numbers
  <2>4. state' \in [boot : 1 .. MaxBoots, next : Numbers] /\ state'.next = 0 /\ state'.boot = boot
    BY <2>1, <2>3, Amounts
  <2>5. TypeOK'
    BY <2>1, <2>4, Zenon DEF TypeInv, TypeOK, agent
  <2>6. Bounded' /\ Process' /\ Shows'
    BY <2>1, <2>2, <2>3, <2>4, Zenon DEF TypeInv, Bounded, Process, Shows, agent
  <2> QED BY <2>5, <2>6 DEF TypeInv
<1> QED BY <1>1, <1>2

LEMMA TypesInit == Init => TypeInv /\ Shows
<1> SUFFICES ASSUME Init PROVE TypeInv /\ Shows
  OBVIOUS
<1>1. Openings = {}
  BY DEF Init, Openings, IsOpen
<1>2. IsFiniteSet(Openings)
  BY <1>1, FS_EmptySet
<1>3. spool \in Seq(Events) /\ Len(spool) = 0 /\ \A i \in DOMAIN spool : spool[i] \in Events
  BY EmptySeq DEF Init
<1>4. 0 \in Numbers /\ 1 \in 1 .. MaxBoots
  BY EndpointAssumption DEF Numbers
<1>5. observed \in [Ids -> 0 .. MaxWrites] /\ \A id \in Ids : observed[id] = 0
  BY EndpointAssumption DEF Init
<1>6. now = 1 /\ health.at = 1 /\ failedAt = 0 /\ next = 0 /\ state.next = 0 /\ writes = 0
      /\ faults = 0 /\ state.boot = boot /\ running = "up" /\ failure = FALSE
  BY DEF Init, Never
<1>7. TypeOK
  <2>1. now \in 1 .. MaxTime /\ health \in [status : {"ready", "error"}, at : 1 .. MaxTime]
    BY EndpointAssumption DEF Init
  <2>2. /\ boot \in 1 .. MaxBoots /\ running \in {"up", "down", "refused"}
        /\ sender \in {"off", "stale", "on"} /\ next \in Numbers
        /\ state \in [boot : 1 .. MaxBoots, next : Numbers]
        /\ \A p \in Peers : open[p] \in Episodes \cup {Closed}
        /\ Len(spool) <= Capacity
        /\ writes \in 0 .. MaxWrites /\ faults \in 0 .. MaxFaults
        /\ missed \subseteq Ids /\ failedAt \in 0 .. MaxTime
    BY <1>3, <1>4, EndpointAssumption DEF Init, Never
  <2>3. /\ torn \in BOOLEAN /\ looping \in BOOLEAN /\ failure \in BOOLEAN
        /\ clobbered \in BOOLEAN
    BY DEF Init
  <2> QED BY <1>3, <1>5, <2>1, <2>2, <2>3, Zenon DEF TypeOK
<1>8. Bounded
  BY <1>1, <1>2, <1>3, <1>5, <1>6 DEF Bounded
<1>9. Process /\ Shows
  BY <1>1, <1>6 DEF Process, Shows, Never
<1> QED BY <1>7, <1>8, <1>9 DEF TypeInv

LEMMA TypesStep == TypeInv /\ Shows /\ [Next]_vars => TypeInv' /\ Shows'
<1> SUFFICES ASSUME TypeInv, Shows, [Next]_vars PROVE TypeInv' /\ Shows'
  OBVIOUS
<1>1. ASSUME NEW p \in Peers, NEW w \in Writes, Request(p, w) PROVE TypeInv' /\ Shows'
  BY <1>1, RequestTypes
<1>2. ASSUME NEW p \in Peers, AllocationFails(p) PROVE TypeInv' /\ Shows'
  BY <1>2, AllocationTypes
<1>3. ASSUME NEW P, NEW finals, NEW k, Closing(P, finals, k), StatusOK, Shows'
      PROVE  TypeInv' /\ Shows'
  BY <1>3, FinalsSeq, ClosingTypes DEF Closing
<1>4. ASSUME NEW p \in Peers, Disconnect(p) PROVE TypeInv' /\ Shows'
  BY <1>3, <1>4, DisconnectCloses
<1>5. CASE FlushExpired \/ Stop
  BY <1>3, <1>5, FlushCloses, StopCloses
<1>6. CASE Tick \/ Die \/ Start \/ Reboot \/ SenderLoads \/ SenderSaves
  BY <1>6, TickTypes, DieTypes, StartTypes, RebootTypes, SenderTypes
<1>7. CASE UNCHANGED vars
  <2>1. Openings' = Openings
    BY <1>7 DEF vars, agent, Openings, IsOpen
  <2>2. Bounded' /\ Process' /\ Shows'
    BY <1>7, <2>1, Zenon DEF vars, agent, disk, ghost, TypeInv, Bounded, Process, Shows
  <2>3. TypeOK'
    BY <1>7, Zenon DEF vars, agent, disk, ghost, TypeInv, TypeOK
  <2> QED BY <2>2, <2>3 DEF TypeInv
<1> QED BY <1>1, <1>2, <1>4, <1>5, <1>6, <1>7, Zenon DEF Next

\* Whatever fails and whatever dies, the agent's state is well typed, its spool within its size
\* and the sequence of its episodes within the writes and failures so far.
THEOREM TypeCorrect == Spec => []TypeOK
<1>1. Spec => [](TypeInv /\ Shows)
  BY TypesInit, TypesStep, PTL DEF Spec
<1>2. TypeInv => TypeOK
  BY DEF TypeInv
<1> QED BY <1>1, <1>2, PTL

\* An agent that fails to append is not taken for a working one for longer than the sender
\* accepts an old health file, whether the failure was reported or ended the flush loop.
THEOREM FailureTheorem == Spec => []FailureShows
<1>1. TypeInv /\ Shows => FailureShows
  <2> SUFFICES ASSUME TypeInv, Shows, running = "up", failedAt # Never, health.status = "ready",
                      now - health.at <= MaxAge
               PROVE  now - failedAt <= MaxAge
    BY DEF FailureShows, Ready
  <2>1. ~failure
    BY Zenon DEF Shows
  <2>2. health.at <= failedAt
    BY <2>1, Zenon DEF Shows
  <2> QED BY <2>2, EndpointAssumption DEF TypeInv, TypeOK
<1> QED BY <1>1, TypesInit, TypesStep, PTL DEF Spec

(***************************************************************************)
(* What the spool says of the episodes.                                     *)
(***************************************************************************)

\* An identifier is in use only once its sequence was saved in the state file of its boot.
Allocated(id) ==
    observed[id] > 0 => /\ id[1] <= boot
                        /\ id[1] = boot => state.boot = boot /\ id[2] < state.next

Unused(id) == observed[id] = 0 => RevisionsOf(id) = {}

Counted(id, n) == \E i \in RevisionsOf(id) : spool[i].count = n

\* What an open episode has not kept for its next revision is in its last one.
Spooled(e) ==
    \/ e.id \in missed
    \/ \E i \in RevisionsOf(e.id) : /\ Says(e.id, i)
                                    /\ ~e.dirty => spool[i].count = e.count
                                    /\ e.shutdown => spool[i].shutdown

Held(e) == observed[e.id] = e.count /\ Upto(e.id, e.rev) /\ Spooled(e)

IsOver(id) == \A p \in Peers : open[p].id # id

Over(id) == observed[id] > 0 /\ IsOver(id) => id \in missed \/ Counted(id, observed[id])

Recorded ==
    /\ OneEach
    /\ \A id \in Ids : InOrder(id) /\ Unused(id) /\ Over(id)
    /\ \A p \in Openings : Held(open[p])

Allocations == \A id \in Ids : Allocated(id)

Sound == Recorded /\ Allocations

\* An episode of which nothing is said, and nothing more seen, keeps what is known of it.
LEMMA SilentKeeps ==
    ASSUME TypeInv, NEW events \in Seq(Events), NEW k \in Nat, Wrote(events, k), NEW id \in Ids,
           \A m \in 1 .. Len(events) : events[m].id # id, observed'[id] = observed[id]
    PROVE  /\ InOrder(id) => InOrder(id)'
           /\ Unused(id) => Unused(id)'
           /\ \A n : Upto(id, n) => Upto(id, n)'
           /\ \A n : Counted(id, n) => Counted(id, n)'
           /\ id \in missed' <=> id \in missed
           /\ \A e : e.id = id /\ Spooled(e) => Spooled(e)'
           /\ \A e : e.id = id /\ Held(e) => Held(e)'
           /\ Over(id) /\ (IsOver(id)' => IsOver(id)) => Over(id)'
<1>1. /\ RevisionsOf(id)' = RevisionsOf(id)
      /\ \A i \in RevisionsOf(id) : spool'[i] = spool[i]
      /\ id \in missed' <=> id \in missed
  BY Silent
<1>2. InOrder(id) => InOrder(id)'
  BY <1>1 DEF InOrder
<1>3. Unused(id) => Unused(id)'
  BY <1>1 DEF Unused
<1>4. \A n : Upto(id, n) => Upto(id, n)'
  BY <1>1 DEF Upto
<1>5. \A n : Counted(id, n) => Counted(id, n)'
  BY <1>1 DEF Counted
<1>6. \A e : e.id = id /\ Spooled(e) => Spooled(e)'
  <2> SUFFICES ASSUME NEW e, e.id = id, Spooled(e) PROVE Spooled(e)'
    OBVIOUS
  <2>1. CASE id \in missed
    BY <1>1, <2>1 DEF Spooled
  <2>2. CASE \E i \in RevisionsOf(id) : /\ Says(id, i)
                                        /\ ~e.dirty => spool[i].count = e.count
                                        /\ e.shutdown => spool[i].shutdown
    <3>1. PICK i \in RevisionsOf(id) : /\ Says(id, i)
                                       /\ ~e.dirty => spool[i].count = e.count
                                       /\ e.shutdown => spool[i].shutdown
      BY <2>2
    <3>2. spool'[i] = spool[i] /\ i \in RevisionsOf(id)' /\ Says(id, i)'
      BY <1>1, <3>1 DEF Says
    <3>3. /\ ~e.dirty => spool'[i].count = e.count
          /\ e.shutdown => spool'[i].shutdown
      BY <3>1, <3>2, Zenon
    <3> QED BY <3>2, <3>3, Zenon DEF Spooled
  <2> QED BY <2>1, <2>2, Zenon DEF Spooled
<1>7. \A e : e.id = id /\ Held(e) => Held(e)'
  BY <1>4, <1>6, Zenon DEF Held
<1>8. ASSUME Over(id), IsOver(id)' => IsOver(id), observed'[id] > 0, IsOver(id)'
      PROVE  id \in missed' \/ \E i \in RevisionsOf(id)' : spool'[i].count = observed'[id]
  <2>1. id \in missed \/ \E i \in RevisionsOf(id) : spool[i].count = observed[id]
    BY <1>8 DEF Over, Counted
  <2> QED BY <1>1, <2>1
<1>9. Over(id) /\ (IsOver(id)' => IsOver(id)) => Over(id)'
  BY <1>8, Zenon DEF Over, Counted
<1> QED BY <1>1, <1>2, <1>3, <1>4, <1>5, <1>6, <1>7, <1>9

\* What an open episode has on the spool.
LEMMA HeldFacts ==
    ASSUME TypeInv, Recorded, NEW q \in Openings
    PROVE  /\ open[q] \in Drafts /\ open[q].id \in Ids /\ open[q].rev \in Nat
           /\ open[q].count \in Nat \ {0} /\ open[q].count \in 1 .. MaxWrites
           /\ observed[open[q].id] = open[q].count /\ observed[open[q].id] > 0
           /\ InOrder(open[q].id) /\ Upto(open[q].id, open[q].rev) /\ Spooled(open[q])
<1>1. /\ open[q] \in Drafts /\ open[q].id \in Ids /\ open[q].rev \in Nat
      /\ open[q].count \in 1 .. MaxWrites
  BY OpenTypes DEF TypeInv, Drafts
<1>2. open[q].count \in Nat \ {0} /\ open[q].count > 0
  BY <1>1, EndpointAssumption
<1>3. InOrder(open[q].id) /\ observed[open[q].id] = open[q].count
      /\ Upto(open[q].id, open[q].rev) /\ Spooled(open[q])
  BY <1>1 DEF Recorded, Held
<1> QED BY <1>1, <1>2, <1>3

\* An episode that closes: its last revision, if it has anything to say, tells of all its
\* writes; if it has not, the last one did.
LEMMA ClosedIsOver ==
    ASSUME TypeInv, Recorded, NEW events \in Seq(Events), NEW k \in Nat, Wrote(events, k),
           NEW q \in Openings, NEW id, id = open[q].id, observed'[id] = observed[id],
           open[q].dirty => \E m \in 1 .. Len(events) : events[m] = Event(open[q]),
           \A m \in 1 .. Len(events) : events[m].id = id => open[q].dirty,
           \A m, l \in 1 .. Len(events) : events[m].id = events[l].id => m = l
    PROVE  InOrder(id)' /\ Unused(id)' /\ Over(id)'
<1>1. PICK e : e = open[q]
  OBVIOUS
<1>2. /\ e \in Drafts /\ id \in Ids /\ e.rev \in Nat /\ e.id = id
      /\ e.count \in 1 .. MaxWrites /\ observed[id] = e.count /\ observed[id] > 0
      /\ InOrder(id) /\ Upto(id, e.rev) /\ Spooled(e)
  BY <1>1, HeldFacts
<1>3. Unused(id)'
  BY <1>2 DEF Unused
<1>4. CASE e.dirty
  <2>1. PICK m \in 1 .. Len(events) : events[m] = Event(e)
    BY <1>1, <1>4
  <2>2. events[m].id = id /\ events[m].rev = e.rev + 1 /\ events[m].count = e.count
    BY <1>2, <2>1, EventType
  <2>3. \A l \in 1 .. Len(events) : events[l].id = id => l = m
    BY <2>2
  <2>4. /\ InOrder(id)'
        /\ id \in missed' \/ \E i \in RevisionsOf(id)' : Says(id, i)' /\ spool'[i] = events[m]
    BY <1>2, <2>2, <2>3, Told, ZenonT(30)
  <2>5. id \in missed' \/ \E i \in RevisionsOf(id)' : spool'[i].count = observed'[id]
    BY <1>2, <2>2, <2>4
  <2> QED BY <1>3, <2>4, <2>5, Zenon DEF Over, Counted
<1>5. CASE ~e.dirty
  <2>1. \A m \in 1 .. Len(events) : events[m].id # id
    BY <1>1, <1>5
  <2>2. InOrder(id)' /\ Spooled(e)'
    BY <1>2, <2>1, SilentKeeps
  <2>3. id \in missed' \/ \E i \in RevisionsOf(id)' : spool'[i].count = observed'[id]
    <3>1. e.id \in missed' \/ \E i \in RevisionsOf(e.id)' : ~e.dirty => spool'[i].count = e.count
      BY <2>2, Zenon DEF Spooled
    <3> QED BY <1>2, <1>5, <3>1
  <2> QED BY <1>3, <2>2, <2>3, Zenon DEF Over, Counted
<1> QED BY <1>4, <1>5

LEMMA ClosedId == \A id \in Ids : Closed.id # id
  BY DEF Closed, Ids

\* A callback that closes the episodes of P and appends their last revisions.
LEMMA ClosingKeeps ==
    ASSUME TypeInv, Recorded, NEW P, NEW finals, NEW k, Closing(P, finals, k)
    PROVE  Recorded'
<1>1. /\ finals \in Finals(P) /\ k \in Nat /\ Wrote(finals, k) /\ Close(P)
      /\ observed' = observed
  BY DEF Closing
<1>2. /\ finals \in Seq(Events)
      /\ \A m \in 1 .. Len(finals) :
            \E q \in P \cap Openings : open[q].dirty /\ finals[m] = Event(open[q])
      /\ \A q \in P \cap Openings :
            open[q].dirty => \E m \in 1 .. Len(finals) : finals[m] = Event(open[q])
      /\ \A m, l \in 1 .. Len(finals) : finals[m].id = finals[l].id => m = l
  BY <1>1, FinalsSeq, FinalsGive DEF TypeInv, Bounded, Recorded
<1>3. \A q \in Openings : open[q].id \in Ids /\ Event(open[q]).id = open[q].id
  BY HeldFacts, EventType
<1>4. /\ Openings' = Openings \ P
      /\ \A p \in Openings' : open'[p] = open[p]
      /\ \A p \in Peers \ P : open'[p] = open[p]
  BY <1>1, Closes
<1>5. \A p, q \in Openings : open[p].id = open[q].id => p = q
  BY DEF Recorded, OneEach
<1>6. \A q \in P \cap Openings, m \in 1 .. Len(finals) :
         finals[m].id = open[q].id => open[q].dirty
  BY <1>2, <1>3, <1>5
<1>7. \A id \in Ids : \/ \E q \in P \cap Openings : open[q].id = id
                      \/ \A m \in 1 .. Len(finals) : finals[m].id # id
  BY <1>2, <1>3
<1>8. OneEach'
  BY <1>4, <1>5 DEF OneEach
<1>9. ASSUME NEW id \in Ids PROVE InOrder(id)' /\ Unused(id)' /\ Over(id)'
  <2>1. CASE \E q \in P \cap Openings : open[q].id = id
    <3>1. PICK q \in P \cap Openings : open[q].id = id
      BY <2>1
    <3>2. open[q].dirty => \E m \in 1 .. Len(finals) : finals[m] = Event(open[q])
      BY <1>2
    <3>3. \A m \in 1 .. Len(finals) : finals[m].id = id => open[q].dirty
      BY <1>6, <3>1
    <3> QED BY <1>1, <1>2, <3>1, <3>2, <3>3, ClosedIsOver
  <2>2. CASE ~\E q \in P \cap Openings : open[q].id = id
    <3>1. \A m \in 1 .. Len(finals) : finals[m].id # id
      BY <1>7, <2>2
    <3>2. IsOver(id)' => IsOver(id)
      <4> SUFFICES ASSUME NEW p \in Peers, open[p].id = id PROVE open'[p].id = id
        BY DEF IsOver
      <4>1. p \in Openings
        BY ClosedId DEF Openings, IsOpen
      <4> QED BY <1>4, <2>2, <4>1
    <3>3. InOrder(id) /\ Unused(id) /\ Over(id)
      BY DEF Recorded
    <3> QED BY <1>1, <1>2, <3>1, <3>2, <3>3, SilentKeeps
  <2> QED BY <2>1, <2>2
<1>10. ASSUME NEW p \in Openings' PROVE Held(open[p])'
  <2>1. PICK e : e = open[p]
    OBVIOUS
  <2>2. p \in Openings /\ p \notin P /\ open'[p] = e
    BY <1>4, <2>1
  <2>3. Held(e) /\ e.id \in Ids
    BY <1>3, <2>1, <2>2 DEF Recorded
  <2>4. \A m \in 1 .. Len(finals) : finals[m].id # e.id
    BY <1>2, <1>3, <1>5, <2>1, <2>2
  <2>5. Held(e)'
    BY <1>1, <1>2, <2>3, <2>4, SilentKeeps
  <2> QED BY <2>2, <2>5, Zenon DEF Held, Upto, Spooled, Says, RevisionsOf
<1> QED BY <1>8, <1>9, <1>10 DEF Recorded

\* Episodes that are dropped, with what they have not emitted.
LEMMA DroppedKeeps ==
    ASSUME TypeInv, Recorded, NEW P, Close(P),
           missed' = missed \cup {open[q].id : q \in {q \in P \cap Openings : open[q].dirty}},
           UNCHANGED <<spool, observed>>
    PROVE  Recorded'
<1>1. /\ Openings' = Openings \ P
      /\ \A p \in Openings' : open'[p] = open[p]
      /\ \A p \in Peers \ P : open'[p] = open[p]
  BY Closes
<1>2. \A id : RevisionsOf(id)' = RevisionsOf(id)
  BY DEF RevisionsOf
<1>3. missed \subseteq missed'
      /\ \A q \in P \cap Openings : open[q].dirty => open[q].id \in missed'
  OBVIOUS
<1>4. OneEach'
  BY <1>1 DEF Recorded, OneEach
<1>5. ASSUME NEW id \in Ids PROVE InOrder(id)' /\ Unused(id)'
  BY <1>2 DEF Recorded, InOrder, Unused
<1>6. ASSUME NEW id \in Ids, observed[id] > 0, IsOver(id)'
      PROVE  id \in missed' \/ \E i \in RevisionsOf(id) : spool[i].count = observed[id]
  <2>1. CASE IsOver(id)
    BY <1>3, <1>6, <2>1 DEF Recorded, Over, Counted
  <2>2. CASE ~IsOver(id)
    <3>1. PICK q \in Peers : open[q].id = id
      BY <2>2 DEF IsOver
    <3>2. q \in Openings /\ q \in P
      BY <1>1, <1>6, <3>1, ClosedId DEF Openings, IsOpen, IsOver
    <3>3. Spooled(open[q]) /\ observed[id] = open[q].count
      BY <3>1, <3>2, HeldFacts
    <3>4. CASE open[q].dirty
      BY <1>3, <3>1, <3>2, <3>4
    <3>5. CASE ~open[q].dirty
      BY <1>3, <3>1, <3>3, <3>5 DEF Spooled
    <3> QED BY <3>4, <3>5
  <2> QED BY <2>1, <2>2
<1>7. ASSUME NEW id \in Ids PROVE Over(id)'
  BY <1>2, <1>6 DEF Over, Counted
<1>8. ASSUME NEW p \in Openings' PROVE Held(open[p])'
  <2>1. PICK e : e = open[p]
    OBVIOUS
  <2>2. p \in Openings /\ open'[p] = e
    BY <1>1, <2>1
  <2>3. Held(e)
    BY <2>1, <2>2 DEF Recorded
  <2>4. Upto(e.id, e.rev)' /\ observed'[e.id] = e.count
    BY <1>2, <2>3 DEF Held, Upto
  <2>5. Spooled(e)'
    BY <1>2, <1>3, <2>3, Zenon DEF Held, Spooled, Says
  <2> QED BY <2>2, <2>4, <2>5, Zenon DEF Held, Upto, Spooled, Says, RevisionsOf
<1> QED BY <1>4, <1>5, <1>7, <1>8 DEF Recorded

LEMMA DieKeeps ==
    ASSUME TypeInv, Sound, Die
    PROVE  Sound'
<1>1. /\ running = "up" /\ Close(Peers)
      /\ missed' = missed \cup {open[q].id : q \in {q \in Openings : open[q].dirty}}
      /\ state' \in {state, [boot |-> boot, next |-> next + 1]}
      /\ UNCHANGED <<boot, spool, observed>>
  BY DEF Die
<1>2. Openings = Peers \cap Openings
  BY DEF Openings
<1>3. Recorded'
  BY <1>1, <1>2, DroppedKeeps DEF Sound
<1>4. ASSUME NEW id \in Ids PROVE Allocated(id)'
  <2>1. Allocated(id) /\ state.boot = boot /\ state.next <= next /\ id[2] \in Nat
    BY <1>1, EndpointAssumption DEF Sound, Allocations, TypeInv, Process, Ids, Numbers
  <2>2. CASE state' = state
    BY <1>1, <2>1, <2>2 DEF Allocated
  <2>3. CASE state' = [boot |-> boot, next |-> next + 1]
    <3>1. state'.boot = boot /\ state'.next = next + 1
      BY <2>3
    <3>2. \A n \in Nat : n < state.next => n < next + 1
      BY <2>1, Amounts
    <3> QED BY <1>1, <2>1, <3>1, <3>2 DEF Allocated
  <2> QED BY <1>1, <2>2, <2>3
<1> QED BY <1>3, <1>4 DEF Sound, Allocations

LEMMA AllocationKeeps ==
    ASSUME TypeInv, Sound, NEW p \in Peers, AllocationFails(p)
    PROVE  Sound'
<1>1. /\ Close(Expired)
      /\ missed' = missed \cup {open[q].id : q \in {q \in Expired : open[q].dirty}}
      /\ UNCHANGED <<boot, state, spool, observed>>
  BY DEF AllocationFails
<1>2. Expired = Expired \cap Openings
  BY DEF Expired
<1>3. Recorded'
  BY <1>1, <1>2, DroppedKeeps DEF Sound
<1>4. Allocations'
  BY <1>1 DEF Sound, Allocations, Allocated
<1> QED BY <1>3, <1>4 DEF Sound

\* A step that appends nothing and neither opens nor closes an episode.
LEMMA StillKeeps ==
    ASSUME TypeInv, Sound, UNCHANGED <<open, spool, observed, missed>>,
           \/ UNCHANGED <<boot, state>>
           \/ Start \/ Reboot \/ (SenderSaves /\ ~clobbered')
    PROVE  Sound'
<1>1. Openings' = Openings
  BY DEF Openings, IsOpen
<1>2. Recorded'
  <2>1. OneEach'
    BY <1>1, Zenon DEF Sound, Recorded, OneEach
  <2>2. \A id \in Ids : InOrder(id)' /\ Unused(id)' /\ Over(id)'
    BY Zenon DEF Sound, Recorded, InOrder, Unused, Over, IsOver, Counted, RevisionsOf
  <2>3. \A p \in Openings' : Held(open[p])'
    BY <1>1, Zenon DEF Sound, Recorded, Held, Upto, Spooled, Says, RevisionsOf
  <2> QED BY <2>1, <2>2, <2>3 DEF Recorded
<1>3. ASSUME NEW id \in Ids, observed[id] > 0
      PROVE  id[1] <= boot' /\ (id[1] = boot' => state'.boot = boot' /\ id[2] < state'.next)
  <2>1. /\ id[1] <= boot /\ (id[1] = boot => state.boot = boot /\ id[2] < state.next)
        /\ id[1] \in Nat /\ id[2] \in Nat /\ boot \in Nat
    BY <1>3, Amounts, EndpointAssumption DEF Sound, Allocations, Allocated, Ids, Numbers
  <2>2. CASE UNCHANGED <<boot, state>>
    BY <2>1, <2>2
  <2>3. CASE Start
    BY <2>1, <2>3 DEF Start, Load
  <2>4. CASE Reboot
    <3>1. boot' = boot + 1
      BY <2>4 DEF Reboot
    <3> QED BY <2>1, <3>1
  <2>5. CASE SenderSaves /\ ~clobbered'
    <3>1. ~(state.boot = boot /\ state.next > 0) /\ boot' = boot
      BY <2>5, Zenon DEF SenderSaves
    <3>2. id[1] # boot
      BY <2>1, <3>1, Amounts
    <3> QED BY <2>1, <3>1, <3>2
  <2> QED BY <2>2, <2>3, <2>4, <2>5
<1>4. Allocations'
  BY <1>3 DEF Allocations, Allocated
<1> QED BY <1>2, <1>4 DEF Sound

(***************************************************************************)
(* A request, on the spool.                                                 *)
(***************************************************************************)

\* The episode of a request is no other one's, and a new one has no line yet.
LEMMA RequestOwn ==
    ASSUME TypeInv, Sound, running = "up", NEW p \in Peers
    PROVE  /\ \A q \in Openings : q # p \/ Fresh(p) => open[q].id # Was(p).id
           /\ observed[Was(p).id] = Was(p).count
           /\ InOrder(Was(p).id) /\ Upto(Was(p).id, Was(p).rev)
           /\ Was(p).id \in Ids /\ Was(p).rev \in Nat /\ Was(p).count \in Nat
<1>1. Was(p).id \in Ids /\ Was(p).rev \in Nat /\ Was(p).count \in Nat
  BY RequestBefore DEF Drafts
<1>2. CASE Fresh(p)
  <2>1. Was(p).id = <<boot, next>> /\ Was(p).rev = 0 /\ Was(p).count = 0
    BY <1>2, RequestBefore
  <2>2. observed[<<boot, next>>] = 0
    <3>1. <<boot, next>> \in Ids /\ Allocated(<<boot, next>>)
      BY <1>1, <2>1 DEF Sound, Allocations
    <3>2. state.boot = boot /\ state.next <= next
      BY DEF TypeInv, Process
    <3>3. observed[<<boot, next>>] \in Nat
      BY <3>1, EndpointAssumption DEF TypeInv, TypeOK
    <3>4. ~(observed[<<boot, next>>] > 0)
      BY <3>1, <3>2, Amounts DEF Allocated
    <3> QED BY <3>3, <3>4
  <2>3. RevisionsOf(<<boot, next>>) = {}
    BY <1>1, <2>1, <2>2 DEF Sound, Recorded, Unused
  <2>4. InOrder(Was(p).id) /\ Upto(Was(p).id, Was(p).rev)
    BY <2>1, <2>3 DEF InOrder, Upto
  <2>5. \A q \in Openings : open[q].id # Was(p).id
    BY <2>1, <2>2, HeldFacts DEF Sound
  <2> QED BY <1>1, <2>1, <2>2, <2>4, <2>5
<1>3. CASE ~Fresh(p)
  <2>1. p \in Openings /\ Was(p) = open[p]
    BY <1>3, RequestBefore
  <2>2. \A q \in Openings : q # p => open[q].id # open[p].id
    BY <2>1 DEF Sound, Recorded, OneEach
  <2>3. /\ observed[open[p].id] = open[p].count
        /\ InOrder(open[p].id) /\ Upto(open[p].id, open[p].rev)
    BY <2>1, HeldFacts DEF Sound
  <2> QED BY <1>1, <1>3, <2>1, <2>2, <2>3
<1> QED BY <1>2, <1>3

\* What a request may append, in any order of the dictionary.
Appends(p, w) == {finals \o Tail1(p, w) : finals \in Finals(Expired)}

\* The last revisions of the expired episodes, and one of its own if that is due.
LEMMA RequestGives ==
    ASSUME TypeInv, Sound, running = "up", NEW p \in Peers, NEW w \in Writes, writes < MaxWrites,
           NEW events \in Appends(p, w)
    PROVE  /\ events \in Seq(Events)
           /\ \A m \in 1 .. Len(events) :
                 \/ \E q \in Expired : open[q].dirty /\ events[m] = Event(open[q])
                 \/ Due(Was(p), w) /\ events[m] = Event(With(p, w))
           /\ \A q \in Expired :
                 open[q].dirty => \E m \in 1 .. Len(events) : events[m] = Event(open[q])
           /\ Due(Was(p), w) => \E m \in 1 .. Len(events) : events[m] = Event(With(p, w))
           /\ \A m, l \in 1 .. Len(events) : events[m].id = events[l].id => m = l
<1>0. PICK finals \in Finals(Expired) : events = finals \o Tail1(p, w)
  BY DEF Appends
<1> DEFINE n    == Len(finals)
           tail == Tail1(p, w)
           mine == Event(With(p, w))
<1>1. Expired \cap Openings = Expired /\ Expired \subseteq Openings
  BY DEF Expired
<1>2. /\ finals \in Seq(Events)
      /\ \A m \in 1 .. n : \E q \in Expired : open[q].dirty /\ finals[m] = Event(open[q])
      /\ \A q \in Expired : open[q].dirty => \E m \in 1 .. n : finals[m] = Event(open[q])
      /\ \A m, l \in 1 .. n : finals[m].id = finals[l].id => m = l
  BY <1>1, FinalsSeq, FinalsGive DEF TypeInv, Bounded, Sound, Recorded
<1>3. mine \in Events /\ mine.id = Was(p).id
  BY RequestAfter
<1>4. \A m \in 1 .. n : finals[m].id # mine.id
  <2>1. \A q \in Expired : open[q].id # Was(p).id
    <3>1. \A q \in Expired : q # p \/ Fresh(p)
      BY DEF Fresh
    <3> QED BY <1>1, <3>1, RequestOwn
  <2>2. \A q \in Openings : Event(open[q]).id = open[q].id
    BY HeldFacts, EventType DEF Sound
  <2> QED BY <1>1, <1>2, <1>3, <2>1, <2>2
<1> HIDE DEF mine
<1>5. CASE Due(Was(p), w)
  <2>1. tail = <<mine>>
    BY <1>5 DEF Tail1, mine
  <2>2. /\ events \in Seq(Events) /\ Len(events) = n + 1
        /\ \A m \in 1 .. n : events[m] = finals[m]
        /\ events[n + 1] = mine
    <3>1. events = finals \o <<mine>> /\ n \in Nat
      BY <1>0, <1>2, <2>1
    <3> QED BY <1>2, <1>3, <3>1
  <2>3. \A m \in 1 .. Len(events) : m \in 1 .. n \/ m = n + 1
    BY <1>2, <2>2
  <2>4. n \in Nat /\ n + 1 \in 1 .. Len(events) /\ \A m \in 1 .. n : m \in 1 .. Len(events)
    BY <1>2, <2>2
  <2> HIDE DEF n
  <2>5. \A m, l \in 1 .. Len(events) : events[m].id = events[l].id => m = l
    <3> TAKE m, l \in 1 .. Len(events)
    <3>1. CASE m \in 1 .. n /\ l \in 1 .. n
      BY <1>2, <2>2, <3>1
    <3>2. CASE m = n + 1 \/ l = n + 1
      BY <1>4, <2>2, <2>3, <3>2
    <3> QED BY <2>3, <3>1, <3>2
  <2>6. \A m \in 1 .. Len(events) : \/ \E q \in Expired : open[q].dirty /\ events[m] = Event(open[q])
                                    \/ events[m] = mine
    BY <1>2, <2>2, <2>3
  <2>7. \A q \in Expired :
           open[q].dirty => \E m \in 1 .. Len(events) : events[m] = Event(open[q])
    <3> TAKE q \in Expired
    <3> HAVE open[q].dirty
    <3>1. PICK m \in 1 .. n : finals[m] = Event(open[q])
      BY <1>2
    <3> QED BY <2>2, <2>4, <3>1
  <2> QED BY <1>5, <2>2, <2>4, <2>5, <2>6, <2>7 DEF mine
<1>6. CASE ~Due(Was(p), w)
  <2>1. events = finals
    <3>1. tail = << >>
      BY <1>6 DEF Tail1
    <3> QED BY <1>0, <1>2, <3>1, ConcatEmptySeq
  <2> QED BY <1>2, <1>6, <2>1
<1> QED BY <1>5, <1>6

\* A revision that is not due leaves no new shutdown behind.
LEMMA NotDue ==
    ASSUME NEW e, NEW w, ~Due(e, w), IsShutdown(e, w)
    PROVE  e.shutdown
  BY DEF Due, Escalated, IsShutdown

\* The episode of a request, after it: its write is seen, and on the spool or kept for later.
LEMMA RequestHolds ==
    ASSUME TypeInv, Sound, NEW p \in Peers, NEW w \in Writes, Request(p, w),
           NEW events \in Appends(p, w),
           NEW k \in Nat, Wrote(events, k)
    PROVE  Held(open[p])' /\ \A own : own = Was(p).id => InOrder(own)' /\ Unused(own)'
<1> DEFINE e  == Was(p)
           u  == With(p, w)
           l  == Left(p, w)
           id == Was(p).id
<1>1. /\ running = "up" /\ writes < MaxWrites /\ open'[p] = l
      /\ observed' = [observed EXCEPT ![id] = @ + 1]
  BY RequestDoes
<1>2. /\ observed[id] = e.count /\ InOrder(id) /\ Upto(id, e.rev)
      /\ id \in Ids /\ e.rev \in Nat /\ e.count \in Nat
  BY <1>1, RequestOwn
<1>3. /\ Event(u).id = id /\ Event(u).rev = e.rev + 1 /\ Event(u).count = e.count + 1
      /\ Event(u).shutdown = u.shutdown /\ u.shutdown = IsShutdown(e, w)
      /\ l.id = id /\ l.count = e.count + 1 /\ l.shutdown = u.shutdown
      /\ IF Due(e, w) THEN l.rev = e.rev + 1 ELSE l.rev = e.rev /\ l.dirty = TRUE
      /\ Fresh(p) => Due(e, w)
  BY <1>1, RequestAfter
<1>4. observed'[id] = e.count + 1 /\ observed'[id] > 0
  BY <1>1, <1>2 DEF TypeInv, TypeOK
<1>5. /\ events \in Seq(Events)
      /\ \A m \in 1 .. Len(events) :
            \/ \E q \in Expired : open[q].dirty /\ events[m] = Event(open[q])
            \/ Due(e, w) /\ events[m] = Event(u)
      /\ Due(e, w) => \E m \in 1 .. Len(events) : events[m] = Event(u)
      /\ \A m, j \in 1 .. Len(events) : events[m].id = events[j].id => m = j
  BY <1>1, RequestGives
<1>7. PICK x : x = l
  OBVIOUS
<1>8. PICK own : own = id
  OBVIOUS
<1>6. Unused(own)' /\ open'[p] = x
  BY <1>1, <1>4, <1>7, <1>8 DEF Unused
<1>11. Held(x)' => Held(open[p])'
  BY <1>6, Zenon DEF Held, Upto, Spooled, Says, RevisionsOf
<1>9. CASE Due(e, w)
  <2>1. PICK m \in 1 .. Len(events) : events[m] = Event(u)
    BY <1>5, <1>9
  <2>2. \A j \in 1 .. Len(events) : events[j].id = own => j = m
    BY <1>3, <1>5, <1>8, <2>1
  <2>3. PICK n : n = e.rev
    OBVIOUS
  <2>4. own \in Ids /\ events[m].id = own /\ InOrder(own) /\ n \in Nat /\ Upto(own, n)
        /\ events[m].rev = n + 1
    BY <1>2, <1>3, <1>8, <2>1, <2>3
  <2>5. /\ InOrder(own)' /\ Upto(own, n + 1)'
        /\ own \in missed' \/ \E i \in RevisionsOf(own)' : Says(own, i)' /\ spool'[i] = events[m]
    <3>1. events \in Seq(Events)
      BY <1>5
    <3> QED BY <2>2, <2>4, <3>1, Told, ZenonT(30)
  <2>6. x.id = own /\ x.rev = n + 1 /\ observed'[own] = x.count
        /\ events[m].count = x.count /\ events[m].shutdown = x.shutdown
    BY <1>3, <1>4, <1>7, <1>8, <1>9, <2>1, <2>3
  <2>7. Spooled(x)'
    BY <2>5, <2>6, Zenon DEF Spooled
  <2>8. Held(x)'
    BY <2>5, <2>6, <2>7 DEF Held
  <2> QED BY <1>6, <1>8, <1>11, <2>5, <2>8
<1>10. CASE ~Due(e, w)
  <2>1. ~Fresh(p)
    BY <1>3, <1>10
  <2>2. p \in Openings \ Expired /\ e = open[p]
    BY <2>1, RequestBefore
  <2>3. \A m \in 1 .. Len(events) : events[m].id # own
    <3>1. \A q \in Expired : q \in Openings /\ open[q].id # id
      <4>1. \A q \in Expired : q \in Openings /\ q # p
        BY <2>2 DEF Expired
      <4> QED BY <1>1, <4>1, RequestOwn
    <3>2. \A q \in Openings : Event(open[q]).id = open[q].id
      BY HeldFacts, EventType DEF Sound
    <3> QED BY <1>5, <1>8, <1>10, <3>1, <3>2
  <2>4. PICK y : y = e
    OBVIOUS
  <2>5. Spooled(y) /\ y.id = own /\ own \in Ids /\ Upto(own, y.rev) /\ InOrder(own)
    BY <1>2, <1>8, <2>2, <2>4, HeldFacts DEF Sound
  <2>6. /\ missed' = missed \cup Lost(events, k)
        /\ own \in missed' <=> own \in missed
        /\ RevisionsOf(own)' = RevisionsOf(own)
        /\ \A i \in RevisionsOf(own) : spool'[i] = spool[i]
    BY <1>5, <2>3, <2>5, Silent DEF Wrote
  <2>7. InOrder(own)' /\ Upto(own, y.rev)'
    BY <2>5, <2>6 DEF InOrder, Upto
  <2>8. x.id = own /\ x.rev = y.rev /\ x.dirty = TRUE /\ observed'[own] = x.count
        /\ (x.shutdown => y.shutdown)
    <3>1. IsShutdown(e, w) => e.shutdown
      BY <1>10, NotDue
    <3>2. l.dirty = TRUE /\ l.rev = e.rev /\ l.id = id /\ observed'[id] = l.count
      BY <1>3, <1>4, <1>10
    <3>3. l.shutdown => e.shutdown
      BY <1>3, <3>1, Zenon
    <3> QED BY <1>7, <1>8, <2>4, <3>2, <3>3, Zenon
  <2>9. Spooled(x)'
    <3>1. CASE own \in missed
      BY <2>6, <2>8, <3>1 DEF Spooled
    <3>2. CASE own \notin missed
      <4>1. PICK i \in RevisionsOf(own) : Says(own, i) /\ (y.shutdown => spool[i].shutdown)
        BY <2>5, <3>2, Zenon DEF Spooled
      <4>2. i \in RevisionsOf(own)' /\ Says(own, i)' /\ spool'[i] = spool[i]
        BY <2>6, <4>1 DEF Says
      <4>3. x.shutdown => spool'[i].shutdown
        BY <2>8, <4>1, <4>2, Zenon
      <4> QED BY <2>8, <4>2, <4>3, Zenon DEF Spooled
    <3> QED BY <3>1, <3>2
  <2>10. Held(x)'
    BY <2>7, <2>8, <2>9, Zenon DEF Held
  <2> QED BY <1>6, <1>8, <1>11, <2>7, <2>10
<1> QED BY <1>9, <1>10

LEMMA RequestKeeps ==
    ASSUME TypeInv, Sound, NEW p \in Peers, NEW w \in Writes, Request(p, w)
    PROVE  Sound'
<1>1. /\ running = "up" /\ writes < MaxWrites
      /\ IF Fresh(p) THEN state' = [boot |-> boot, next |-> next + 1] ELSE UNCHANGED state
      /\ open'[p] = Left(p, w)
      /\ \A q \in Peers \ {p} : open'[q] = IF q \in Expired THEN Closed ELSE open[q]
      /\ observed' = [observed EXCEPT ![Was(p).id] = @ + 1]
      /\ boot' = boot
  BY RequestDoes
<1>2. PICK events \in Appends(p, w) : Emit(events)
  BY RequestDoes DEF Appends
<1>3. /\ events \in Seq(Events)
      /\ \A m \in 1 .. Len(events) :
            \/ \E q \in Expired : open[q].dirty /\ events[m] = Event(open[q])
            \/ Due(Was(p), w) /\ events[m] = Event(With(p, w))
      /\ \A q \in Expired :
            open[q].dirty => \E m \in 1 .. Len(events) : events[m] = Event(open[q])
      /\ \A m, l \in 1 .. Len(events) : events[m].id = events[l].id => m = l
  BY <1>1, RequestGives
<1>4. PICK k \in Nat : Wrote(events, k)
  BY <1>2, <1>3, EmitWrites
<1>5. PICK own : own = Was(p).id
  OBVIOUS
<1>6. /\ own \in Ids /\ Event(With(p, w)).id = own /\ Left(p, w).id = own
      /\ \A q \in Openings : q # p \/ Fresh(p) => open[q].id # own
  BY <1>1, <1>5, RequestOwn, RequestAfter
<1>7. Held(open[p])' /\ InOrder(own)' /\ Unused(own)'
  BY <1>4, <1>5, RequestHolds
<1>8. \A q \in Openings : open[q].id \in Ids /\ Event(open[q]).id = open[q].id
  BY HeldFacts, EventType DEF Sound
<1>9. /\ Expired \subseteq Openings
      /\ \A q \in Expired : open[q].id # own
      /\ \A q, r \in Openings : open[q].id = open[r].id => q = r
  <2>1. Expired \subseteq Openings /\ \A q \in Expired : q # p \/ Fresh(p)
    BY DEF Expired, Fresh
  <2>2. \A q, r \in Openings : open[q].id = open[r].id => q = r
    BY DEF Sound, Recorded, OneEach
  <2> QED BY <1>6, <2>1, <2>2
<1>10. \A id \in Ids \ {own} : observed'[id] = observed[id]
  BY <1>1, <1>5 DEF TypeInv, TypeOK
<1>11. /\ Openings' = (Openings \ Expired) \cup {p}
       /\ \A q \in Openings' \ {p} : q \in Openings \ Expired /\ open'[q] = open[q]
  BY RequestOpenings
<1>12. OneEach'
  <2> SUFFICES ASSUME NEW q \in Openings', NEW r \in Openings', open'[q].id = open'[r].id
               PROVE  q = r
    BY DEF OneEach
  <2>1. CASE q # p /\ r # p
    BY <1>9, <1>11, <2>1
  <2>2. CASE q = p \/ r = p
    BY <1>1, <1>6, <1>11, <2>2
  <2> QED BY <2>1, <2>2
<1>13. \A m \in 1 .. Len(events) : \A q \in Openings \ Expired :
           q # p => events[m].id # open[q].id
  BY <1>3, <1>6, <1>8, <1>9
<1>14. ASSUME NEW id \in Ids PROVE InOrder(id)' /\ Unused(id)' /\ Over(id)'
  <2>1. CASE id = own
    <3>1. p \in Peers /\ open'[p].id = own
      BY <1>1, <1>6
    <3>2. ~IsOver(id)'
      BY <2>1, <3>1 DEF IsOver
    <3> QED BY <1>7, <2>1, <3>2 DEF Over
  <2>2. CASE \E q \in Expired : open[q].id = id
    <3>1. PICK q \in Expired : open[q].id = id
      BY <2>2
    <3>2. id # own /\ q \in Openings /\ observed'[id] = observed[id]
      BY <1>9, <1>10, <3>1
    <3>3. open[q].dirty => \E m \in 1 .. Len(events) : events[m] = Event(open[q])
      BY <1>3, <3>1
    <3>4. \A m \in 1 .. Len(events) : events[m].id = id => open[q].dirty
      BY <1>3, <1>6, <1>8, <1>9, <3>1, <3>2
    <3> QED BY <1>3, <1>4, <3>1, <3>2, <3>3, <3>4, ClosedIsOver DEF Sound
  <2>3. CASE id # own /\ ~\E q \in Expired : open[q].id = id
    <3>1. \A m \in 1 .. Len(events) : events[m].id # id
      BY <1>3, <1>6, <1>8, <1>9, <2>3
    <3>2. IsOver(id)' => IsOver(id)
      <4> SUFFICES ASSUME NEW q \in Peers, open[q].id = id PROVE open'[q].id = id
        BY DEF IsOver
      <4>1. q \in Openings /\ q \notin Expired
        BY <2>3, ClosedId DEF Openings, IsOpen
      <4>2. q # p
        <5> SUFFICES ASSUME q = p PROVE FALSE
          OBVIOUS
        <5>1. ~Fresh(p)
          BY <4>1 DEF Fresh, Openings
        <5>2. Was(p) = open[p]
          BY <5>1, RequestBefore
        <5> QED BY <1>5, <2>3, <5>2
      <4> QED BY <1>1, <4>1, <4>2
    <3>3. InOrder(id) /\ Unused(id) /\ Over(id) /\ observed'[id] = observed[id]
      BY <1>10, <2>3 DEF Sound, Recorded
    <3> QED BY <1>3, <1>4, <3>1, <3>2, <3>3, SilentKeeps
  <2> QED BY <2>1, <2>2, <2>3
<1>15. ASSUME NEW q \in Openings', q # p PROVE Held(open[q])'
  <2>1. PICK e : e = open[q]
    OBVIOUS
  <2>2. q \in Openings \ Expired /\ open'[q] = e
    BY <1>11, <1>15, <2>1
  <2>3. Held(e) /\ e.id \in Ids /\ e.id # own /\ observed'[e.id] = observed[e.id]
    BY <1>6, <1>8, <1>10, <1>15, <2>1, <2>2 DEF Sound, Recorded
  <2>4. \A m \in 1 .. Len(events) : events[m].id # e.id
    BY <1>13, <1>15, <2>1, <2>2
  <2>5. Held(e)'
    BY <1>3, <1>4, <2>3, <2>4, SilentKeeps
  <2> QED BY <2>2, <2>5, Zenon DEF Held, Upto, Spooled, Says, RevisionsOf
<1>16. ASSUME NEW id \in Ids PROVE Allocated(id)'
  <2>1. Allocated(id) /\ state.boot = boot /\ state.next <= next /\ id[2] \in Nat
    BY <1>1, EndpointAssumption DEF Sound, Allocations, TypeInv, Process, Ids, Numbers
  <2>2. CASE id = own
    <3>1. CASE Fresh(p)
      <4>1. id[1] = boot /\ id[2] = next
        <5>1. id = <<boot, next>>
          BY <1>5, <2>2, <3>1, RequestBefore
        <5> QED BY <5>1
      <4>2. state'.boot = boot /\ state'.next = next + 1
        BY <1>1, <3>1
      <4> QED BY <1>1, <4>1, <4>2, Amounts DEF Allocated
    <3>2. CASE ~Fresh(p)
      <4>1. p \in Openings /\ Was(p) = open[p]
        BY <3>2, RequestBefore
      <4>2. observed[id] > 0
        BY <1>5, <2>2, <4>1, HeldFacts DEF Sound
      <4> QED BY <1>1, <2>1, <3>2, <4>2 DEF Allocated
    <3> QED BY <3>1, <3>2
  <2>3. CASE id # own
    <3>1. observed'[id] = observed[id]
      BY <1>10, <2>3
    <3>2. CASE Fresh(p)
      <4>1. state'.boot = boot /\ state'.next = next + 1
        BY <1>1, <3>2
      <4>2. \A n \in Nat : n < state.next => n < next + 1
        BY <2>1, Amounts
      <4> QED BY <1>1, <2>1, <3>1, <4>1, <4>2 DEF Allocated
    <3>3. CASE ~Fresh(p)
      BY <1>1, <2>1, <3>1, <3>3 DEF Allocated
    <3> QED BY <3>2, <3>3
  <2> QED BY <2>2, <2>3
<1>17. Recorded'
  <2>1. \A q \in Openings' : Held(open[q])'
    BY <1>7, <1>15
  <2> QED BY <1>12, <1>14, <2>1 DEF Recorded
<1> QED BY <1>16, <1>17 DEF Sound, Allocations

(***************************************************************************)
(* The theorems.                                                            *)
(***************************************************************************)

\* All of it, until the sender resets a sequence in use.
IInv == TypeInv /\ Shows /\ (clobbered \/ Sound)

LEMMA SoundInit == Init => Sound
<1> SUFFICES ASSUME Init PROVE Sound
  OBVIOUS
<1>1. Openings = {} /\ \A id : RevisionsOf(id) = {}
  BY DEF Init, Openings, IsOpen, RevisionsOf
<1>2. \A id \in Ids : ~(observed[id] > 0)
  BY DEF Init
<1> QED BY <1>1, <1>2 DEF Sound, Recorded, Allocations, OneEach, InOrder, Unused, Over, Allocated

LEMMA SoundStep == IInv /\ [Next]_vars => IInv'
<1> SUFFICES ASSUME TypeInv, Shows, Sound, ~clobbered', [Next]_vars PROVE Sound'
  <2>1. IInv /\ [Next]_vars => TypeInv' /\ Shows'
    BY TypesStep DEF IInv
  <2>2. clobbered /\ [Next]_vars => clobbered'
    BY Zenon DEF Next, Request, AllocationFails, Disconnect, Tick, FlushExpired, Die, Stop, Start,
                 Reboot, SenderLoads, SenderSaves, vars, ghost
  <2> QED BY <2>1, <2>2, Zenon DEF IInv
<1>1. ASSUME NEW p \in Peers, NEW w \in Writes, Request(p, w) PROVE Sound'
  BY <1>1, RequestKeeps
<1>2. ASSUME NEW p \in Peers, AllocationFails(p) PROVE Sound'
  BY <1>2, AllocationKeeps
<1>3. ASSUME NEW P, NEW finals, NEW k, Closing(P, finals, k) PROVE Sound'
  <2>1. Recorded'
    BY <1>3, ClosingKeeps DEF Sound
  <2>2. UNCHANGED <<boot, state, observed>>
    BY <1>3 DEF Closing
  <2> QED BY <2>1, <2>2 DEF Sound, Allocations, Allocated
<1>4. ASSUME NEW p \in Peers, Disconnect(p) PROVE Sound'
  BY <1>3, <1>4, DisconnectCloses
<1>5. CASE FlushExpired \/ Stop
  BY <1>3, <1>5, FlushCloses, StopCloses
<1>6. CASE Die
  BY <1>6, DieKeeps
<1>7. CASE Tick \/ Start \/ Reboot \/ SenderLoads \/ SenderSaves \/ UNCHANGED vars
  <2>1. UNCHANGED <<open, spool, observed, missed>>
    BY <1>7 DEF Tick, Start, Reboot, SenderLoads, SenderSaves, vars, agent, disk, ghost
  <2>2. UNCHANGED <<boot, state>> \/ Start \/ Reboot \/ SenderSaves
    BY <1>7 DEF Tick, SenderLoads, vars, disk
  <2> QED BY <2>1, <2>2, StillKeeps
<1> QED BY <1>1, <1>2, <1>4, <1>5, <1>6, <1>7, Zenon DEF Next

LEMMA Inductive == Spec => []IInv
<1>1. Init => IInv
  BY TypesInit, SoundInit DEF IInv
<1> QED BY <1>1, SoundStep, PTL DEF Spec

\* Whatever fails, dies or restarts, an episode that is over is on the spool with all its writes,
\* unless a failure that the agent saw or a death took one of its revisions.
THEOREM SpoolTheorem == Spec => []SpoolAccounted
<1>1. IInv => SpoolAccounted
  BY DEF IInv, TypeInv, Sound, Recorded, Over, IsOver, Counted, SpoolAccounted, Accounted
<1> QED BY <1>1, Inductive, PTL

\* The revisions of an episode are on the spool in their order and once each, over restarts and
\* reboots, as long as the sender does not reset a sequence in use.
THEOREM RevisionsTheorem == Spec => []RevisionsIncrease
<1>1. IInv => RevisionsIncrease
  BY DEF IInv, Sound, Recorded, InOrder, RevisionsIncrease
<1> QED BY <1>1, Inductive, PTL

\* A shutdown sequence is in the last revision spooled of its episode, whatever the interval of
\* the aggregation.
THEOREM ShutdownTheorem == Spec => []ShutdownSpooled
<1>1. IInv => ShutdownSpooled
  <2> SUFFICES ASSUME TypeInv, Sound, NEW p \in Openings, open[p].shutdown,
                      open[p].id \notin missed
               PROVE  \E i \in RevisionsOf(open[p].id) :
                         spool[i].shutdown /\ \A j \in RevisionsOf(open[p].id) : j <= i
    BY Zenon DEF IInv, ShutdownSpooled
  <2>1. Spooled(open[p])
    BY HeldFacts DEF Sound
  <2> QED BY <2>1, Zenon DEF Spooled, Says
<1> QED BY <1>1, Inductive, PTL

=============================================================================
