------------------------- MODULE RemotePublishProofs --------------------------
(***************************************************************************)
(* Proofs about RemotePublish, for any publishers, targets, retention and   *)
(* faults: the lock directory excludes, no manifest dangles, and what is    *)
(* reported as committed is current.  With the live_sync loop as the only   *)
(* publisher: a target has had what was approved up to its `current`, but   *)
(* for what the local retention removed first, and its pointers never go    *)
(* back.                                                                    *)
(***************************************************************************)
EXTENDS RemotePublish, FiniteSetTheorems, TLAPS

\* What a publisher may write on a target is a target again.
LEMMA SiteTypes ==
    ASSUME NEW site \in Sites, NEW s \in Snapshots \cup {None}, NEW q \in Pointers,
           NEW b \in BOOLEAN
    PROVE  /\ s # None => [site EXCEPT !.objects = @ \cup {s}] \in Sites
           /\ s # None => [site EXCEPT !.archives = @ \cup {s}] \in Sites
           /\ [site EXCEPT !.objects = @ \ {s}] \in Sites
           /\ [site EXCEPT !.archives = @ \ {s}] \in Sites
           /\ [site EXCEPT !.pointer[q] = s] \in Sites
           /\ [site EXCEPT !.temporary = b] \in Sites
           /\ [site EXCEPT !.locked = b] \in Sites
<1>1. [site.pointer EXCEPT ![q] = s] \in Pointed
  BY DEF Sites, Pointed
<1> QED BY <1>1 DEF Sites

LEMMA TypeInit == Init => TypeOK
<1> SUFFICES ASSUME Init PROVE TypeOK
  OBVIOUS
<1>1. Unpublished \in Pointed
  BY DEF Unpublished, Pointed
<1>2. Nothing \in Readings
  BY <1>1 DEF Nothing, Readings
<1>3. remote \in [Targets -> Sites]
  BY <1>1 DEF Init, Sites
<1>4. pc \in [Publishers -> steps] /\ outcome \in [Publishers -> Outcomes]
  BY DEF Init, steps, Outcomes
<1>5. at \in [Publishers -> Targets] /\ local \in Stores /\ faults \in 0 .. MaxFaults
  BY PublishAssumption DEF Init, Targets, Stores, None
<1> QED BY <1>2, <1>3, <1>4, <1>5 DEF Init, TypeOK, None

LEMMA BecomeTypes ==
    ASSUME TypeOK, NEW p \in Publishers, NEW site \in Sites, Become(p, site)
    PROVE  remote' \in [Targets -> Sites]
  BY DEF TypeOK, Become

\* Pruning leaves a store a store: its pointers stand, and none of its newest archives goes.
LEMMA TrimmedStore ==
    ASSUME NEW store \in Stores, NEW new \in Trimmed(store)
    PROVE  /\ new \in Stores /\ new.current = store.current /\ new.good = store.good
           /\ new.archives \subseteq store.archives
           /\ \A s \in store.archives : store.current < s + LocalRetention => s \in new.archives
<1>1. PICK gone \in SUBSET Doomed(store) : new = [store EXCEPT !.archives = @ \ gone]
  BY DEF Trimmed
<1>2. \A s \in store.archives : store.current < s + LocalRetention => s \notin gone
  BY PublishAssumption DEF Doomed, Stores, Snapshots, None
<1> QED BY <1>1, <1>2 DEF Stores

\* A collection adds the snapshot after `current` to the local store.
LEMMA Collected ==
    ASSUME TypeOK, NEW p \in Publishers, Collect(p)
    PROVE  /\ local.current \in Nat /\ local' \in Stores
           /\ local'.current = local.current + 1 /\ local'.current \in Snapshots
           /\ \E k \in Kinds : kind' = [kind EXCEPT ![local'.current] = k]
           /\ local'.archives \subseteq local.archives \cup {local'.current}
           /\ \A s \in local.archives \cup {local'.current} :
                local'.current < s + LocalRetention => s \in local'.archives
<1> DEFINE new == local.current + 1
<1>1. PICK k \in Kinds :
        LET store == [current  |-> new,
                      good     |-> IF k.fresh \/ local.good = None THEN new ELSE local.good,
                      archives |-> local.archives \cup {new}]
        IN kind' = [kind EXCEPT ![new] = k] /\ local' \in Trimmed(store)
  BY DEF Collect
<1> DEFINE store == [current  |-> new,
                     good     |-> IF k.fresh \/ local.good = None THEN new ELSE local.good,
                     archives |-> local.archives \cup {new}]
<1>2. /\ local.current \in Nat /\ new \in Snapshots
      /\ local.good \in Snapshots \cup {None} /\ local.archives \in SUBSET Snapshots
  BY PublishAssumption DEF Collect, TypeOK, Stores, Snapshots, None
<1>3. store \in Stores /\ store.current = new /\ store.archives = local.archives \cup {new}
  <2> HIDE DEF new
  <2> QED BY <1>2 DEF Stores
<1>4. /\ local' \in Stores /\ local'.current = new
      /\ local'.archives \subseteq local.archives \cup {new}
      /\ \A s \in local.archives \cup {new} : new < s + LocalRetention => s \in local'.archives
  <2>1. local' \in Trimmed(store)
    BY <1>1
  <2> HIDE DEF store, new
  <2> QED BY <1>3, <2>1, TrimmedStore
<1> QED BY <1>1, <1>2, <1>4

\* The three ways in which a step of a publisher ends badly keep the types.
LEMMA GiveUpTypes ==
    ASSUME TypeOK, NEW p \in Publishers, NEW result \in Outcomes, GiveUp(p, result),
           remote' \in [Targets -> Sites], faults' \in 0 .. MaxFaults
    PROVE  TypeOK'
  BY DEF TypeOK, GiveUp, Goto, steps, critical

LEMMA LostTypes ==
    ASSUME TypeOK, NEW p \in Publishers, NEW result \in Outcomes, Lost(p, result),
           remote' \in [Targets -> Sites]
    PROVE  TypeOK'
  BY PublishAssumption, GiveUpTypes DEF TypeOK, Lost

LEMMA ReportTypes ==
    ASSUME TypeOK, NEW p \in Publishers, NEW result \in Outcomes, Report(p, result),
           remote' \in [Targets -> Sites], faults' \in 0 .. MaxFaults
    PROVE  TypeOK'
  BY DEF TypeOK, Report, Goto, steps

LEMMA UploadTypes ==
    ASSUME TypeOK, NEW p \in Publishers, NEW result \in Outcomes, NEW site \in Sites,
           Upload(p, site, result) \/ Command(p, site, result)
    PROVE  TypeOK'
<1>1. Site(p) \in Sites
  BY DEF TypeOK, Site
<1>2. [Site(p) EXCEPT !.temporary = TRUE] \in Sites
  BY <1>1, SiteTypes DEF Sites
<1>3. Lost(p, result) /\ remote' \in [Targets -> Sites]
  BY <1>2, BecomeTypes DEF TypeOK, Upload, Command
<1> QED BY <1>3, LostTypes

\* Every step of every process keeps the types.
LEMMA TypeStep == TypeOK /\ [Next]_vars => TypeOK'
<1> SUFFICES ASSUME TypeOK, [Next]_vars PROVE TypeOK'
  OBVIOUS
<1>0. /\ Unpublished \in Pointed
      /\ Nothing \in Readings
  BY DEF Unpublished, Pointed, Nothing, Readings
<1>o. /\ "published" \in Outcomes /\ "committed" \in Outcomes
      /\ "unknown" \in Outcomes /\ "not_committed" \in Outcomes
  BY DEF Outcomes
<1> USE PublishAssumption
<1>1. CASE BeginLive
  <2>1. local.current \in Snapshots /\ Batch \in SUBSET Snapshots
    BY <1>1 DEF BeginLive, TypeOK, Approved, Batch, Stores, Snapshots, None
  <2> QED BY <1>1, <2>1 DEF BeginLive, Begin, TypeOK, Goto, steps, Targets, Publishers
<1>2. ASSUME NEW p \in Manuals, BeginManual(p) PROVE TypeOK'
  <2>1. local.current \in Snapshots
    BY <1>2 DEF BeginManual, TypeOK, Stores
  <2> QED BY <1>2, <2>1 DEF BeginManual, Begin, TypeOK, Goto, steps, Publishers
<1>3. ASSUME NEW p \in Publishers, Collect(p) PROVE TypeOK'
  <2>1. local' \in Stores /\ \E k \in Kinds, s \in Snapshots : kind' = [kind EXCEPT ![s] = k]
    BY <1>3, Collected
  <2> QED BY <1>3, <2>1 DEF Collect, TypeOK, process
<1>4. ASSUME NEW p \in Publishers, Publish(p) PROVE TypeOK'
  <2>0. Site(p) \in Sites /\ at[p] \in Targets /\ want[p] \in Snapshots \cup {None}
    BY DEF TypeOK, Site
  <2>1. CASE Check(p)
    BY <2>1, <1>o, ReportTypes DEF Check, Advance, TypeOK, Goto, steps
  <2>2. CASE Lock(p)
    <3>1. [Site(p) EXCEPT !.locked = TRUE] \in Sites
      BY <2>0 DEF Sites
    <3>2. [Nothing EXCEPT !.pointer = Site(p).pointer] \in Readings
      BY <1>0, <2>0 DEF Readings, Sites
    <3>3. remote' \in [Targets -> Sites] /\ faults' \in 0 .. MaxFaults
      BY <2>2, <3>1, BecomeTypes DEF Lock, TypeOK
    <3>4. CASE Report(p, "not_committed")
      BY <3>3, <3>4, <1>o, ReportTypes
    <3> QED BY <2>2, <3>2, <3>3, <3>4 DEF Lock, TypeOK, Goto, steps, critical
  <2>3. CASE Presence(p)
    <3>1. CASE Lost(p, "not_committed") /\ UNCHANGED remote
      BY <3>1, <1>o, LostTypes DEF TypeOK
    <3>2. Present(p) \in Readings
      BY <2>0 DEF TypeOK, Readings, Sites, Present
    <3> QED BY <2>3, <3>1, <3>2 DEF Presence, TypeOK, Goto, steps, critical
  <2>4. CASE UploadObject(p)
    <3> PICK s \in Snapshots :
          LET site == [Site(p) EXCEPT !.objects = @ \cup {s}] IN
          \/ /\ Become(p, site)
             /\ seen' = [seen EXCEPT ![p].objects = @ \cup {s}]
             /\ UNCHANGED <<local, kind, pc, at, want, batch, queue, outcome, faults>>
          \/ Upload(p, site, "not_committed")
          \/ GiveUp(p, "not_committed") /\ UNCHANGED <<remote, faults>>
      BY <2>4 DEF UploadObject
    <3>1. [Site(p) EXCEPT !.objects = @ \cup {s}] \in Sites
      BY <2>0 DEF Sites
    <3>2. [seen[p] EXCEPT !.objects = @ \cup {s}] \in Readings
      BY DEF TypeOK, Readings
    <3> QED BY <3>1, <3>2, <1>o, UploadTypes, BecomeTypes, GiveUpTypes DEF TypeOK
  <2>5. CASE UploadArchive(p)
    <3> PICK s \in Snapshots :
          LET site == [Site(p) EXCEPT !.archives = @ \cup {s}] IN
          \/ /\ Become(p, site)
             /\ queue' = [queue EXCEPT ![p] = @ \ {s}]
             /\ UNCHANGED <<local, kind, pc, at, want, batch, seen, outcome, faults>>
          \/ Upload(p, site, "not_committed")
      BY <2>5 DEF UploadArchive
    <3>1. [Site(p) EXCEPT !.archives = @ \cup {s}] \in Sites
      BY <2>0 DEF Sites
    <3> QED BY <3>1, <1>o, UploadTypes, BecomeTypes DEF TypeOK
  <2>6. CASE Uploaded(p)
    BY <2>6, <1>o, LostTypes DEF Uploaded, Advance, TypeOK, Goto, steps, critical
  <2>7. CASE Previous(p)
    <3>1. Site(p).pointer["current"] \in Snapshots \cup {None}
      BY <2>0 DEF Sites, Pointed, Pointers
    <3>2. Repoint(p, "previous", Site(p).pointer["current"]) \in Sites
      BY <3>1, <2>0, SiteTypes DEF Repoint, Pointers
    <3> QED BY <2>7, <3>2, <1>o, UploadTypes, BecomeTypes
            DEF Previous, Advance, TypeOK, Goto, steps, critical
  <2>8. CASE Lkg(p)
    <3>1. Repoint(p, "last_known_good", want[p]) \in Sites
      BY <2>0, SiteTypes DEF Repoint, Pointers
    <3> QED BY <2>8, <3>1, <1>o, UploadTypes, BecomeTypes
            DEF Lkg, Advance, TypeOK, Goto, steps, critical
  <2>9. CASE Current(p)
    <3>1. Repoint(p, "current", want[p]) \in Sites
      BY <2>0, SiteTypes DEF Repoint, Pointers
    <3> QED BY <2>9, <3>1, <1>o, UploadTypes, BecomeTypes
            DEF Current, Advance, TypeOK, Goto, steps, critical
  <2>10. CASE Verify(p)
    BY <2>10, <1>o, LostTypes DEF Verify, Advance, TypeOK, Goto, steps, critical
  <2>11. CASE Inventory(p)
    <3>1. CASE Lost(p, "committed") /\ UNCHANGED remote
      BY <3>1, <1>o, LostTypes DEF TypeOK
    <3>2. CASE GiveUp(p, "committed") /\ UNCHANGED <<remote, faults>>
      BY <3>2, <1>o, GiveUpTypes DEF TypeOK
    <3>3. [objects |-> Site(p).objects, archives |-> Site(p).archives,
           pointer |-> Site(p).pointer] \in Readings
      BY <2>0 DEF Sites, Readings
    <3>4. Site(p).archives \ Kept(Site(p)) \in SUBSET Snapshots
      BY <2>0 DEF Sites
    <3> QED BY <2>11, <3>1, <3>2, <3>3, <3>4 DEF Inventory, TypeOK, Goto, steps, critical
  <2>12. CASE PruneArchive(p)
    <3> PICK s \in queue[p] :
          LET site == [Site(p) EXCEPT !.archives = @ \ {s}] IN
          \/ /\ Become(p, site)
             /\ queue' = [queue EXCEPT ![p] = @ \ {s}]
             /\ UNCHANGED <<local, kind, pc, at, want, batch, seen, outcome, faults>>
          \/ Command(p, site, "committed")
      BY <2>12 DEF PruneArchive
    <3>1. [Site(p) EXCEPT !.archives = @ \ {s}] \in Sites
      BY <2>0 DEF Sites
    <3> QED BY <3>1, <1>o, UploadTypes, BecomeTypes DEF TypeOK
  <2>13. CASE Recheck(p)
    <3>1. CASE Lost(p, "committed") /\ UNCHANGED remote
      BY <3>1, <1>o, LostTypes DEF TypeOK
    <3>2. seen[p].objects \ Kept(seen[p]) \in SUBSET Snapshots
      BY DEF TypeOK, Readings
    <3> QED BY <2>13, <3>1, <3>2 DEF Recheck, TypeOK, Goto, steps, critical
  <2>14. CASE PruneObject(p)
    <3> PICK s \in queue[p] :
          LET site == [Site(p) EXCEPT !.objects = @ \ {s}] IN
          \/ /\ Become(p, site)
             /\ queue' = [queue EXCEPT ![p] = @ \ {s}]
             /\ UNCHANGED <<local, kind, pc, at, want, batch, seen, outcome, faults>>
          \/ Command(p, site, "committed")
      BY <2>14 DEF PruneObject
    <3>1. [Site(p) EXCEPT !.objects = @ \ {s}] \in Sites
      BY <2>0 DEF Sites
    <3> QED BY <3>1, <1>o, UploadTypes, BecomeTypes DEF TypeOK
  <2>15. CASE Pruned(p)
    BY <2>15 DEF Pruned, TypeOK, Goto, steps, critical
  <2>16. CASE Release(p)
    <3>1. [Site(p) EXCEPT !.locked = FALSE] \in Sites
      BY <2>0 DEF Sites
    <3>2. remote' \in [Targets -> Sites]
      BY <2>16, <3>1, BecomeTypes DEF Release, TypeOK
    <3>3. outcome' \in [Publishers -> Outcomes] /\ faults' \in 0 .. MaxFaults
      BY <2>16, <1>o DEF Release, TypeOK
    <3> QED BY <2>16, <3>2, <3>3 DEF Release, TypeOK, Goto, steps
  <2>17. CASE NextTarget(p)
    <3>1. CASE Forget(p)
      <4>1. local' \in Trimmed(local) \/ local' = local
        BY <2>17, <3>1 DEF NextTarget
      <4>2. local' \in Stores
        BY <4>1, TrimmedStore DEF TypeOK
      <4> QED BY <2>17, <3>1, <4>2, <1>0, <1>o DEF NextTarget, Forget, TypeOK, Goto, steps, Targets
    <3>2. CASE ~Forget(p)
      <4>1. at[p] + 1 \in Targets
        BY <2>17, <2>0, <3>2 DEF NextTarget, Targets
      <4> QED BY <2>17, <3>2, <4>1, <1>0 DEF NextTarget, TypeOK, Goto, steps
    <3> QED BY <2>17, <3>1, <3>2 DEF NextTarget
  <2> QED BY <1>4, <2>1, <2>2, <2>3, <2>4, <2>5, <2>6, <2>7, <2>8, <2>9, <2>10, <2>11,
             <2>12, <2>13, <2>14, <2>15, <2>16, <2>17 DEF Publish
<1>5. ASSUME NEW p \in Publishers, Crash(p) PROVE TypeOK'
  BY <1>5, <1>0, <1>o DEF Crash, Forget, TypeOK, Goto, steps, Targets
<1>6. CASE UNCHANGED vars
  BY <1>6 DEF vars, process, TypeOK
<1> QED BY <1>1, <1>2, <1>3, <1>4, <1>5, <1>6 DEF Next, Publishers

\* The types hold for any publishers, targets and bounds.
THEOREM TypeCorrect == Spec => []TypeOK
<1> QED BY TypeInit, TypeStep, PTL DEF Spec

-----------------------------------------------------------------------------
(* Exclusion and resolution, together.                                      *)

\* What a publisher relies on: the lock it holds, the snapshot it will point to, the
\* objects it has seen, and that no manifest needs what it is about to remove.
Own(p) ==
    /\ pc[p] \in critical => Site(p).locked
    /\ pc[p] # "idle" => want[p] \in 1 .. local.current /\ want[p] \in batch[p]
    /\ (p = Live /\ pc[p] # "idle") => kind[want[p]].approved
    /\ pc[p] \in {"check", "lock", "presence"} => want[p] \in queue[p]
    /\ pc[p] = "upload" => /\ want[p] \in queue[p] \cup Site(p).objects
                           /\ seen[p].objects \subseteq Site(p).objects
    /\ pc[p] \in {"previous", "lkg", "current"} => want[p] \in Site(p).objects
    /\ pc[p] = "prune_objects" =>
         \A s \in queue[p] : /\ s \notin Site(p).archives
                             /\ \A q \in Pointers : s # Site(p).pointer[q]

Resolves(site) ==
    /\ site.archives \subseteq site.objects
    /\ \A q \in Pointers : site.pointer[q] # None => site.pointer[q] \in site.objects

SafeInv ==
    /\ \A p \in Publishers : Own(p)
    /\ OnePublisher
    /\ \A t \in Targets : Resolves(remote[t])

LEMMA SafeInit == Init => SafeInv
  BY DEF Init, SafeInv, Own, OnePublisher, Resolves, critical, Unpublished, Site, None

\* A step of a publisher that holds the lock of its target, and keeps it.
LEMMA InsideSafe ==
    ASSUME TypeOK, TypeOK', SafeInv, NEW p \in Publishers, NEW x \in critical,
           pc[p] \in critical, Goto(p, x),
           UNCHANGED <<local, kind, at, want, batch>>,
           \A t \in Targets \ {at[p]} : remote'[t] = remote[t],
           \A q \in Publishers \ {p} : queue'[q] = queue[q] /\ seen'[q] = seen[q],
           Resolves(Site(p)'), Own(p)'
    PROVE  SafeInv'
<1>1. /\ \A q \in Publishers \ {p} : pc'[q] = pc[q] /\ pc'[p] = x
      /\ \A q \in Publishers : at[q] \in Targets
  BY DEF TypeOK, Goto
<1>2. OnePublisher'
  BY <1>1 DEF SafeInv, OnePublisher
<1>3. ASSUME NEW t \in Targets PROVE Resolves(remote[t])'
  <2>1. CASE t = at[p]
    BY <2>1 DEF Site
  <2>2. CASE t # at[p]
    BY <2>2 DEF SafeInv, Resolves
  <2> QED BY <2>1, <2>2
<1>4. ASSUME NEW q \in Publishers PROVE Own(q)'
  <2>1. CASE q # p /\ pc[q] \in critical
    <3>1. at[q] \in Targets \ {at[p]}
      BY <2>1, <1>1 DEF SafeInv, OnePublisher
    <3>2. Site(q)' = Site(q)
      BY <3>1 DEF Site
    <3> QED BY <2>1, <1>1, <3>2 DEF SafeInv, Own
  <2>2. CASE q # p /\ pc[q] \notin critical
    BY <2>2, <1>1 DEF SafeInv, Own, critical
  <2> QED BY <2>1, <2>2
<1> QED BY <1>2, <1>3, <1>4 DEF SafeInv

\* A step after which the publisher holds no lock, and that changes no target.
LEMMA OutsideSafe ==
    ASSUME TypeOK, TypeOK', SafeInv, NEW p \in Publishers, NEW x \in steps \ critical,
           Goto(p, x), UNCHANGED <<kind, remote>>, local'.current = local.current,
           \A q \in Publishers \ {p} :
             /\ at'[q] = at[q] /\ want'[q] = want[q] /\ batch'[q] = batch[q]
             /\ queue'[q] = queue[q] /\ seen'[q] = seen[q],
           Own(p)'
    PROVE  SafeInv'
<1>1. \A q \in Publishers \ {p} : pc'[q] = pc[q] /\ Site(q)' = Site(q)
  BY DEF TypeOK, Goto, Site
<1>2. pc'[p] = x
  BY DEF TypeOK, Goto
<1>3. OnePublisher'
  BY <1>1, <1>2 DEF SafeInv, OnePublisher
<1>4. \A q \in Publishers \ {p} : Own(q)'
  BY <1>1 DEF SafeInv, Own
<1> QED BY <1>3, <1>4 DEF SafeInv, Resolves

\* A failure leads to the release of the lock.
LEMMA GiveUpSafe ==
    ASSUME TypeOK, TypeOK', SafeInv, NEW p \in Publishers, NEW result,
           pc[p] \in critical, GiveUp(p, result),
           \/ UNCHANGED remote
           \/ \E site \in Sites : Become(p, site) /\ site.locked /\ Resolves(site)
    PROVE  SafeInv'
<1>1. at[p] \in Targets /\ Site(p).locked /\ Resolves(Site(p))
  BY DEF SafeInv, Own, TypeOK, Site
<1>2. Site(p)' \in Sites /\ Site(p)'.locked /\ Resolves(Site(p)')
  <2>1. CASE UNCHANGED remote
    BY <1>1, <2>1 DEF GiveUp, Site, TypeOK
  <2>2. CASE \E site \in Sites : Become(p, site) /\ site.locked /\ Resolves(site)
    BY <1>1, <2>2 DEF GiveUp, Site, TypeOK, Become
  <2> QED BY <2>1, <2>2
<1>3. \A t \in Targets \ {at[p]} : remote'[t] = remote[t]
  BY DEF Become, TypeOK
<1>4. Own(p)'
  <2>1. pc'[p] = "release"
    BY DEF GiveUp, Goto, TypeOK
  <2> QED BY <1>2, <2>1 DEF SafeInv, Own, GiveUp, critical
<1> QED BY <1>2, <1>3, <1>4, InsideSafe DEF GiveUp, critical

LEMMA LostSafe ==
    ASSUME TypeOK, TypeOK', SafeInv, NEW p \in Publishers, NEW result,
           pc[p] \in critical, Lost(p, result),
           \/ UNCHANGED remote
           \/ \E site \in Sites : Become(p, site) /\ site.locked /\ Resolves(site)
    PROVE  SafeInv'
  BY GiveUpSafe DEF Lost

LEMMA UploadSafe ==
    ASSUME TypeOK, TypeOK', SafeInv, NEW p \in Publishers, NEW result, NEW site \in Sites,
           pc[p] \in critical, Upload(p, site, result) \/ Command(p, site, result),
           site.locked, Resolves(site)
    PROVE  SafeInv'
<1>1. Site(p) \in Sites /\ Site(p).locked /\ Resolves(Site(p))
  BY DEF SafeInv, Own, TypeOK, Site
<1>2. LET littered == [Site(p) EXCEPT !.temporary = TRUE] IN
      littered \in Sites /\ littered.locked /\ Resolves(littered)
  BY <1>1, SiteTypes DEF Sites, Resolves
<1> QED BY <1>2, LostSafe DEF Upload, Command

LEMMA BecomeSafe ==
    ASSUME TypeOK, TypeOK', SafeInv, NEW p \in Publishers, NEW x \in critical,
           NEW site \in Sites, pc[p] \in critical, Become(p, site), Resolves(site),
           Goto(p, x), UNCHANGED <<local, kind, at, want, batch>>,
           \A q \in Publishers \ {p} : queue'[q] = queue[q] /\ seen'[q] = seen[q],
           Own(p)'
    PROVE  SafeInv'
<1>1. Site(p)' = site
  BY DEF Become, Site, TypeOK
<1>2. \A t \in Targets \ {at[p]} : remote'[t] = remote[t]
  BY DEF Become, TypeOK
<1> QED BY <1>1, <1>2, InsideSafe

\* Every step of every process keeps the invariant.
LEMMA SafeStep == TypeOK /\ TypeOK' /\ SafeInv /\ [Next]_vars => SafeInv'
<1> SUFFICES ASSUME TypeOK, TypeOK', SafeInv, [Next]_vars PROVE SafeInv'
  OBVIOUS
<1>1. CASE BeginLive
  <2>1. Own(Live)'
    BY <1>1 DEF BeginLive, Begin, Batch, Own, TypeOK, Goto, critical, Approved, Publishers
  <2> QED BY <1>1, <2>1, OutsideSafe DEF BeginLive, Begin, TypeOK, Publishers, steps, critical
<1>2. ASSUME NEW p \in Manuals, BeginManual(p) PROVE SafeInv'
  <2>1. Own(p)'
    BY <1>2, PublishAssumption
    DEF BeginManual, Begin, Own, TypeOK, Stores, Snapshots, Goto, critical, Publishers, None
  <2> QED BY <1>2, <2>1, OutsideSafe DEF BeginManual, Begin, TypeOK, Publishers, steps, critical
<1>3. ASSUME NEW p \in Publishers, Collect(p) PROVE SafeInv'
  <2>1. \A q \in Publishers : Site(q)' = Site(q)
    BY <1>3 DEF Collect, Site, process
  <2>2. \A s \in 1 .. local.current : kind'[s] = kind[s] /\ s \in 1 .. local'.current
    <3>1. local.current \in Nat /\ local'.current = local.current + 1
      BY <1>3, Collected
    <3>2. PICK k \in Kinds : kind' = [kind EXCEPT ![local'.current] = k]
      BY <1>3, Collected
    <3>3. \A s \in Snapshots \ {local'.current} : kind'[s] = kind[s]
      BY <3>2 DEF TypeOK
    <3>4. local'.current \in Snapshots
      BY <1>3, Collected
    <3>5. \A s \in 1 .. local.current : s \in Snapshots \ {local'.current}
      BY <3>1, <3>4, PublishAssumption DEF Snapshots
    <3> QED BY <3>1, <3>3, <3>5
  <2>3. \A q \in Publishers : Own(q)'
    BY <1>3, <2>1, <2>2 DEF Collect, SafeInv, Own, process
  <2> QED BY <1>3, <2>3 DEF Collect, SafeInv, OnePublisher, Resolves, process
<1>4. ASSUME NEW p \in Publishers, Publish(p) PROVE SafeInv'
  <2>0. /\ Site(p) \in Sites /\ at[p] \in Targets /\ want[p] \in Snapshots \cup {None}
        /\ Resolves(Site(p)) /\ Own(p)
        /\ pc[p] \in critical => Site(p).locked
    BY DEF TypeOK, Site, SafeInv, Own
  <2>1. CASE Check(p)
    <3>1. Own(p)' /\ \E x \in steps \ critical : Goto(p, x)
      BY <2>1, <2>0 DEF Check, Advance, Report, Own, TypeOK, Goto, steps, critical, Site
    <3> QED BY <2>1, <3>1, OutsideSafe DEF Check, Advance, Report, TypeOK
  <2>2. CASE Lock(p)
    <3>1. CASE Report(p, "not_committed") /\ UNCHANGED remote
      <4>1. Own(p)' /\ Goto(p, "reported")
        BY <2>2, <2>0, <3>1 DEF Lock, Report, Own, TypeOK, Goto, critical
      <4> QED BY <3>1, <4>1, OutsideSafe DEF Report, TypeOK, steps, critical
    <3>2. CASE Become(p, [Site(p) EXCEPT !.locked = TRUE])
      <4> DEFINE site == [Site(p) EXCEPT !.locked = TRUE]
      <4>1. /\ site.objects = Site(p).objects /\ site.archives = Site(p).archives
            /\ site.pointer = Site(p).pointer /\ site.locked /\ Resolves(site)
        BY <2>0 DEF Sites, Resolves
      <4>2. /\ remote'[at[p]] = site
            /\ \A t \in Targets \ {at[p]} : remote'[t] = remote[t]
        BY <2>0, <3>2 DEF Become, TypeOK
      <4>3. PICK x \in {"presence", "reported"} :
              Goto(p, x) /\ (x = "presence" => ~Site(p).locked)
        BY <2>2, <3>2 DEF Lock, Report
      <4>4. /\ UNCHANGED <<local, kind, at, want, batch, queue>>
            /\ \A q \in Publishers \ {p} : seen'[q] = seen[q] /\ pc'[q] = pc[q]
            /\ pc'[p] = x
        BY <2>2, <3>2, <4>3 DEF Lock, Report, TypeOK, Goto
      <4>5. OnePublisher'
        BY <4>3, <4>4, <2>0 DEF SafeInv, OnePublisher, Own, Site, critical
      <4>6. ASSUME NEW q \in Publishers PROVE Own(q)'
        <5>1. /\ Site(q)'.objects = Site(q).objects /\ Site(q)'.archives = Site(q).archives
              /\ Site(q)'.pointer = Site(q).pointer /\ Site(p)'.locked
              /\ Site(q).locked => Site(q)'.locked
          BY <4>1, <4>2, <4>4 DEF Site, TypeOK
        <5>2. CASE q = p
          BY <2>0, <2>2, <4>3, <4>4, <5>1, <5>2 DEF Own, Lock, critical
        <5>3. CASE q # p
          BY <4>4, <5>1, <5>3 DEF SafeInv, Own
        <5> QED BY <5>2, <5>3
      <4> QED BY <4>1, <4>2, <4>5, <4>6 DEF SafeInv, Resolves
    <3> QED BY <2>2, <3>1, <3>2 DEF Lock
  <2>3. CASE Presence(p)
    <3>1. CASE Lost(p, "not_committed")
      BY <2>3, <3>1, LostSafe DEF Presence, critical
    <3>2. CASE ~Lost(p, "not_committed")
      <4>1. seen'[p].objects \subseteq Site(p).objects
        BY <2>3, <3>2 DEF Presence, Present, TypeOK
      <4>2. Site(p)' = Site(p) /\ Goto(p, "upload")
        BY <2>3, <3>2 DEF Presence, Site
      <4>3. Own(p)'
        BY <2>0, <2>3, <3>2, <4>1, <4>2 DEF Presence, Own, TypeOK, Goto, critical
      <4> QED BY <2>0, <2>3, <3>2, <4>2, <4>3, InsideSafe DEF Presence, TypeOK, critical
    <3> QED BY <3>1, <3>2
  <2>4. CASE UploadObject(p)
    <3>1. PICK s \in Snapshots :
          LET site == [Site(p) EXCEPT !.objects = @ \cup {s}] IN
          \/ /\ Become(p, site)
             /\ seen' = [seen EXCEPT ![p].objects = @ \cup {s}]
             /\ UNCHANGED <<local, kind, pc, at, want, batch, queue, outcome, faults>>
          \/ Upload(p, site, "not_committed")
          \/ GiveUp(p, "not_committed") /\ UNCHANGED remote
      BY <2>4 DEF UploadObject
    <3> DEFINE site == [Site(p) EXCEPT !.objects = @ \cup {s}]
    <3>2. site \in Sites /\ site.locked /\ Resolves(site)
      BY <2>0, <2>4, <3>1 DEF UploadObject, critical, Sites, Resolves, Own
    <3>3. CASE Upload(p, site, "not_committed")
      BY <2>4, <3>2, <3>3, UploadSafe DEF UploadObject, critical
    <3>5. CASE GiveUp(p, "not_committed") /\ UNCHANGED remote
      BY <2>4, <3>5, GiveUpSafe DEF UploadObject, critical
    <3>4. CASE /\ ~Upload(p, site, "not_committed")
               /\ ~(GiveUp(p, "not_committed") /\ UNCHANGED remote)
      <4>1. Site(p)' = site
        BY <3>1, <3>4, <2>0 DEF Become, Site, TypeOK
      <4>2. /\ site.objects = Site(p).objects \cup {s}
            /\ site.archives = Site(p).archives /\ site.pointer = Site(p).pointer
        BY <2>0 DEF Sites
      <4>3. seen'[p].objects = seen[p].objects \cup {s}
        BY <3>1, <3>4 DEF TypeOK, Readings
      <4>4. Own(p)'
        BY <2>0, <2>4, <3>1, <3>2, <3>4, <4>1, <4>2, <4>3 DEF Own, UploadObject, critical
      <4>5. Goto(p, pc[p]) /\ pc[p] \in critical
        BY <2>4, <3>1, <3>4 DEF UploadObject, Goto, TypeOK, critical
      <4> QED BY <3>1, <3>2, <3>4, <4>4, <4>5, BecomeSafe DEF TypeOK
    <3> QED BY <3>3, <3>4, <3>5
  <2>5. CASE UploadArchive(p)
    <3>1. PICK s \in seen[p].objects :
          LET site == [Site(p) EXCEPT !.archives = @ \cup {s}] IN
          \/ /\ Become(p, site)
             /\ queue' = [queue EXCEPT ![p] = @ \ {s}]
             /\ UNCHANGED <<local, kind, pc, at, want, batch, seen, outcome, faults>>
          \/ Upload(p, site, "not_committed")
      BY <2>5 DEF UploadArchive
    <3> DEFINE site == [Site(p) EXCEPT !.archives = @ \cup {s}]
    <3>2. site \in Sites /\ site.locked /\ Resolves(site)
      BY <2>0, <2>5, <3>1 DEF UploadArchive, critical, Sites, Resolves, Own
    <3>3. CASE Upload(p, site, "not_committed")
      BY <2>5, <3>2, <3>3, UploadSafe DEF UploadArchive, critical
    <3>4. CASE ~Upload(p, site, "not_committed")
      <4>1. Site(p)' = site
        BY <3>1, <3>4, <2>0 DEF Become, Site, TypeOK
      <4>2. /\ site.archives = Site(p).archives \cup {s}
            /\ site.objects = Site(p).objects /\ site.pointer = Site(p).pointer
        BY <2>0 DEF Sites
      <4>3. queue'[p] = queue[p] \ {s}
        BY <3>1, <3>4 DEF TypeOK, Readings
      <4>4. Own(p)'
        BY <2>0, <2>5, <3>1, <3>2, <3>4, <4>1, <4>2, <4>3 DEF Own, UploadArchive, critical
      <4>5. Goto(p, pc[p]) /\ pc[p] \in critical
        BY <2>5, <3>1, <3>4 DEF UploadArchive, Goto, TypeOK, critical
      <4> QED BY <3>1, <3>2, <3>4, <4>4, <4>5, BecomeSafe DEF TypeOK
    <3> QED BY <3>3, <3>4
  <2>6. CASE Uploaded(p)
    <3>1. CASE Lost(p, "not_committed")
      BY <2>6, <3>1, LostSafe DEF Uploaded, critical
    <3>2. ASSUME NEW x \in {"inventory", "lkg", "previous"}, Advance(p, x)
          PROVE  SafeInv'
      <4>1. Own(p)'
        BY <2>6, <3>2, <2>0 DEF Uploaded, Advance, Own, TypeOK, Goto, critical, Site
      <4> QED BY <2>6, <3>2, <2>0, <4>1, InsideSafe
              DEF Uploaded, Advance, TypeOK, critical, Site, Resolves
    <3> QED BY <2>6, <3>1, <3>2 DEF Uploaded
  <2>7. CASE Previous(p)
    <3> DEFINE site == Repoint(p, "previous", Site(p).pointer["current"])
    <3>1. /\ Site(p).pointer["current"] \in Site(p).objects \cup {None}
          /\ Site(p).pointer["current"] \in Snapshots \cup {None}
      BY <2>0, <2>7 DEF Previous, Own, Sites, Pointed, Pointers, Resolves
    <3>2. /\ site \in Sites /\ site.locked
          /\ site.objects = Site(p).objects /\ site.archives = Site(p).archives
          /\ \A q \in Pointers : site.pointer[q] \in {Site(p).pointer["current"], Site(p).pointer[q]}
      BY <2>0, <2>7, <3>1, SiteTypes
      DEF Previous, Repoint, Pointers, Sites, Pointed, critical
    <3>3. Resolves(site)
      BY <2>0, <3>1, <3>2 DEF Resolves
    <3>4. CASE Upload(p, site, "not_committed")
      BY <2>7, <3>2, <3>3, <3>4, UploadSafe DEF Previous, critical
    <3>5. CASE Become(p, site) /\ Advance(p, "lkg")
      <4>1. Site(p)' = site
        BY <3>5, <2>0 DEF Become, Advance, Site, TypeOK
      <4>2. Own(p)'
        BY <2>0, <2>7, <3>2, <3>5, <4>1 DEF Own, Previous, Advance, Goto, TypeOK, critical
      <4> QED BY <2>7, <3>2, <3>3, <3>5, <4>2, BecomeSafe DEF Previous, Advance, TypeOK, critical
    <3> QED BY <2>7, <3>4, <3>5 DEF Previous
  <2>8. CASE Lkg(p)
    <3> DEFINE site == Repoint(p, "last_known_good", want[p])
    <3>1. /\ want[p] \in Site(p).objects
          /\ want[p] \in Snapshots \cup {None}
      BY <2>0, <2>8 DEF Lkg, Own, Sites, Pointed, Pointers, Resolves
    <3>2. /\ site \in Sites /\ site.locked
          /\ site.objects = Site(p).objects /\ site.archives = Site(p).archives
          /\ \A q \in Pointers : site.pointer[q] \in {want[p], Site(p).pointer[q]}
      BY <2>0, <2>8, <3>1, SiteTypes
      DEF Lkg, Repoint, Pointers, Sites, Pointed, critical
    <3>3. Resolves(site)
      BY <2>0, <3>1, <3>2 DEF Resolves
    <3>4. CASE Upload(p, site, "not_committed")
      BY <2>8, <3>2, <3>3, <3>4, UploadSafe DEF Lkg, critical
    <3>5. CASE Become(p, site) /\ Advance(p, "current")
      <4>1. Site(p)' = site
        BY <3>5, <2>0 DEF Become, Advance, Site, TypeOK
      <4>2. Own(p)'
        BY <2>0, <2>8, <3>2, <3>5, <4>1 DEF Own, Lkg, Advance, Goto, TypeOK, critical
      <4> QED BY <2>8, <3>2, <3>3, <3>5, <4>2, BecomeSafe DEF Lkg, Advance, TypeOK, critical
    <3>6. CASE Advance(p, "current") /\ UNCHANGED remote
      <4>1. Own(p)'
        BY <2>0, <2>8, <3>6 DEF Own, Lkg, Advance, Goto, TypeOK, critical, Site
      <4> QED BY <2>0, <2>8, <3>6, <4>1, InsideSafe
              DEF Lkg, Advance, TypeOK, critical, Site, Resolves
    <3> QED BY <2>8, <3>4, <3>5, <3>6 DEF Lkg
  <2>9. CASE Current(p)
    <3> DEFINE site == Repoint(p, "current", want[p])
    <3>1. /\ want[p] \in Site(p).objects
          /\ want[p] \in Snapshots \cup {None}
      BY <2>0, <2>9 DEF Current, Own, Sites, Pointed, Pointers, Resolves
    <3>2. /\ site \in Sites /\ site.locked
          /\ site.objects = Site(p).objects /\ site.archives = Site(p).archives
          /\ \A q \in Pointers : site.pointer[q] \in {want[p], Site(p).pointer[q]}
      BY <2>0, <2>9, <3>1, SiteTypes
      DEF Current, Repoint, Pointers, Sites, Pointed, critical
    <3>3. Resolves(site)
      BY <2>0, <3>1, <3>2 DEF Resolves
    <3>4. CASE Upload(p, site, "unknown")
      BY <2>9, <3>2, <3>3, <3>4, UploadSafe DEF Current, critical
    <3>5. CASE Become(p, site) /\ Advance(p, "verify")
      <4>1. Site(p)' = site
        BY <3>5, <2>0 DEF Become, Advance, Site, TypeOK
      <4>2. Own(p)'
        BY <2>0, <2>9, <3>2, <3>5, <4>1 DEF Own, Current, Advance, Goto, TypeOK, critical
      <4> QED BY <2>9, <3>2, <3>3, <3>5, <4>2, BecomeSafe DEF Current, Advance, TypeOK, critical
    <3> QED BY <2>9, <3>4, <3>5 DEF Current
  <2>10. CASE Verify(p)
    <3>1. CASE Lost(p, "not_committed")
      BY <2>10, <3>1, LostSafe DEF Verify, critical
    <3>2. CASE Advance(p, "inventory")
      <4>1. Own(p)'
        BY <2>10, <3>2, <2>0 DEF Verify, Advance, Own, TypeOK, Goto, critical, Site
      <4> QED BY <2>10, <3>2, <2>0, <4>1, InsideSafe
              DEF Verify, Advance, TypeOK, critical, Site, Resolves
    <3> QED BY <2>10, <3>1, <3>2 DEF Verify
  <2>11. CASE Inventory(p)
    <3>1. CASE Lost(p, "committed")
      BY <2>11, <3>1, LostSafe DEF Inventory, GiveUp, critical
    <3>2. CASE ~Lost(p, "committed")
      <4>1. PICK x \in {"release", "prune_archives"} : Goto(p, x)
        BY <2>11, <3>2 DEF Inventory, GiveUp
      <4>2. Own(p)'
        BY <2>11, <3>2, <2>0, <4>1
        DEF Inventory, GiveUp, Own, TypeOK, Goto, critical, Site
      <4> QED BY <2>11, <3>2, <2>0, <4>1, <4>2, InsideSafe
              DEF Inventory, GiveUp, TypeOK, critical, Site, Resolves
    <3> QED BY <3>1, <3>2
  <2>12. CASE PruneArchive(p)
    <3>1. PICK s \in queue[p] :
          LET site == [Site(p) EXCEPT !.archives = @ \ {s}] IN
          \/ /\ Become(p, site)
             /\ queue' = [queue EXCEPT ![p] = @ \ {s}]
             /\ UNCHANGED <<local, kind, pc, at, want, batch, seen, outcome, faults>>
          \/ Command(p, site, "committed")
      BY <2>12 DEF PruneArchive
    <3> DEFINE site == [Site(p) EXCEPT !.archives = @ \ {s}]
    <3>2. site \in Sites /\ site.locked /\ Resolves(site)
      BY <2>0, <2>12, <3>1 DEF PruneArchive, critical, Sites, Resolves, Own
    <3>3. CASE Command(p, site, "committed")
      BY <2>12, <3>2, <3>3, UploadSafe DEF PruneArchive, critical
    <3>4. CASE ~Command(p, site, "committed")
      <4>1. Site(p)' = site
        BY <3>1, <3>4, <2>0 DEF Become, Site, TypeOK
      <4>2. /\ site.archives = Site(p).archives \ {s}
            /\ site.objects = Site(p).objects /\ site.pointer = Site(p).pointer
        BY <2>0 DEF Sites
      <4>3. queue'[p] = queue[p] \ {s}
        BY <3>1, <3>4 DEF TypeOK, Readings
      <4>4. Own(p)'
        BY <2>0, <2>12, <3>1, <3>2, <3>4, <4>1, <4>2, <4>3 DEF Own, PruneArchive, critical
      <4>5. Goto(p, pc[p]) /\ pc[p] \in critical
        BY <2>12, <3>1, <3>4 DEF PruneArchive, Goto, TypeOK, critical
      <4> QED BY <3>1, <3>2, <3>4, <4>4, <4>5, BecomeSafe DEF TypeOK
    <3> QED BY <3>3, <3>4
  <2>13. CASE Recheck(p)
    <3>1. CASE Lost(p, "committed")
      BY <2>13, <3>1, LostSafe DEF Recheck, critical
    <3>2. CASE ~Lost(p, "committed")
      <4> DEFINE doomed == seen[p].objects \ Kept(seen[p])
      <4>1. Goto(p, "prune_objects") /\ UNCHANGED remote /\ queue' = [queue EXCEPT ![p] = doomed]
        BY <2>13, <3>2 DEF Recheck
      <4>2. \A s \in doomed : /\ s \notin Site(p).archives
                              /\ \A q \in Pointers : s # Site(p).pointer[q]
        <5>1. CASE doomed = {}
          BY <5>1
        <5>2. CASE /\ Site(p).archives = seen[p].archives \cap Kept(seen[p])
                   /\ Site(p).pointer = seen[p].pointer
          <6>1. \A s \in doomed : s # None
            BY DEF TypeOK, Readings, Snapshots, None
          <6> QED BY <5>2, <6>1 DEF Kept
        <5> QED BY <2>13, <3>2, <5>1, <5>2 DEF Recheck
      <4>3. Own(p)'
        BY <2>13, <3>2, <2>0, <4>1, <4>2 DEF Recheck, Own, TypeOK, Goto, critical, Site
      <4> QED BY <2>13, <3>2, <2>0, <4>1, <4>3, InsideSafe
              DEF Recheck, TypeOK, critical, Site, Resolves
    <3> QED BY <3>1, <3>2
  <2>14. CASE PruneObject(p)
    <3>1. PICK s \in queue[p] :
          LET site == [Site(p) EXCEPT !.objects = @ \ {s}] IN
          \/ /\ Become(p, site)
             /\ queue' = [queue EXCEPT ![p] = @ \ {s}]
             /\ UNCHANGED <<local, kind, pc, at, want, batch, seen, outcome, faults>>
          \/ Command(p, site, "committed")
      BY <2>14 DEF PruneObject
    <3> DEFINE site == [Site(p) EXCEPT !.objects = @ \ {s}]
    <3>2. site \in Sites /\ site.locked /\ Resolves(site)
      BY <2>0, <2>14, <3>1 DEF PruneObject, critical, Sites, Resolves, Own
    <3>3. CASE Command(p, site, "committed")
      BY <2>14, <3>2, <3>3, UploadSafe DEF PruneObject, critical
    <3>4. CASE ~Command(p, site, "committed")
      <4>1. Site(p)' = site
        BY <3>1, <3>4, <2>0 DEF Become, Site, TypeOK
      <4>2. /\ site.objects = Site(p).objects \ {s}
            /\ site.archives = Site(p).archives /\ site.pointer = Site(p).pointer
        BY <2>0 DEF Sites
      <4>3. queue'[p] = queue[p] \ {s}
        BY <3>1, <3>4 DEF TypeOK, Readings
      <4>4. Own(p)'
        BY <2>0, <2>14, <3>1, <3>2, <3>4, <4>1, <4>2, <4>3 DEF Own, PruneObject, critical
      <4>5. Goto(p, pc[p]) /\ pc[p] \in critical
        BY <2>14, <3>1, <3>4 DEF PruneObject, Goto, TypeOK, critical
      <4> QED BY <3>1, <3>2, <3>4, <4>4, <4>5, BecomeSafe DEF TypeOK
    <3> QED BY <3>3, <3>4
  <2>15. CASE Pruned(p)
    <3>1. Own(p)'
      BY <2>15, <2>0 DEF Pruned, Own, TypeOK, Goto, critical, Site
    <3> QED BY <2>15, <2>0, <3>1, InsideSafe DEF Pruned, TypeOK, critical, Site, Resolves
  <2>16. CASE Release(p)
    <3>1. /\ pc[p] = "release" /\ pc' = [pc EXCEPT ![p] = "reported"]
          /\ UNCHANGED <<local, kind, at, want, batch, queue, seen>>
          /\ Become(p, [Site(p) EXCEPT !.locked = FALSE]) \/ UNCHANGED remote
      BY <2>16 DEF Release, Goto
    <3>2. \A t \in Targets \ {at[p]} : remote'[t] = remote[t]
      BY <3>1 DEF Become, TypeOK
    <3>3. \A t \in Targets : Resolves(remote[t])'
      <4>1. Resolves([Site(p) EXCEPT !.locked = FALSE])
        BY <2>0 DEF Sites, Resolves
      <4> QED BY <3>1, <4>1 DEF SafeInv, Resolves, Become, TypeOK
    <3>4. OnePublisher'
      BY <3>1 DEF SafeInv, OnePublisher, TypeOK, critical
    <3>5. ASSUME NEW q \in Publishers PROVE Own(q)'
      <4>1. CASE q = p
        BY <2>0, <3>1, <4>1 DEF Own, TypeOK, critical
      <4>2. CASE q # p /\ pc[q] \in critical
        <5>1. at[q] \in Targets \ {at[p]}
          BY <3>1, <4>2 DEF SafeInv, OnePublisher, TypeOK, critical
        <5>2. Site(q)' = Site(q)
          BY <3>1, <3>2, <5>1 DEF Site
        <5> QED BY <3>1, <4>2, <5>2 DEF SafeInv, Own, TypeOK
      <4>3. CASE q # p /\ pc[q] \notin critical
        BY <3>1, <4>3 DEF SafeInv, Own, TypeOK, critical
      <4> QED BY <4>1, <4>2, <4>3
    <3> QED BY <3>3, <3>4, <3>5 DEF SafeInv
  <2>17. CASE NextTarget(p)
    <3>1. Own(p)' /\ \E x \in steps \ critical : Goto(p, x)
      <4>1. CASE Forget(p)
        BY <4>1 DEF Forget, Own, TypeOK, Goto, steps, critical
      <4>2. CASE ~Forget(p)
        BY <2>17, <4>2, <2>0 DEF NextTarget, Own, TypeOK, Goto, steps, critical
      <4> QED BY <4>1, <4>2
    <3>2. local' \in Trimmed(local) \/ local' = local
      BY <2>17 DEF NextTarget
    <3>3. local'.current = local.current
      BY <3>2, TrimmedStore DEF TypeOK
    <3> QED BY <2>17, <3>1, <3>3, OutsideSafe DEF NextTarget, Forget, TypeOK
  <2> QED BY <1>4, <2>1, <2>2, <2>3, <2>4, <2>5, <2>6, <2>7, <2>8, <2>9, <2>10, <2>11,
             <2>12, <2>13, <2>14, <2>15, <2>16, <2>17 DEF Publish
<1>5. ASSUME NEW p \in Publishers, Crash(p) PROVE SafeInv'
  <2>1. Own(p)' /\ Goto(p, "idle")
    BY <1>5 DEF Crash, Forget, Own, TypeOK, Goto, critical
  <2> QED BY <1>5, <2>1, OutsideSafe DEF Crash, Forget, TypeOK, steps, critical
<1>6. CASE UNCHANGED vars
  BY <1>6 DEF vars, process, SafeInv, Own, OnePublisher, Resolves, Site
<1> QED BY <1>1, <1>2, <1>3, <1>4, <1>5, <1>6 DEF Next, Publishers

\* Any number of publishers and targets: at every moment at most one publisher changes a
\* target, and no pointer or archive of a target names an object that is not there.
THEOREM PublishSafety == Spec => []TargetSafe
<1>1. TypeOK /\ SafeInv => TargetSafe
  BY DEF SafeInv, TargetSafe, ManifestsResolve, Resolves
<1> QED BY TypeInit, TypeStep, SafeInit, SafeStep, <1>1, PTL DEF Spec
-----------------------------------------------------------------------------
(* What a publisher reports.                                                *)

\* Past its own write of `current`, and once it reports that it has committed, the target's
\* `current` is what the publisher wanted.
Committed(p) ==
    \/ pc[p] \in {"verify", "inventory", "prune_archives", "prune_objects"}
    \/ pc[p] = "release" /\ outcome[p] \in {"published", "committed"}

ReportInv == \A p \in Publishers : Committed(p) => Site(p).pointer["current"] = want[p]

\* A publisher writes on the target it is at, and on no pointer unless it has the lock.
LEMMA OwnTargetOnly ==
    ASSUME TypeOK, NEW p \in Publishers, Publish(p)
    PROVE  /\ \A t \in Targets \ {at[p]} : remote'[t] = remote[t]
           /\ pc[p] \notin critical => Site(p).pointer = remote'[at[p]].pointer
           /\ \A q \in Publishers \ {p} : /\ pc'[q] = pc[q] /\ outcome'[q] = outcome[q]
                                          /\ want'[q] = want[q] /\ at'[q] = at[q]
<1>0. /\ \A site : Become(p, site) => \A t \in Targets \ {at[p]} : remote'[t] = remote[t]
      /\ \A result, site : Upload(p, site, result) \/ Command(p, site, result)
           => \A t \in Targets \ {at[p]} : remote'[t] = remote[t]
  BY DEF Become, Upload, Command, TypeOK
<1>1. \A t \in Targets \ {at[p]} : remote'[t] = remote[t]
  <2>1. CASE Lock(p) \/ UploadObject(p) \/ UploadArchive(p) \/ Previous(p)
    BY <1>0, <2>1 DEF Lock, UploadObject, UploadArchive, Previous
  <2>2. CASE Lkg(p) \/ Current(p) \/ PruneArchive(p) \/ PruneObject(p) \/ Release(p)
    BY <1>0, <2>2 DEF Lkg, Current, PruneArchive, PruneObject, Release
  <2>3. CASE Check(p) \/ Presence(p) \/ Uploaded(p) \/ Verify(p) \/ Inventory(p)
               \/ Recheck(p) \/ Pruned(p) \/ NextTarget(p)
    BY <2>3 DEF Check, Report, Advance, Presence, Uploaded, Verify, Inventory, GiveUp, Recheck,
                Pruned, NextTarget, Forget
  <2> QED BY <2>1, <2>2, <2>3 DEF Publish
<1>2. ASSUME pc[p] \notin critical PROVE Site(p).pointer = remote'[at[p]].pointer
  <2>1. CASE Lock(p)
    <3>1. remote' = remote \/ Become(p, [Site(p) EXCEPT !.locked = TRUE])
      BY <2>1 DEF Lock
    <3>2. [Site(p) EXCEPT !.locked = TRUE].pointer = Site(p).pointer
      BY DEF TypeOK, Sites, Site
    <3> HIDE DEF Site
    <3> QED BY <3>1, <3>2 DEF Become, TypeOK, Site
  <2>2. CASE Check(p) \/ NextTarget(p)
    BY <2>2 DEF Check, Advance, Report, NextTarget, Forget, Site
  <2>3. CASE ~(Lock(p) \/ Check(p) \/ NextTarget(p))
    BY <1>2, <2>3 DEF Publish, Presence, UploadObject, UploadArchive, Uploaded, Previous, Lkg,
                      Current, Verify, Inventory, PruneArchive, Recheck, PruneObject, Pruned,
                      Release, critical
  <2> QED BY <2>1, <2>2, <2>3
<1>3. ASSUME NEW q \in Publishers \ {p}
      PROVE  /\ pc'[q] = pc[q] /\ outcome'[q] = outcome[q]
             /\ want'[q] = want[q] /\ at'[q] = at[q]
  <2>1. \A x : Goto(p, x) => pc'[q] = pc[q]
    BY DEF Goto, TypeOK
  <2>2. \A result : Lost(p, result) \/ GiveUp(p, result) \/ Report(p, result) =>
          /\ pc'[q] = pc[q] /\ outcome'[q] = outcome[q] /\ want'[q] = want[q] /\ at'[q] = at[q]
    BY <2>1 DEF Lost, GiveUp, Report, TypeOK
  <2>3. CASE Check(p) \/ Lock(p) \/ Presence(p) \/ UploadObject(p) \/ UploadArchive(p)
               \/ Uploaded(p)
    BY <2>1, <2>2, <2>3 DEF Check, Lock, Presence, UploadObject, UploadArchive, Uploaded, Advance,
                            Upload, Command
  <2>4. CASE Previous(p) \/ Lkg(p) \/ Current(p) \/ Verify(p)
    BY <2>1, <2>2, <2>4 DEF Previous, Lkg, Current, Verify, Advance, Upload, Command
  <2>5. CASE Inventory(p) \/ PruneArchive(p) \/ Recheck(p) \/ PruneObject(p) \/ Pruned(p)
    BY <2>1, <2>2, <2>5 DEF Inventory, PruneArchive, Recheck, PruneObject, Pruned, Command, TypeOK
  <2>6. CASE Release(p) \/ NextTarget(p)
    BY <2>1, <2>6 DEF Release, NextTarget, Forget, TypeOK
  <2> QED BY <2>3, <2>4, <2>5, <2>6 DEF Publish
<1> QED BY <1>1, <1>2, <1>3

\* The publisher's own step: it gets past `current` by writing it, or by finding it there.
LEMMA OwnReport ==
    ASSUME TypeOK, SafeInv, ReportInv, NEW p \in Publishers, Publish(p), Committed(p)'
    PROVE  Site(p)'.pointer["current"] = want'[p]
<1>0. /\ Site(p) \in Sites /\ at[p] \in Targets
      /\ Committed(p) => Site(p).pointer["current"] = want[p]
  BY DEF TypeOK, Site, ReportInv
<1>1. /\ \A x : Goto(p, x) => pc'[p] = x
      /\ \A result : GiveUp(p, result) => /\ pc'[p] = "release" /\ outcome'[p] = result
                                          /\ UNCHANGED <<at, want>>
      /\ \A result : Lost(p, result) => GiveUp(p, result)
      /\ \A result : Report(p, result) => pc'[p] = "reported"
  BY DEF Goto, Lost, GiveUp, Report, TypeOK
<1>2. \A site : Become(p, site) /\ UNCHANGED at => Site(p)' = site
  BY <1>0 DEF Become, Site, TypeOK
<1>3. CASE Check(p) \/ Lock(p) \/ Presence(p)
  BY <1>1, <1>3 DEF Check, Advance, Lock, Presence, Committed
<1>4. CASE UploadObject(p) \/ UploadArchive(p)
  <2>1. pc' = pc \/ GiveUp(p, "not_committed")
    BY <1>1, <1>4 DEF UploadObject, UploadArchive, Upload, Command
  <2>2. pc[p] = "upload"
    BY <1>4 DEF UploadObject, UploadArchive
  <2> QED BY <1>1, <2>1, <2>2 DEF Committed
<1>5. CASE Uploaded(p)
  BY <1>1, <1>5 DEF Uploaded, Advance, Committed, Site
<1>6. CASE Previous(p) \/ Lkg(p)
  BY <1>1, <1>6 DEF Previous, Lkg, Advance, Upload, Command, Committed
<1>7. CASE Current(p)
  <2>1. Repoint(p, "current", want[p]).pointer["current"] = want[p]
    BY <1>0 DEF Repoint, Sites, Pointed, Pointers
  <2> QED BY <1>1, <1>2, <1>7, <2>1 DEF Current, Advance, Upload, Command, Committed
<1>8. CASE Verify(p) \/ Inventory(p) \/ Recheck(p) \/ Pruned(p)
  <2>1. Committed(p)
    BY <1>8 DEF Verify, Inventory, Recheck, Pruned, Committed
  <2>2. UNCHANGED <<remote, at, want>>
    BY <1>1, <1>8 DEF Verify, Inventory, Recheck, Pruned, Advance
  <2> QED BY <1>0, <2>1, <2>2 DEF Site
<1>9. CASE PruneArchive(p) \/ PruneObject(p)
  <2>1. Committed(p) /\ UNCHANGED <<at, want>>
    BY <1>1, <1>9 DEF PruneArchive, PruneObject, Command, Committed
  <2>2. \A s : /\ [Site(p) EXCEPT !.archives = @ \ {s}].pointer = Site(p).pointer
               /\ [Site(p) EXCEPT !.objects = @ \ {s}].pointer = Site(p).pointer
    BY <1>0 DEF Sites
  <2>3. \/ remote' = remote
        \/ \E s : \/ Become(p, [Site(p) EXCEPT !.archives = @ \ {s}])
                  \/ Become(p, [Site(p) EXCEPT !.objects = @ \ {s}])
    BY <1>9 DEF PruneArchive, PruneObject, Command
  <2>4. Site(p)'.pointer = Site(p).pointer
    <3>1. CASE remote' = remote
      BY <2>1, <3>1 DEF Site
    <3>2. ASSUME NEW site, Become(p, site), site.pointer = Site(p).pointer
          PROVE  Site(p)'.pointer = Site(p).pointer
      BY <1>2, <2>1, <3>2
    <3> QED BY <2>2, <2>3, <3>1, <3>2
  <2> QED BY <1>0, <2>1, <2>4
<1>10. CASE Release(p) \/ NextTarget(p)
  BY <1>1, <1>10 DEF Release, NextTarget, Forget, Committed
<1> QED BY <1>3, <1>4, <1>5, <1>6, <1>7, <1>8, <1>9, <1>10 DEF Publish

LEMMA ReportStep == TypeOK /\ SafeInv /\ ReportInv /\ [Next]_vars => ReportInv'
<1> SUFFICES ASSUME TypeOK, SafeInv, ReportInv, [Next]_vars PROVE ReportInv'
  OBVIOUS
<1>1. ASSUME NEW p \in Publishers, UNCHANGED remote,
             \E x \in {"idle", "check"} : Goto(p, x),
             \A q \in Publishers \ {p} : /\ outcome'[q] = outcome[q]
                                         /\ want'[q] = want[q] /\ at'[q] = at[q]
      PROVE  ReportInv'
  BY <1>1 DEF ReportInv, Committed, Goto, TypeOK, Site
<1>2. CASE BeginLive
  BY <1>1, <1>2 DEF BeginLive, Begin, Publishers, TypeOK
<1>3. ASSUME NEW p \in Manuals, BeginManual(p) PROVE ReportInv'
  BY <1>1, <1>3 DEF BeginManual, Begin, Publishers, TypeOK
<1>4. ASSUME NEW p \in Publishers, Collect(p) PROVE ReportInv'
  BY <1>4 DEF Collect, process, ReportInv, Committed, Site
<1>5. ASSUME NEW p \in Publishers, Crash(p) PROVE ReportInv'
  BY <1>1, <1>5 DEF Crash, Forget, TypeOK
<1>6. ASSUME NEW p \in Publishers, Publish(p) PROVE ReportInv'
  <2>1. ASSUME NEW q \in Publishers \ {p}, Committed(q)' PROVE Site(q)'.pointer["current"] = want'[q]
    <3>1. /\ pc'[q] = pc[q] /\ outcome'[q] = outcome[q] /\ want'[q] = want[q] /\ at'[q] = at[q]
          /\ at[q] \in Targets
      BY <1>6, OwnTargetOnly DEF TypeOK
    <3>2. Committed(q) /\ pc[q] \in critical
      BY <2>1, <3>1 DEF Committed, critical
    <3>3. Site(q).pointer["current"] = want[q]
      BY <3>2 DEF ReportInv
    <3>4. remote'[at[q]].pointer = remote[at[q]].pointer
      <4>1. CASE at[q] # at[p]
        BY <1>6, <3>1, <4>1, OwnTargetOnly
      <4>2. CASE at[q] = at[p]
        <5>1. pc[p] \notin critical
          BY <3>2, <4>2 DEF SafeInv, OnePublisher
        <5> QED BY <1>6, <4>2, <5>1, OwnTargetOnly DEF Site
      <4> QED BY <4>1, <4>2
    <3> QED BY <3>1, <3>3, <3>4 DEF Site
  <2>2. Committed(p)' => Site(p)'.pointer["current"] = want'[p]
    BY <1>6, OwnReport
  <2> QED BY <2>1, <2>2 DEF ReportInv
<1>7. CASE UNCHANGED vars
  BY <1>7 DEF vars, process, ReportInv, Committed, Site
<1> QED BY <1>2, <1>3, <1>4, <1>5, <1>6, <1>7 DEF Next

\* Whatever publishers, lost connections and failing retentions interleave, a target that is
\* reported as published has as `current` the snapshot that was to be published.
THEOREM CommitReported == Spec => []CommittedIsCurrent
<1>1. Init => ReportInv
  BY DEF Init, ReportInv, Committed
<1>2. ReportInv => CommittedIsCurrent
  BY DEF ReportInv, Committed, CommittedIsCurrent
<1> QED BY <1>1, <1>2, TypeInit, TypeStep, SafeInit, SafeStep, ReportStep, PTL DEF Spec
-----------------------------------------------------------------------------
(* With live_sync as the only publisher.                                    *)

\* How many archives of a target are newer than a snapshot: no more if there are fewer
\* archives.
LEMMA AboveCount ==
    ASSUME NEW A \in SUBSET Nat, IsFiniteSet(A), NEW B \in SUBSET A, NEW s, NEW u,
           {q \in B : q > u} \subseteq {q \in A : q > s}
    PROVE  /\ Cardinality({q \in A : q > s}) \in Nat
           /\ Cardinality({q \in B : q > u}) \in Nat
           /\ Cardinality({q \in B : q > u}) <= Cardinality({q \in A : q > s})
<1> DEFINE above == {q \in A : q > s}
           own   == {q \in B : q > u}
<1>1. IsFiniteSet(above)
  <2>1. above \in SUBSET A
    OBVIOUS
  <2> HIDE DEF above
  <2> QED BY <2>1, FS_Subset
<1>2. own \in SUBSET above
  OBVIOUS
<1> HIDE DEF above, own
<1>3. IsFiniteSet(own) /\ Cardinality(own) <= Cardinality(above)
  BY <1>1, <1>2, FS_Subset
<1> QED BY <1>1, <1>3, FS_CardinalityType DEF above, own

\* A new archive leaves no hole where there was none.
LEMMA HeldAfterUpload ==
    ASSUME NEW A \in SUBSET Nat, IsFiniteSet(A), NEW s \in Nat, NEW u, Held(A, u)
    PROVE  Held(A \cup {s}, u)
<1>1. A \cup {s} \in SUBSET Nat /\ IsFiniteSet(A \cup {s}) /\ A \in SUBSET (A \cup {s})
  BY FS_AddElement
<1>2. /\ Cardinality({q \in A \cup {s} : q > u}) \in Nat /\ Cardinality({q \in A : q > u}) \in Nat
      /\ Cardinality({q \in A : q > u}) <= Cardinality({q \in A \cup {s} : q > u})
  <2>1. {q \in A : q > u} \subseteq {q \in A \cup {s} : q > u}
    OBVIOUS
  <2> QED BY <1>1, <2>1, AboveCount
<1> QED BY <1>2, PublishAssumption DEF Held

\* Removing an archive that is not among the newest makes no hole and leaves the newest what
\* they were.
LEMMA HeldAfterPrune ==
    ASSUME NEW A \in SUBSET Nat, IsFiniteSet(A), NEW s, s \notin Newest(A)
    PROVE  /\ \A u \in Nat : Held(A, u) => Held(A \ {s}, u)
           /\ Newest(A \ {s}) = Newest(A)
<1>1. CASE s \notin A
  BY <1>1, A \ {s} = A
<1>2. CASE s \in A
  <2>1. Cardinality({q \in A : q > s}) >= RemoteRetention
    <3>1. Cardinality({q \in A : q > s}) \in Nat
      BY AboveCount
    <3> QED BY <1>2, <3>1, PublishAssumption DEF Newest
  <2>2. ASSUME NEW u \in Nat
        PROVE  /\ Cardinality({q \in A : q > u}) \in Nat
               /\ Cardinality({q \in A \ {s} : q > u}) \in Nat
               /\ Cardinality({q \in A \ {s} : q > u}) <= Cardinality({q \in A : q > u})
    <3>1. A \ {s} \in SUBSET A /\ {q \in A \ {s} : q > u} \subseteq {q \in A : q > u}
      OBVIOUS
    <3> QED BY <3>1, AboveCount
  <2>3. ASSUME NEW u \in Nat, Cardinality({q \in A : q > u}) >= RemoteRetention
        PROVE  Cardinality({q \in A \ {s} : q > u}) >= RemoteRetention
    <3>1. CASE s <= u
      <4>1. {q \in A \ {s} : q > u} = {q \in A : q > u}
        BY <1>2, <3>1
      <4> QED BY <2>3, <4>1
    <3>2. CASE ~(s <= u)
      <4>1. s \in Nat /\ u < s /\ A \ {s} \in SUBSET Nat
        BY <1>2, <3>2
      <4>2. IsFiniteSet(A \ {s})
        BY FS_RemoveElement
      <4>3. {q \in A \ {s} : q > s} = {q \in A : q > s}
        BY <1>2
      <4>8. {q \in A \ {s} : q > s} \subseteq {q \in A \ {s} : q > u}
        <5>1. \A q \in A : q > s => q > u
          BY <4>1
        <5> QED BY <5>1
      <4>4. /\ Cardinality({q \in A \ {s} : q > s}) <= Cardinality({q \in A \ {s} : q > u})
            /\ Cardinality({q \in A \ {s} : q > s}) \in Nat
        <5> DEFINE B == A \ {s}
        <5>1. B \in SUBSET Nat /\ IsFiniteSet(B) /\ B \in SUBSET B
          BY <4>1, <4>2
        <5>2. {q \in B : q > s} \subseteq {q \in B : q > u}
          BY <4>8
        <5> HIDE DEF B
        <5>3. /\ Cardinality({q \in B : q > s}) <= Cardinality({q \in B : q > u})
              /\ Cardinality({q \in B : q > s}) \in Nat
          BY <5>1, <5>2, AboveCount
        <5> QED BY <5>3 DEF B
      <4>6. Cardinality({q \in A \ {s} : q > s}) >= RemoteRetention
        BY <2>1, <4>3
      <4>7. Cardinality({q \in A \ {s} : q > u}) \in Nat
        BY <2>2
      <4> QED BY <4>4, <4>6, <4>7, PublishAssumption
    <3> QED BY <3>1, <3>2
  <2>4. ASSUME NEW u \in Nat, Held(A, u) PROVE Held(A \ {s}, u)
    <3>1. CASE u = s
      <4>1. Cardinality({q \in A : q > u}) >= RemoteRetention
        BY <2>1, <3>1
      <4> QED BY <2>3, <4>1 DEF Held
    <3>2. CASE u # s
      BY <2>3, <2>4, <3>2 DEF Held
    <3> QED BY <3>1, <3>2
  <2>5. ASSUME NEW u \in A PROVE u \in Newest(A \ {s}) <=> u \in Newest(A)
    <3>1. /\ Cardinality({q \in A : q > u}) \in Nat
          /\ Cardinality({q \in A \ {s} : q > u}) \in Nat
          /\ Cardinality({q \in A \ {s} : q > u}) <= Cardinality({q \in A : q > u})
          /\ Cardinality({q \in A : q > u}) >= RemoteRetention
               => Cardinality({q \in A \ {s} : q > u}) >= RemoteRetention
      BY <2>2, <2>3
    <3>2. u # s \/ u \notin Newest(A)
      OBVIOUS
    <3> QED BY <3>1, <3>2, PublishAssumption DEF Newest
  <2> QED BY <2>4, <2>5 DEF Newest
<1> QED BY <1>1, <1>2

LEMMA SnapshotsFinite ==
    ASSUME NEW A \in SUBSET Snapshots PROVE A \in SUBSET Nat /\ IsFiniteSet(A)
<1>1. IsFiniteSet(Snapshots)
  BY FS_Interval, PublishAssumption DEF Snapshots
<1>2. A \in SUBSET Nat
  BY DEF Snapshots
<1> QED BY <1>1, <1>2, FS_Subset

LEMMA ApprovedNumbers ==
    ASSUME TypeOK
    PROVE  /\ local.current \in Nat /\ Approved \subseteq 1 .. local.current
           /\ Approved \subseteq Snapshots /\ Approved \subseteq Nat
<1>1. local.current \in Nat /\ local.current <= MaxSnapshots
  BY PublishAssumption DEF TypeOK, Stores, Snapshots, None
<1>2. Approved \subseteq 1 .. local.current
  BY DEF Approved
<1> QED BY <1>1, <1>2, PublishAssumption DEF Snapshots

\* The local store has the snapshots its retention keeps, and none that is to come.
Recent ==
    /\ local.archives \subseteq 1 .. local.current
    /\ \A s \in 1 .. local.current :
         local.current < s + LocalRetention => s \in local.archives

\* What a target is owed up to its `current`, and up to the newest archive it has.
Complete(t) ==
    /\ remote[t].archives \subseteq Approved
    /\ \A q \in Pointers : remote[t].pointer[q] <= local.current
    /\ \A s \in Approved :
         (s <= remote[t].pointer["current"] /\ remote[t].pointer["current"] < s + LocalRetention)
           => Held(remote[t].archives, s)
    /\ \A s \in Approved \cap local.archives :
         (\E a \in remote[t].archives : s <= a) => Held(remote[t].archives, s)

\* Where the attempt of live_sync is: the local store stands still while it is under way, the
\* queue holds what the target lacks of the batch, and retention spares the newest archives.
Attempt ==
    /\ pc[Live] # "idle" => /\ want[Live] = local.current /\ local.current \in Approved
                            /\ batch[Live] = Batch
    /\ pc[Live] \in {"check", "lock", "presence"} => queue[Live] = Batch
    /\ pc[Live] = "upload" => /\ queue[Live] \subseteq Batch
                              /\ Batch \ Site(Live).archives \subseteq queue[Live]
    /\ pc[Live] \in {"previous", "lkg", "current", "verify", "inventory"}
         => Batch \subseteq Site(Live).archives
    /\ pc[Live] = "prune_archives" => queue[Live] \cap Newest(Site(Live).archives) = {}

LiveInv == Recent /\ Attempt /\ \A t \in Targets : Complete(t)

\* A site of the same local store with the same manifests has the same debts.
LEMMA SameSite ==
    ASSUME NEW t \in Targets, Complete(t), UNCHANGED <<local, kind>>,
           remote'[t].archives = remote[t].archives, remote'[t].pointer = remote[t].pointer
    PROVE  Complete(t)'
  BY DEF Complete, Approved

LEMMA CollectRecent ==
    ASSUME TypeOK, Recent, NEW p \in Publishers, Collect(p) PROVE Recent'
<1>1. /\ local.current \in Nat /\ local'.current = local.current + 1
      /\ local'.archives \subseteq local.archives \cup {local'.current}
      /\ \A s \in local.archives \cup {local'.current} :
           local'.current < s + LocalRetention => s \in local'.archives
  BY Collected
<1>2. local'.archives \subseteq 1 .. local'.current
  BY <1>1 DEF Recent
<1>3. ASSUME NEW s \in 1 .. local'.current, local'.current < s + LocalRetention
      PROVE  s \in local'.archives
  <2>1. CASE s = local'.current
    BY <1>1, <1>3, <2>1
  <2>2. CASE s # local'.current
    <3>1. s \in 1 .. local.current /\ local.current < s + LocalRetention
      BY <1>1, <1>3, <2>2, PublishAssumption
    <3> QED BY <1>1, <1>3, <3>1 DEF Recent
  <2> QED BY <2>1, <2>2
<1> QED BY <1>2, <1>3 DEF Recent

\* A new local snapshot is above everything the targets have, so it is owed to none of them
\* yet; what the local store forgets is owed to none of them any more.
LEMMA CollectComplete ==
    ASSUME TypeOK, LiveInv, NEW p \in Publishers, Collect(p), NEW t \in Targets
    PROVE  Complete(t)'
<1>1. /\ local.current \in Nat /\ local'.current = local.current + 1
      /\ local'.archives \subseteq local.archives \cup {local'.current}
      /\ local'.current \in Snapshots /\ UNCHANGED remote
  BY Collected DEF Collect
<1>2. PICK k \in Kinds : kind' = [kind EXCEPT ![local'.current] = k]
  BY Collected
<1>3. Complete(t) /\ remote[t] \in Sites
  BY DEF LiveInv, TypeOK
<1>4. \A s \in 1 .. local.current : kind'[s] = kind[s]
  <2>1. \A s \in 1 .. local.current : s \in Snapshots \ {local'.current}
    BY <1>1, PublishAssumption DEF Snapshots
  <2> QED BY <1>2, <2>1 DEF TypeOK
<1>5. Approved \subseteq Approved' /\ Approved' \subseteq Approved \cup {local'.current}
  BY <1>1, <1>4 DEF Approved
<1>6. /\ remote[t].pointer["current"] \in Nat /\ remote[t].pointer["current"] <= local.current
      /\ \A a \in remote[t].archives : a \in Nat /\ a <= local.current
  BY <1>1, <1>3 DEF Complete, Approved, Pointers, Sites, Pointed, Snapshots, None
<1>7. \A q \in Pointers : remote[t].pointer[q] <= local'.current
  BY <1>1, <1>3 DEF Complete, Sites, Pointed, Snapshots, None
<1>8. ASSUME NEW s \in Approved',
             \/ s <= remote[t].pointer["current"] \/ \E a \in remote[t].archives : s <= a
      PROVE  s \in Approved /\ s # local'.current
  BY <1>1, <1>5, <1>6, <1>8
<1> QED BY <1>1, <1>3, <1>5, <1>7, <1>8 DEF Complete

\* The oldest snapshot of the batch leaves no hole below it.
LEMMA ArchiveComplete ==
    ASSUME TypeOK, LiveInv, NEW t \in Targets, t = at[Live], pc[Live] = "upload",
           NEW s \in Snapshots, First(Live, s), UNCHANGED <<local, kind>>,
           remote'[t].archives = remote[t].archives \cup {s},
           remote'[t].pointer = remote[t].pointer
    PROVE  Complete(t)'
<1>1. /\ Approved' = Approved /\ Complete(t) /\ local.current \in Approved
      /\ queue[Live] \subseteq Batch /\ Batch \ remote[t].archives \subseteq queue[Live]
      /\ s \in queue[Live] /\ \A q \in queue[Live] : s <= q
  BY DEF LiveInv, Attempt, Approved, Site, First
<1>2. /\ remote[t].archives \in SUBSET Nat /\ IsFiniteSet(remote[t].archives) /\ s \in Nat
      /\ s \in Approved /\ Approved \subseteq Nat
  BY <1>1, SnapshotsFinite, ApprovedNumbers DEF TypeOK, Sites, Snapshots, Batch
<1>3. \A u : Held(remote[t].archives, u) => Held(remote[t].archives \cup {s}, u)
  BY <1>2, HeldAfterUpload
<1>4. ASSUME NEW u \in Approved \cap local.archives, NEW a \in remote[t].archives \cup {s}, u <= a
      PROVE  Held(remote[t].archives \cup {s}, u)
  <2>1. CASE u \in remote[t].archives \cup {s}
    BY <2>1 DEF Held
  <2>2. CASE u \notin remote[t].archives \cup {s}
    <3>1. u \in queue[Live] /\ s <= u /\ u # s /\ u \in Nat
      BY <1>1, <1>2, <2>2 DEF Batch
    <3>2. a \in remote[t].archives
      BY <1>2, <1>4, <3>1
    <3> QED BY <1>1, <1>3, <1>4, <3>2 DEF Complete
  <2> QED BY <2>1, <2>2
<1> QED BY <1>1, <1>2, <1>3, <1>4 DEF Complete

\* `current` moves once the target has everything that could be sent.
LEMMA PointerComplete ==
    ASSUME TypeOK, LiveInv, NEW t \in Targets, Batch \subseteq remote[t].archives,
           UNCHANGED <<local, kind>>, remote'[t].archives = remote[t].archives,
           \A q \in Pointers : remote'[t].pointer[q] <= local.current,
           remote'[t].pointer["current"] \in {remote[t].pointer["current"], local.current}
    PROVE  Complete(t)'
<1>1. Approved' = Approved /\ Complete(t)
  BY DEF LiveInv, Approved
<1>2. ASSUME NEW s \in Approved, local.current < s + LocalRetention
      PROVE  Held(remote[t].archives, s)
  <2>1. s \in 1 .. local.current
    BY ApprovedNumbers
  <2>2. s \in Batch
    BY <1>2, <2>1 DEF LiveInv, Recent, Batch
  <2> QED BY <2>2 DEF Held
<1> QED BY <1>1, <1>2 DEF Complete

\* Retention removes what newer archives have replaced.
LEMMA PruneComplete ==
    ASSUME TypeOK, LiveInv, NEW t \in Targets, t = at[Live],
           pc[Live] = "prune_archives", NEW s \in queue[Live], UNCHANGED <<local, kind>>,
           remote'[t].archives = remote[t].archives \ {s},
           remote'[t].pointer = remote[t].pointer
    PROVE  Complete(t)'
<1>1. Approved' = Approved /\ Complete(t) /\ s \notin Newest(remote[t].archives)
  BY DEF LiveInv, Attempt, Approved, Site
<1>2. remote[t].archives \in SUBSET Nat /\ IsFiniteSet(remote[t].archives) /\ Approved \subseteq Nat
  BY SnapshotsFinite, ApprovedNumbers DEF TypeOK, Sites
<1>3. \A u \in Approved : Held(remote[t].archives, u) => Held(remote[t].archives \ {s}, u)
  BY <1>1, <1>2, HeldAfterPrune
<1> QED BY <1>1, <1>3 DEF Complete

\* A publication of live_sync leaves the local store alone.
LEMMA LocalStands == ASSUME Publish(Live) PROVE UNCHANGED <<local, kind>>
<1>1. \A result : Lost(Live, result) \/ GiveUp(Live, result) \/ Report(Live, result)
        => UNCHANGED <<local, kind>>
  BY DEF Lost, GiveUp, Report
<1>2. CASE Check(Live) \/ Lock(Live) \/ Presence(Live) \/ UploadObject(Live) \/ UploadArchive(Live)
  BY <1>1, <1>2
  DEF Check, Advance, Lock, Presence, UploadObject, UploadArchive, Upload, Command
<1>3. CASE Uploaded(Live) \/ Previous(Live) \/ Lkg(Live) \/ Current(Live) \/ Verify(Live)
  BY <1>1, <1>3 DEF Uploaded, Previous, Lkg, Current, Verify, Upload, Command, Advance
<1>4. CASE Inventory(Live) \/ PruneArchive(Live) \/ Recheck(Live) \/ PruneObject(Live)
             \/ Pruned(Live)
  BY <1>1, <1>4 DEF Inventory, PruneArchive, Recheck, PruneObject, Pruned, Command
<1>5. CASE Release(Live) \/ NextTarget(Live)
  BY <1>5 DEF Release, NextTarget, Forget
<1> QED BY <1>2, <1>3, <1>4, <1>5 DEF Publish

\* Every step of live_sync keeps what its targets are owed.
LEMMA CompleteStep ==
    ASSUME Manuals = {}, TypeOK, SafeInv, ReportInv, LiveInv, [Next]_vars
    PROVE  \A t \in Targets : Complete(t)'
<1> SUFFICES ASSUME NEW t \in Targets PROVE Complete(t)'
  OBVIOUS
<1>0. Complete(t) /\ Publishers = {Live} /\ Live \in Publishers
  BY DEF LiveInv, Publishers
<1>1. ASSUME NEW p \in Publishers, Collect(p) PROVE Complete(t)'
  BY <1>1, CollectComplete
<1>2. ASSUME UNCHANGED <<local, kind, remote>> PROVE Complete(t)'
  BY <1>0, <1>2, SameSite
<1>3. ASSUME Publish(Live) PROVE Complete(t)'
  <2>1. UNCHANGED <<local, kind>>
    BY <1>0, <1>3, LocalStands
  <2>2. CASE t # at[Live]
    BY <1>0, <1>3, <2>1, <2>2, OwnTargetOnly, SameSite
  <2> SUFFICES ASSUME t = at[Live] PROVE Complete(t)'
    BY <2>2
  <2>3. /\ Site(Live) = remote[t] /\ remote[t] \in Sites
        /\ \A site : Become(Live, site) => remote'[t] = site
    BY DEF Site, TypeOK, Become
  <2>4. \A site, result : Upload(Live, site, result) \/ Command(Live, site, result)
          => \/ remote'[t] = site \/ remote' = remote
             \/ remote'[t] = [remote[t] EXCEPT !.temporary = TRUE]
    BY <2>3 DEF Upload, Command
  <2>5. ASSUME remote'[t].archives = remote[t].archives, remote'[t].pointer = remote[t].pointer
        PROVE  Complete(t)'
    BY <1>0, <2>1, <2>5, SameSite
  <2>6. ASSUME \/ remote' = remote
               \/ remote'[t] = [remote[t] EXCEPT !.temporary = TRUE]
        PROVE  Complete(t)'
    BY <2>3, <2>5, <2>6 DEF Sites
  <2>7. CASE Check(Live) \/ Presence(Live) \/ Uploaded(Live) \/ Verify(Live)
             \/ Inventory(Live) \/ Recheck(Live) \/ Pruned(Live) \/ NextTarget(Live)
    BY <2>6, <2>7 DEF Check, Report, Advance, Presence, Uploaded, Verify, Inventory, GiveUp,
                      Recheck, Pruned, NextTarget, Forget
  <2>8. CASE Lock(Live) \/ Release(Live)
    <3>1. \/ remote' = remote \/ \E b \in BOOLEAN : remote'[t] = [remote[t] EXCEPT !.locked = b]
      BY <2>3, <2>8 DEF Lock, Release
    <3> QED BY <2>3, <2>5, <3>1 DEF Sites
  <2>9. CASE UploadObject(Live)
    <3>1. \E s : \/ remote'[t] = [remote[t] EXCEPT !.objects = @ \cup {s}]
                 \/ remote' = remote \/ remote'[t] = [remote[t] EXCEPT !.temporary = TRUE]
      BY <2>3, <2>4, <2>9 DEF UploadObject
    <3> QED BY <2>3, <2>5, <2>6, <3>1 DEF Sites
  <2>10. CASE UploadArchive(Live)
    <3>1. PICK s \in Snapshots : 
            /\ First(Live, s)
            /\ \/ remote'[t] = [remote[t] EXCEPT !.archives = @ \cup {s}]
               \/ remote' = remote \/ remote'[t] = [remote[t] EXCEPT !.temporary = TRUE]
      BY <2>3, <2>4, <2>10 DEF UploadArchive
    <3>2. CASE remote'[t] = [remote[t] EXCEPT !.archives = @ \cup {s}]
      <4>1. /\ remote'[t].archives = remote[t].archives \cup {s}
            /\ remote'[t].pointer = remote[t].pointer
        BY <2>3, <3>2 DEF Sites
      <4>2. pc[Live] = "upload"
        BY <2>10 DEF UploadArchive
      <4> QED BY <2>1, <3>1, <4>1, <4>2, ArchiveComplete
    <3> QED BY <2>6, <3>1, <3>2
  <2>11. CASE Previous(Live) \/ Lkg(Live) \/ Current(Live)
    <3>1. /\ Batch \subseteq remote[t].archives
          /\ want[Live] = local.current /\ remote[t].pointer["current"] <= local.current
          /\ local.current \in Nat /\ remote[t].pointer["current"] \in Nat
          /\ \A q \in Pointers : remote[t].pointer[q] <= local.current
      BY <1>0, <2>3, <2>11, ApprovedNumbers
         DEF LiveInv, Attempt, Previous, Lkg, Current, Complete, Pointers, Sites, Pointed,
             Snapshots, None
    <3>2. \E q \in Pointers, s \in {want[Live], remote[t].pointer["current"]} :
            \/ /\ remote'[t] = [remote[t] EXCEPT !.pointer[q] = s]
               /\ q = "current" => s = want[Live]
            \/ remote' = remote \/ remote'[t] = [remote[t] EXCEPT !.temporary = TRUE]
      BY <2>3, <2>4, <2>11 DEF Previous, Lkg, Current, Repoint, Pointers
    <3>3. PICK q \in Pointers, s \in {want[Live], remote[t].pointer["current"]} :
            \/ /\ remote'[t] = [remote[t] EXCEPT !.pointer[q] = s]
               /\ q = "current" => s = want[Live]
            \/ remote' = remote \/ remote'[t] = [remote[t] EXCEPT !.temporary = TRUE]
      BY <3>2
    <3>4. CASE /\ remote'[t] = [remote[t] EXCEPT !.pointer[q] = s]
               /\ q = "current" => s = want[Live]
      <4>1. /\ remote'[t].archives = remote[t].archives
            /\ remote'[t].pointer["current"] \in {remote[t].pointer["current"], local.current}
            /\ \A x \in Pointers : remote'[t].pointer[x] <= local.current
        BY <2>3, <3>1, <3>3, <3>4 DEF Sites, Pointed, Pointers
      <4> QED BY <2>1, <3>1, <4>1, PointerComplete
    <3> QED BY <2>6, <3>3, <3>4
  <2>12. CASE PruneArchive(Live)
    <3>1. PICK s \in queue[Live] : \/ remote'[t] = [remote[t] EXCEPT !.archives = @ \ {s}]
                                   \/ remote' = remote
                                   \/ remote'[t] = [remote[t] EXCEPT !.temporary = TRUE]
      BY <2>3, <2>4, <2>12 DEF PruneArchive
    <3>2. CASE remote'[t] = [remote[t] EXCEPT !.archives = @ \ {s}]
      <4>1. /\ remote'[t].archives = remote[t].archives \ {s}
            /\ remote'[t].pointer = remote[t].pointer
        BY <2>3, <3>2 DEF Sites
      <4>2. pc[Live] = "prune_archives"
        BY <2>12 DEF PruneArchive
      <4> QED BY <2>1, <3>1, <4>1, <4>2, PruneComplete
    <3> QED BY <2>6, <3>1, <3>2
  <2>13. CASE PruneObject(Live)
    <3>1. \E s : \/ remote'[t] = [remote[t] EXCEPT !.objects = @ \ {s}]
                 \/ remote' = remote \/ remote'[t] = [remote[t] EXCEPT !.temporary = TRUE]
      BY <2>3, <2>4, <2>13 DEF PruneObject
    <3> QED BY <2>3, <2>5, <2>6, <3>1 DEF Sites
  <2> QED BY <1>3, <2>7, <2>8, <2>9, <2>10, <2>11, <2>12, <2>13 DEF Publish
<1>4. CASE BeginLive
  BY <1>2, <1>4 DEF BeginLive, Begin
<1>5. CASE Crash(Live)
  BY <1>2, <1>5 DEF Crash, Forget
<1>6. CASE UNCHANGED vars
  BY <1>2, <1>6 DEF vars
<1> QED BY <1>0, <1>1, <1>3, <1>4, <1>5, <1>6 DEF Next

\* A step that leaves the attempt nothing to promise but what it wants.
LEMMA AttemptEnds ==
    ASSUME Attempt, pc[Live] # "idle", UNCHANGED <<local, kind, want, batch>>,
           pc'[Live] \notin {"check", "lock", "presence", "upload", "previous", "lkg", "current",
                             "verify", "inventory", "prune_archives"}
    PROVE  Attempt'
  BY DEF Attempt, Approved, Batch

\* Every step of live_sync keeps the promises of its attempt.
LEMMA AttemptStep ==
    ASSUME Manuals = {}, TypeOK, LiveInv, [Next]_vars
    PROVE  Attempt'
<1>0. Attempt /\ Publishers = {Live} /\ Live \in Publishers
  BY DEF LiveInv, Publishers
<1>1. ASSUME NEW p \in Publishers, Collect(p) PROVE Attempt'
  BY <1>0, <1>1 DEF Collect, process, Attempt
<1>2. CASE BeginLive
  BY <1>0, <1>2 DEF BeginLive, Begin, Goto, TypeOK, Attempt, Approved, Batch
<1>3. ASSUME Publish(Live) PROVE Attempt'
  <2>1. UNCHANGED <<local, kind>> /\ Approved' = Approved /\ Batch' = Batch
    BY <1>0, <1>3, LocalStands DEF Approved, Batch
  <2>2. Site(Live) \in Sites /\ at[Live] \in Targets /\ pc[Live] # "idle"
    BY <1>0, <1>3 DEF Site, TypeOK, Publish, Check, Lock, Presence, UploadObject, UploadArchive,
                      Uploaded, Previous, Lkg, Current, Verify, Inventory, PruneArchive, Recheck,
                      PruneObject, Pruned, Release, NextTarget
  <2>3. /\ \A x : Goto(Live, x) => pc'[Live] = x
        /\ \A site : Become(Live, site) /\ UNCHANGED at => Site(Live)' = site
    BY <1>0, <2>2 DEF Goto, Become, Site, TypeOK
  <2>4. ASSUME NEW result, Lost(Live, result) \/ GiveUp(Live, result) \/ Report(Live, result)
        PROVE  Attempt'
    BY <1>0, <2>2, <2>3, <2>4, AttemptEnds DEF Lost, GiveUp, Report
  <2>5. ASSUME NEW site, NEW result, Upload(Live, site, result) \/ Command(Live, site, result)
        PROVE  Attempt'
    BY <2>4, <2>5 DEF Upload, Command
  <2>6. CASE Check(Live)
    BY <1>0, <2>1, <2>3, <2>4, <2>6 DEF Check, Advance, Attempt
  <2>7. CASE Lock(Live)
    BY <1>0, <2>1, <2>3, <2>4, <2>7 DEF Lock, Attempt
  <2>8. CASE Presence(Live)
    <3>1. CASE Lost(Live, "not_committed")
      BY <2>4, <3>1
    <3>2. CASE ~Lost(Live, "not_committed")
      <4>1. /\ pc'[Live] = "upload" /\ UNCHANGED <<want, batch, remote, at>> /\ pc[Live] = "presence"
            /\ queue'[Live] = queue[Live] \ (Site(Live).objects \cap Site(Live).archives)
        BY <1>0, <2>3, <2>8, <3>2 DEF Presence, TypeOK
      <4>2. Site(Live)' = Site(Live)
        BY <4>1 DEF Site
      <4> QED BY <1>0, <2>1, <4>1, <4>2 DEF Attempt
    <3> QED BY <3>1, <3>2
  <2>9. CASE UploadObject(Live)
    <3>1. PICK s \in Snapshots :
            \/ /\ Become(Live, [Site(Live) EXCEPT !.objects = @ \cup {s}])
               /\ UNCHANGED <<pc, at, want, batch, queue>>
            \/ Upload(Live, [Site(Live) EXCEPT !.objects = @ \cup {s}], "not_committed")
            \/ GiveUp(Live, "not_committed")
      BY <2>9 DEF UploadObject
    <3>2. ASSUME Become(Live, [Site(Live) EXCEPT !.objects = @ \cup {s}]),
                 UNCHANGED <<pc, at, want, batch, queue>>
          PROVE  Attempt'
      <4>1. Site(Live)'.archives = Site(Live).archives
        BY <2>2, <2>3, <3>2 DEF Sites
      <4> QED BY <1>0, <2>1, <3>2, <4>1 DEF Attempt
    <3> QED BY <2>4, <2>5, <3>1, <3>2
  <2>10. CASE UploadArchive(Live)
    <3>1. PICK s \in Snapshots :
            \/ /\ Become(Live, [Site(Live) EXCEPT !.archives = @ \cup {s}])
               /\ queue' = [queue EXCEPT ![Live] = @ \ {s}]
               /\ UNCHANGED <<pc, at, want, batch>>
            \/ Upload(Live, [Site(Live) EXCEPT !.archives = @ \cup {s}], "not_committed")
      BY <2>10 DEF UploadArchive
    <3>2. ASSUME Become(Live, [Site(Live) EXCEPT !.archives = @ \cup {s}]),
                 queue' = [queue EXCEPT ![Live] = @ \ {s}], UNCHANGED <<pc, at, want, batch>>
          PROVE  Attempt'
      <4>1. /\ Site(Live)'.archives = Site(Live).archives \cup {s}
            /\ queue'[Live] = queue[Live] \ {s} /\ pc'[Live] = "upload"
        BY <1>0, <2>2, <2>3, <2>10, <3>2 DEF Sites, TypeOK, UploadArchive
      <4> QED BY <1>0, <2>1, <3>2, <4>1 DEF Attempt
    <3> QED BY <2>5, <3>1, <3>2
  <2>11. CASE Uploaded(Live)
    <3>1. CASE Lost(Live, "not_committed")
      BY <2>4, <3>1
    <3>2. CASE ~Lost(Live, "not_committed")
      <4>1. /\ pc'[Live] \in {"previous", "lkg", "inventory"} /\ pc[Live] = "upload"
            /\ queue[Live] = {} /\ UNCHANGED <<want, batch, remote, at>>
        BY <2>3, <2>11, <3>2 DEF Uploaded, Advance
      <4>2. Site(Live)' = Site(Live)
        BY <4>1 DEF Site
      <4> QED BY <1>0, <2>1, <4>1, <4>2 DEF Attempt
    <3> QED BY <3>1, <3>2
  <2>12. CASE Previous(Live) \/ Lkg(Live) \/ Current(Live)
    <3>1. ASSUME ~Attempt'
          PROVE  \E x \in {"lkg", "current", "verify"}, q \in Pointers : \E s :
                    /\ Advance(Live, x)
                    /\ remote' = remote \/ Become(Live, Repoint(Live, q, s))
      BY <2>5, <2>12, <3>1 DEF Previous, Lkg, Current, Pointers
    <3>2. ASSUME NEW x \in {"lkg", "current", "verify"}, NEW q \in Pointers, NEW s,
                 Advance(Live, x), remote' = remote \/ Become(Live, Repoint(Live, q, s))
          PROVE  Attempt'
      <4>1. /\ pc'[Live] \in {"lkg", "current", "verify"} /\ UNCHANGED <<want, batch, at>>
            /\ pc[Live] \in {"previous", "lkg", "current"}
        BY <2>3, <2>12, <3>2 DEF Advance, Previous, Lkg, Current
      <4>2. Site(Live)'.archives = Site(Live).archives
        <5>1. CASE remote' = remote
          BY <4>1, <5>1 DEF Site
        <5>2. CASE Become(Live, Repoint(Live, q, s))
          <6>1. Site(Live)' = Repoint(Live, q, s)
            BY <2>3, <4>1, <5>2
          <6>2. Repoint(Live, q, s).archives = Site(Live).archives
            BY <2>2 DEF Repoint, Sites
          <6> QED BY <6>1, <6>2
        <5> QED BY <3>2, <5>1, <5>2
      <4> QED BY <1>0, <2>1, <4>1, <4>2 DEF Attempt
    <3> QED BY <3>1, <3>2
  <2>13. CASE Verify(Live)
    <3>1. CASE Lost(Live, "not_committed")
      BY <2>4, <3>1
    <3>2. CASE Advance(Live, "inventory")
      <4>1. /\ pc'[Live] = "inventory" /\ pc[Live] = "verify" /\ UNCHANGED <<want, batch, remote, at>>
        BY <2>3, <2>13, <3>2 DEF Verify, Advance
      <4> QED BY <1>0, <2>1, <4>1 DEF Attempt, Site
    <3> QED BY <2>13, <3>1, <3>2 DEF Verify
  <2>14. CASE Inventory(Live)
    <3>1. CASE Lost(Live, "committed")
      BY <2>4, <3>1
    <3>2. CASE GiveUp(Live, "committed")
      BY <2>4, <3>2
    <3>3. CASE ~Lost(Live, "committed") /\ ~GiveUp(Live, "committed")
      <4>1. /\ pc'[Live] = "prune_archives" /\ UNCHANGED <<want, batch, remote, at>>
            /\ pc[Live] = "inventory"
            /\ queue'[Live] = Site(Live).archives \ Kept(Site(Live))
        BY <1>0, <2>3, <2>14, <3>3 DEF Inventory, TypeOK
      <4>2. Site(Live)' = Site(Live)
        BY <4>1 DEF Site
      <4> QED BY <1>0, <2>1, <4>1, <4>2 DEF Attempt, Kept
    <3> QED BY <3>1, <3>2, <3>3
  <2>15. CASE PruneArchive(Live)
    <3>1. PICK s \in queue[Live] :
            \/ /\ Become(Live, [Site(Live) EXCEPT !.archives = @ \ {s}])
               /\ queue' = [queue EXCEPT ![Live] = @ \ {s}]
               /\ UNCHANGED <<pc, at, want, batch>>
            \/ Command(Live, [Site(Live) EXCEPT !.archives = @ \ {s}], "committed")
      BY <2>15 DEF PruneArchive
    <3>2. ASSUME Become(Live, [Site(Live) EXCEPT !.archives = @ \ {s}]),
                 queue' = [queue EXCEPT ![Live] = @ \ {s}], UNCHANGED <<pc, at, want, batch>>
          PROVE  Attempt'
      <4>1. /\ queue'[Live] \subseteq queue[Live] /\ pc[Live] = "prune_archives"
            /\ pc'[Live] = "prune_archives"
        BY <1>0, <2>15, <3>2 DEF PruneArchive, TypeOK
      <4>2. Site(Live)'.archives = Site(Live).archives \ {s}
        <5>1. [Site(Live) EXCEPT !.archives = @ \ {s}].archives = Site(Live).archives \ {s}
          BY <2>2 DEF Sites
        <5> QED BY <2>3, <3>2, <5>1
      <4>3. queue[Live] \cap Newest(Site(Live).archives) = {}
        BY <1>0, <4>1 DEF Attempt
      <4>4. Site(Live).archives \in SUBSET Nat /\ IsFiniteSet(Site(Live).archives)
        BY <2>2, SnapshotsFinite DEF Sites
      <4>5. Newest(Site(Live).archives \ {s}) = Newest(Site(Live).archives)
        BY <4>3, <4>4, HeldAfterPrune
      <4>6. queue'[Live] \cap Newest(Site(Live)'.archives) = {}
        BY <4>1, <4>2, <4>3, <4>5
      <4>7. Newest(Site(Live)'.archives) = (Newest(Site(Live).archives))'
        BY DEF Newest
      <4> QED BY <1>0, <2>1, <3>2, <4>1, <4>6, <4>7 DEF Attempt
    <3> QED BY <2>5, <3>1, <3>2
  <2>16. CASE Recheck(Live) \/ PruneObject(Live) \/ Pruned(Live) \/ Release(Live)
    <3>1. \/ \E site, result : Command(Live, site, result)
          \/ \E result : Lost(Live, result)
          \/ pc'[Live] \in {"prune_objects", "release", "reported"} /\ UNCHANGED <<want, batch>>
      BY <2>3, <2>16 DEF Recheck, PruneObject, Pruned, Release
    <3> QED BY <1>0, <2>1, <2>2, <2>4, <2>5, <3>1, AttemptEnds
  <2>17. CASE NextTarget(Live)
    <3>1. CASE Forget(Live)
      BY <2>3, <3>1 DEF Forget, Attempt
    <3>2. CASE ~Forget(Live)
      <4>1. /\ pc'[Live] = "check" /\ UNCHANGED <<want, batch>> /\ pc[Live] = "reported"
            /\ queue'[Live] = batch[Live]
        BY <1>0, <2>3, <2>17, <3>2 DEF NextTarget, TypeOK
      <4> QED BY <1>0, <2>1, <4>1 DEF Attempt
    <3> QED BY <3>1, <3>2
  <2> QED BY <1>3, <2>6, <2>7, <2>8, <2>9, <2>10, <2>11, <2>12, <2>13, <2>14, <2>15, <2>16,
             <2>17 DEF Publish
<1>4. CASE Crash(Live)
  BY <1>0, <1>4 DEF Crash, Forget, Goto, TypeOK, Attempt
<1>5. CASE UNCHANGED vars
  BY <1>0, <1>5 DEF vars, process, Attempt, Approved, Batch, Site, Newest
<1> QED BY <1>0, <1>1, <1>2, <1>3, <1>4, <1>5 DEF Next

LEMMA RecentStep == ASSUME Manuals = {}, TypeOK, LiveInv, [Next]_vars PROVE Recent'
<1>1. ASSUME NEW p \in Publishers, Collect(p) PROVE Recent'
  BY <1>1, CollectRecent DEF LiveInv
<1>2. CASE UNCHANGED local
  BY <1>2 DEF LiveInv, Recent
<1>3. (\E p \in Publishers : Collect(p)) \/ UNCHANGED local
  BY LocalStands DEF Next, Publishers, BeginLive, Begin, Crash, vars
<1> QED BY <1>1, <1>2, <1>3

LEMMA LiveInvariant ==
    ASSUME Manuals = {} PROVE Spec => [](TypeOK /\ SafeInv /\ ReportInv /\ LiveInv)
<1>1. Init => ReportInv /\ LiveInv
  <2> SUFFICES ASSUME Init PROVE ReportInv /\ LiveInv
    OBVIOUS
  <2>1. ReportInv /\ Attempt
    BY DEF Init, ReportInv, Committed, Attempt, Publishers
  <2>2. local.current = 0 /\ local.archives = {} /\ Approved = {}
    BY DEF Init, None, Approved
  <2>3. ASSUME NEW t \in Targets PROVE Complete(t)
    <3>1. remote[t].archives = {} /\ \A q \in Pointers : remote[t].pointer[q] = 0
      BY DEF Init, Unpublished, None
    <3> QED BY <2>2, <3>1 DEF Complete
  <2>4. Recent
    BY <2>2 DEF Recent
  <2> QED BY <2>1, <2>3, <2>4 DEF LiveInv
<1>2. TypeOK /\ SafeInv /\ ReportInv /\ LiveInv /\ [Next]_vars => LiveInv'
  BY CompleteStep, AttemptStep, RecentStep DEF LiveInv
<1> QED BY <1>1, <1>2, TypeInit, TypeStep, SafeInit, SafeStep, ReportStep, PTL DEF Spec

\* With live_sync as the only publisher, whatever is lost on the way and whenever it dies: a
\* target has had every approved snapshot among the last LocalRetention up to its `current`,
\* and no hole below its newest archive but what the local store has forgotten.
THEOREM BacklogTheorem == ASSUME Manuals = {} PROVE Spec => []BacklogComplete
<1>1. LiveInv => BacklogComplete
  BY DEF LiveInv, Complete, BacklogComplete, BacklogBeforeCurrent, NoArchiveGaps
<1> QED BY LiveInvariant, <1>1, PTL

\* With live_sync as the only publisher, `current` never moves back on a target, and a fresh
\* last_known_good gives way to a newer fresh one only.
THEOREM PointersTheorem == ASSUME Manuals = {} PROVE Spec => PointersNeverGoBack
<1>1. TypeOK /\ LiveInv /\ [Next]_vars => [NeverBack]_vars
  <2> SUFFICES ASSUME TypeOK, LiveInv, [Next]_vars, NEW t \in Targets
               PROVE  LET old == remote[t].pointer new == remote'[t].pointer IN
                      /\ new["current"] >= old["current"]
                      /\ (old["last_known_good"] # None /\ kind[old["last_known_good"]].fresh)
                           => /\ new["last_known_good"] >= old["last_known_good"]
                              /\ kind[new["last_known_good"]].fresh
    BY DEF NeverBack
  <2> DEFINE old == remote[t].pointer
             new == remote'[t].pointer
  <2>0. /\ Publishers = {Live} /\ Live \in Publishers /\ Complete(t) /\ local.current \in Nat
        /\ remote[t] \in Sites /\ old \in Pointed
        /\ \A q \in Pointers : old[q] \in Nat /\ old[q] <= local.current
    BY ApprovedNumbers DEF Publishers, LiveInv, TypeOK, Sites, Pointed, Snapshots, None, Complete
  <2>1. CASE new = old
    BY <2>0, <2>1 DEF Pointers
  <2>2. ASSUME new # old
        PROVE  /\ t = at[Live] /\ want[Live] = local.current
               /\ \/ new = [old EXCEPT !["previous"] = old["current"]]
                  \/ new = [old EXCEPT !["last_known_good"] = want[Live]] /\ PromoteLkg(Live)
                  \/ new = [old EXCEPT !["current"] = want[Live]]
    <3>1. Publish(Live)
      BY <2>0, <2>2 DEF Next, BeginLive, Begin, Collect, Crash, Forget, vars
    <3>2. t = at[Live]
      BY <2>0, <2>2, <3>1, OwnTargetOnly
    <3>3. /\ Site(Live) = remote[t]
          /\ \A site : Become(Live, site) => remote'[t] = site
      BY <3>2 DEF Site, TypeOK, Become
    <3>4. \A site, result : Upload(Live, site, result) \/ Command(Live, site, result)
            => remote'[t].pointer = site.pointer \/ remote'[t].pointer = old
      BY <2>0, <3>3 DEF Upload, Command, Sites
    <3>5. \A s : /\ [Site(Live) EXCEPT !.archives = @ \cup {s}].pointer = old
                 /\ [Site(Live) EXCEPT !.objects = @ \cup {s}].pointer = old
                 /\ [Site(Live) EXCEPT !.archives = @ \ {s}].pointer = old
                 /\ [Site(Live) EXCEPT !.objects = @ \ {s}].pointer = old
                 /\ [Site(Live) EXCEPT !.locked = s].pointer = old
      BY <2>0, <3>3 DEF Sites
    <3>6. Previous(Live) \/ Lkg(Live) \/ Current(Live)
      <4>1. CASE Check(Live) \/ Presence(Live) \/ Uploaded(Live) \/ Verify(Live)
                 \/ Inventory(Live) \/ Recheck(Live) \/ Pruned(Live) \/ NextTarget(Live)
        BY <2>2, <4>1 DEF Check, Report, Advance, Presence, Uploaded, Verify, Inventory, GiveUp, Recheck,
                          Pruned, NextTarget, Forget
      <4>2. CASE Lock(Live) \/ Release(Live)
        <5>1. remote' = remote \/ \E b : Become(Live, [Site(Live) EXCEPT !.locked = b])
          BY <4>2 DEF Lock, Release
        <5>2. ASSUME NEW b, Become(Live, [Site(Live) EXCEPT !.locked = b]) PROVE FALSE
          <6>1. remote'[t] = [Site(Live) EXCEPT !.locked = b]
            BY <3>3, <5>2
          <6>2. [Site(Live) EXCEPT !.locked = b].pointer = old
            BY <3>5
          <6> QED BY <2>2, <6>1, <6>2
        <5> QED BY <2>2, <5>1, <5>2
      <4>3. CASE UploadObject(Live) \/ UploadArchive(Live)
        <5>1. PICK s, site :
                /\ \/ site = [Site(Live) EXCEPT !.archives = @ \cup {s}]
                   \/ site = [Site(Live) EXCEPT !.objects = @ \cup {s}]
                /\ Become(Live, site) \/ Upload(Live, site, "not_committed")
          BY <2>2, <4>3 DEF UploadObject, UploadArchive
        <5>2. site.pointer = old
          BY <3>5, <5>1
        <5>3. remote'[t].pointer = site.pointer \/ remote'[t].pointer = old
          BY <3>3, <3>4, <5>1
        <5> QED BY <2>2, <5>2, <5>3
      <4>4. CASE PruneArchive(Live) \/ PruneObject(Live)
        <5>1. \A site, result : Command(Live, site, result) =>
                remote'[t].pointer = site.pointer \/ remote'[t].pointer = old
          BY <3>4
        <5> QED BY <2>2, <3>3, <3>5, <4>4, <5>1 DEF PruneArchive, PruneObject
      <4> QED BY <3>1, <4>1, <4>2, <4>3, <4>4 DEF Publish
    <3>7. want[Live] = local.current
      BY <3>6 DEF LiveInv, Attempt, Previous, Lkg, Current
    <3>8. \/ new = Repoint(Live, "previous", old["current"]).pointer
          \/ new = Repoint(Live, "last_known_good", want[Live]).pointer /\ PromoteLkg(Live)
          \/ new = Repoint(Live, "current", want[Live]).pointer
      BY <2>2, <3>3, <3>4, <3>6 DEF Previous, Lkg, Current
    <3>9. /\ Repoint(Live, "previous", old["current"]).pointer
               = [old EXCEPT !["previous"] = old["current"]]
          /\ Repoint(Live, "last_known_good", want[Live]).pointer
               = [old EXCEPT !["last_known_good"] = want[Live]]
          /\ Repoint(Live, "current", want[Live]).pointer = [old EXCEPT !["current"] = want[Live]]
      BY <2>0, <3>3 DEF Sites, Repoint
    <3> HIDE DEF new, old
    <3> QED BY <3>2, <3>7, <3>8, <3>9
  <2>3. CASE new # old
    <3>1. PromoteLkg(Live) => kind[local.current].fresh \/ old["last_known_good"] = None
      BY <2>2, <2>3 DEF PromoteLkg, Site
    <3>2. /\ old["current"] \in Nat /\ old["current"] <= local.current
          /\ old["last_known_good"] \in Nat /\ old["last_known_good"] <= local.current
      BY <2>0 DEF Pointers
    <3>3. CASE new = [old EXCEPT !["previous"] = old["current"]]
      <4>1. /\ new["current"] = old["current"]
            /\ new["last_known_good"] = old["last_known_good"]
        BY <2>0, <3>3 DEF Pointed, Pointers
      <4> QED BY <3>2, <4>1
    <3>4. CASE new = [old EXCEPT !["last_known_good"] = want[Live]] /\ PromoteLkg(Live)
      <4>1. new["current"] = old["current"] /\ new["last_known_good"] = local.current
        BY <2>0, <2>2, <2>3, <3>4 DEF Pointed, Pointers
      <4> QED BY <2>0, <3>1, <3>2, <3>4, <4>1
    <3>5. CASE new = [old EXCEPT !["current"] = want[Live]]
      <4>1. new["current"] = local.current /\ new["last_known_good"] = old["last_known_good"]
        BY <2>0, <2>2, <2>3, <3>5 DEF Pointed, Pointers
      <4> QED BY <2>0, <3>2, <4>1
    <3> HIDE DEF new, old
    <3> QED BY <2>2, <2>3, <3>3, <3>4, <3>5
  <2> QED BY <2>1, <2>3
<1> QED BY LiveInvariant, <1>1, PTL DEF Spec, PointersNeverGoBack
=============================================================================
