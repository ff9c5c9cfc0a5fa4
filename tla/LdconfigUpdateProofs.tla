------------------------ MODULE LdconfigUpdateProofs -------------------------
(***************************************************************************)
(* A deployment comes up with a linker cache of its own libraries unless   *)
(* ldconfig failed or the cache was lost, and no program maps part of a    *)
(* cache, for any deployments, configurations and bounds.                  *)
(***************************************************************************)
EXTENDS LdconfigUpdate, TLAPS

\* Where the image's cache is being installed, it is for this image's configuration.
Installing == {"copy", "copying", "rename", "label"}
FitsImage == booted \in WithCache /\ Now.conf = VendorConf[booted]

\* A copy of /etc may be marked: its cache is of its deployment, or what was excepted happened.
Markable(x, r) ==
  \/ r.cache.of = x
  \/ r.trouble = "power" /\ r.cache = NoCache
  \/ r.trouble = "ldconfig"

\* What holds at each point of the service: /etc is marked as updated only with a cache that
\* may be, and not before the service has ended.
Progress ==
  /\ \A x \in Deployments : etc[x].updated => Markable(x, etc[x])
  /\ pc = "up" => Now.updated
  /\ pc \notin {"off", "up"} => ~Now.updated
  /\ pc \in Installing => FitsImage
  /\ pc = "rename" => tmp = VendorCache(booted)
  /\ pc = "label" => Now.cache = Cache(booted, Now.conf)
  /\ pc = "done" => Now.cache = Cache(booted, Now.conf) \/ Now.trouble = "ldconfig"

\* The inductive invariant.
IInv == TypeOK /\ ReadersSafe /\ Progress

LEMMA CacheTypes ==
  ASSUME DeploymentsAssumption
  PROVE  /\ Partial \notin Caches
         /\ \A x \in Deployments, conf \in Confs : Cache(x, conf) \in Caches
         /\ \A x \in Deployments : VendorCache(x) \in Caches /\ VendorConf[x] \in Confs
BY DEF DeploymentsAssumption, Partial, NoCache, Cache, Caches, VendorCache, Confs

\* The fields of a copy of /etc after one of them has been changed.
LEMMA EtcTypes ==
  ASSUME NEW r \in Etc, NEW conf \in Confs, NEW cache \in Caches \union {Partial},
         NEW t \in Troubles
  PROVE  /\ [r EXCEPT !.cache = cache, !.trouble = t] \in Etc
         /\ [r EXCEPT !.trouble = t] \in Etc
         /\ [r EXCEPT !.updated = TRUE] \in Etc
         /\ [r EXCEPT !.conf = conf] \in Etc
         /\ [r EXCEPT !.conf = conf, !.cache = cache, !.trouble = t] \in Etc
BY DEF Etc

LEMMA FreshType ==
  ASSUME DeploymentsAssumption, NEW x \in Deployments
  PROVE  /\ Fresh(x) \in Etc /\ Fresh(x).cache # Partial /\ ~Fresh(x).updated
BY CacheTypes DEF Fresh, Etc, Confs, Troubles

LEMMA InitInv == ASSUME DeploymentsAssumption PROVE Init => IInv
<1> SUFFICES ASSUME Init PROVE IInv
    OBVIOUS
<1>1. \A x \in Deployments : etc[x] \in Etc /\ etc[x].cache # Partial /\ ~etc[x].updated
  BY FreshType DEF Init
<1>2. TypeOK
  BY <1>1 DEF Init, TypeOK, Caches, DeploymentsAssumption
<1>3. ReadersSafe
  BY <1>1 DEF ReadersSafe
<1>4. Progress
  BY <1>1 DEF Init, Progress, Installing
<1> QED
  BY <1>2, <1>3, <1>4 DEF IInv

\* A step that changes the running copy of /etc and keeps the invariant of the others.
LEMMA SetEtcKeeps ==
  ASSUME IInv, NEW r \in Etc, r.cache # Partial, r.updated => Markable(booted, r), SetEtc(r),
         UNCHANGED booted
  PROVE  /\ etc' \in [Deployments -> Etc] /\ ReadersSafe' /\ Now' = r
         /\ \A x \in Deployments : etc'[x].updated => Markable(x, etc'[x])
BY DEF IInv, TypeOK, SetEtc, ReadersSafe, Progress, Now

\* One step per action.
LEMMA StepInv == ASSUME DeploymentsAssumption PROVE IInv /\ [Next]_vars => IInv'
<1> SUFFICES ASSUME IInv, [Next]_vars PROVE IInv'
    OBVIOUS
<1> USE DEF Goto, Unchanged, Same
<1>a. /\ booted \in Deployments /\ Now \in Etc /\ Now.cache \in Caches /\ Now.conf \in Confs
      /\ Now.trouble \in Troubles /\ Now.updated \in BOOLEAN
      /\ Now.updated => Markable(booted, Now)
  BY DEF IInv, TypeOK, ReadersSafe, Progress, Now, Etc
<1>b. ASSUME UNCHANGED <<etc, booted>> PROVE ReadersSafe' /\ Now' = Now /\ etc' \in [Deployments -> Etc]
  BY <1>b DEF IInv, TypeOK, ReadersSafe, Now
<1>1. CASE UNCHANGED vars
  BY <1>1, <1>b DEF vars, IInv, TypeOK, Progress, FitsImage
<1>2. CASE PowerOn
  BY <1>2, <1>b DEF PowerOn, IInv, TypeOK, Progress, FitsImage, Installing
<1>3. CASE ServiceChecks
  <2>1. pc' = "copy" => FitsImage
    BY <1>3 DEF ServiceChecks, Usable, VendorCache, FitsImage, ldconfig_configs_match
  <2>2. pc' = "done" => Now.cache = Cache(booted, Now.conf)
    BY <1>3 DEF ServiceChecks, Usable, VendorCache, ldconfig_configs_match
  <2>3. pc' \in {"ldconfig", "done", "copy"} /\ UNCHANGED <<etc, tmp, deployed, booted, synced, faults, edits>>
    BY <1>3 DEF ServiceChecks
  <2> QED
    BY <1>3, <1>b, <2>1, <2>2, <2>3 DEF ServiceChecks, IInv, TypeOK, Progress, FitsImage, Installing
<1>4. CASE CopyStarts
  BY <1>4, <1>b DEF CopyStarts, IInv, TypeOK, Progress, FitsImage, Installing
<1>5. CASE CopyEnds
  <2>1. tmp' \in Caches \union {Partial}
    BY <1>5, <1>a, CacheTypes DEF CopyEnds, Caches
  <2>2. /\ UNCHANGED <<etc, deployed, booted, synced, faults, edits>> /\ pc = "copying"
        /\ pc' \in {"rename", "ldconfig"} /\ (pc' = "rename" => tmp' = VendorCache(booted))
    BY <1>5 DEF CopyEnds
  <2> QED
    BY <1>b, <2>1, <2>2 DEF IInv, TypeOK, Progress, FitsImage, Installing
<1>6. CASE Rename
  <2> DEFINE r == [Now EXCEPT !.cache = tmp, !.trouble = "none"]
  <2>1. FitsImage /\ tmp = VendorCache(booted) /\ ~Now.updated
    BY <1>6 DEF Rename, IInv, Progress, Installing
  <2>2. r \in Etc /\ r.cache = Cache(booted, VendorConf[booted]) /\ ~r.updated /\ r.conf = Now.conf
    <3>1. tmp = Cache(booted, VendorConf[booted]) /\ Now.conf = VendorConf[booted]
      BY <2>1 DEF FitsImage, VendorCache
    <3>2. Cache(booted, VendorConf[booted]) \in Caches /\ Now \in Etc /\ ~Now.updated
      BY <1>a, <2>1, CacheTypes
    <3> QED
      BY <3>1, <3>2 DEF Etc, Troubles
  <2>3. r.cache # Partial
    BY <1>a, <2>2, CacheTypes
  <2> HIDE DEF r
  <2>4. SetEtc(r) /\ UNCHANGED booted
    BY <1>6 DEF Rename, r
  <2>5. /\ etc' \in [Deployments -> Etc] /\ ReadersSafe' /\ Now' = r
        /\ \A x \in Deployments : etc'[x].updated => Markable(x, etc'[x])
    BY <2>2, <2>3, <2>4, SetEtcKeeps
  <2>6. TypeOK'
    BY <1>6, <2>5 DEF Rename, IInv, TypeOK, Caches
  <2>7. Progress'
    BY <1>6, <2>1, <2>2, <2>5 DEF Rename, Progress, FitsImage, Installing
  <2> QED
    BY <2>5, <2>6, <2>7 DEF IInv
<1>7. CASE RenameFails
  BY <1>7, <1>b DEF RenameFails, IInv, TypeOK, Progress, FitsImage, Installing, Caches
<1>8. CASE restorecon
  BY <1>8, <1>b DEF restorecon, IInv, TypeOK, Progress, FitsImage, Installing
<1>9. CASE ldconfig
  <2> DEFINE done == [Now EXCEPT !.cache = Cache(booted, Now.conf), !.trouble = "none"]
             kept == [Now EXCEPT !.trouble = "ldconfig"]
  <2>0. pc = "ldconfig" /\ ~Now.updated
    BY <1>9 DEF ldconfig, IInv, Progress, Installing
  <2>1. /\ done \in Etc /\ done.cache = Cache(booted, Now.conf) /\ ~done.updated
        /\ done.conf = Now.conf
    <3>1. Cache(booted, Now.conf) \in Caches /\ Now \in Etc /\ ~Now.updated
      BY <1>a, <2>0, CacheTypes
    <3> QED
      BY <3>1 DEF Etc, Troubles
  <2>2. kept \in Etc /\ kept.cache = Now.cache /\ ~kept.updated /\ kept.trouble = "ldconfig"
    <3>1. Now \in Etc /\ ~Now.updated
      BY <1>a, <2>0
    <3> QED
      BY <3>1 DEF Etc, Troubles
  <2>3. done.cache # Partial /\ kept.cache # Partial
    BY <1>a, <2>1, <2>2, CacheTypes
  <2>4. SetEtc(done) \/ SetEtc(kept)
    BY <1>9 DEF ldconfig
  <2>a. UNCHANGED <<booted, deployed, tmp, faults, edits>> /\ pc' = "done"
    BY <1>9 DEF ldconfig
  <2>5. synced' \in BOOLEAN
    BY <1>9 DEF ldconfig, IInv, TypeOK
  <2> HIDE DEF done, kept
  <2>6. PICK r \in Etc : /\ SetEtc(r) /\ r.cache # Partial /\ ~r.updated
                         /\ r.cache = Cache(booted, r.conf) \/ r.trouble = "ldconfig"
    BY <2>1, <2>2, <2>3, <2>4
  <2>7. /\ etc' \in [Deployments -> Etc] /\ ReadersSafe' /\ Now' = r
        /\ \A x \in Deployments : etc'[x].updated => Markable(x, etc'[x])
    <3>1. SetEtc(r) /\ r.cache # Partial /\ (r.updated => Markable(booted, r))
      BY <2>6
    <3> QED
      BY <3>1, <2>a, SetEtcKeeps
  <2>8. TypeOK'
    BY <2>5, <2>7, <2>a DEF IInv, TypeOK
  <2>9. Progress'
    <3>1. ~Now'.updated /\ (Now'.cache = Cache(booted', Now'.conf) \/ Now'.trouble = "ldconfig")
      BY <2>6, <2>7, <2>a
    <3> QED
      BY <2>7, <2>a, <3>1 DEF Progress, Installing
  <2> QED
    BY <2>7, <2>8, <2>9 DEF IInv
<1>10. CASE update_done
  <2> DEFINE r == [Now EXCEPT !.updated = TRUE]
  <2>0. pc = "done" /\ Markable(booted, Now)
    BY <1>10 DEF update_done, IInv, Progress, Cache, Markable
  <2>1. r \in Etc /\ r.cache = Now.cache /\ r.trouble = Now.trouble /\ r.updated
    BY <1>a, EtcTypes DEF Etc
  <2>2. r.cache # Partial /\ Markable(booted, r)
    BY <1>a, <2>0, <2>1, CacheTypes DEF Markable
  <2> HIDE DEF r
  <2>3. SetEtc(r) /\ UNCHANGED <<booted, deployed, tmp, synced, faults, edits>> /\ pc' = "up"
    BY <1>10 DEF update_done, r
  <2>4. /\ etc' \in [Deployments -> Etc] /\ ReadersSafe' /\ Now' = r
        /\ \A x \in Deployments : etc'[x].updated => Markable(x, etc'[x])
    BY <2>0, <2>1, <2>2, <2>3, SetEtcKeeps
  <2>5. TypeOK'
    BY <2>3, <2>4 DEF IInv, TypeOK
  <2>6. Progress'
    BY <2>1, <2>3, <2>4 DEF Progress, Installing
  <2> QED
    BY <2>4, <2>5, <2>6 DEF IInv
<1>11. CASE PowerOff
  BY <1>11, <1>b DEF PowerOff, IInv, TypeOK, Progress, FitsImage, Installing
<1>16. CASE Written
  BY <1>16, <1>b DEF Written, IInv, TypeOK, Progress, FitsImage, Installing
<1>12. CASE PowerFails
  <2>0. /\ pc' = "off" /\ tmp' = NoCache /\ synced' = TRUE
        /\ UNCHANGED <<deployed, booted, edits>> /\ faults' \in 0 .. MaxFaults
    BY <1>12 DEF PowerFails, IInv, TypeOK, DeploymentsAssumption
  <2>1. CASE UNCHANGED etc
    BY <2>0, <2>1, <1>b DEF IInv, TypeOK, Progress, Installing, Caches
  <2>2. CASE SetEtc([Now EXCEPT !.cache = NoCache, !.trouble = "power"])
    <3> DEFINE r == [Now EXCEPT !.cache = NoCache, !.trouble = "power"]
    <3>1. r \in Etc /\ r.cache = NoCache /\ r.trouble = "power"
      <4>1. NoCache \in Caches /\ Now \in Etc
        BY <1>a DEF Caches
      <4> QED
        BY <4>1 DEF Etc, Troubles
    <3>2. r.cache # Partial /\ Markable(booted, r)
      BY <3>1, CacheTypes DEF Caches, Markable
    <3> HIDE DEF r
    <3>3. SetEtc(r)
      BY <2>2 DEF r
    <3>4. /\ etc' \in [Deployments -> Etc] /\ ReadersSafe' /\ Now' = r
          /\ \A x \in Deployments : etc'[x].updated => Markable(x, etc'[x])
      BY <2>0, <3>1, <3>2, <3>3, SetEtcKeeps
    <3> QED
      BY <2>0, <3>4 DEF IInv, TypeOK, Progress, Installing, Caches
  <2> QED
    BY <1>12, <2>1, <2>2 DEF PowerFails
<1>13. CASE Edit
  <2>0. /\ pc = "up" /\ UNCHANGED <<deployed, booted, pc, tmp, faults>>
        /\ Now.updated /\ Markable(booted, Now) /\ edits' \in 0 .. MaxEdits /\ synced' \in BOOLEAN
    <3>1. edits < MaxEdits /\ edits' = edits + 1 /\ UNCHANGED <<deployed, booted, pc, tmp, faults>>
      BY <1>13 DEF Edit
    <3>2. pc = "up" /\ (UNCHANGED synced \/ synced' = TRUE)
      BY <1>13 DEF Edit
    <3>3. Now.updated /\ Markable(booted, Now) /\ synced' \in BOOLEAN
      BY <1>a, <3>2 DEF IInv, TypeOK, Progress
    <3> QED
      BY <3>1, <3>2, <3>3 DEF IInv, TypeOK, DeploymentsAssumption
  <2>1. PICK conf \in {LocalConf, VendorConf[booted]} :
          \/ SetEtc([Now EXCEPT !.conf = conf])
          \/ SetEtc([Now EXCEPT !.conf = conf, !.cache = Cache(booted, conf), !.trouble = "none"])
    BY <1>13 DEF Edit
  <2>2. conf \in Confs
    BY <1>a DEF Confs
  <2>3. PICK r \in Etc : r.cache # Partial /\ Markable(booted, r) /\ r.updated /\ SetEtc(r)
    <3> DEFINE edited == [Now EXCEPT !.conf = conf]
               ran    == [Now EXCEPT !.conf = conf, !.cache = Cache(booted, conf), !.trouble = "none"]
    <3>1. edited \in Etc /\ edited.cache = Now.cache /\ edited.trouble = Now.trouble /\ edited.updated
      BY <1>a, <2>0, <2>2, EtcTypes DEF Etc
    <3>2. ran \in Etc /\ ran.cache = Cache(booted, conf) /\ ran.updated
      <4>1. Cache(booted, conf) \in Caches /\ Now \in Etc /\ Now.updated
        BY <1>a, <2>0, <2>2, CacheTypes
      <4> QED
        BY <2>2, <4>1 DEF Etc, Troubles
    <3>3. edited.cache # Partial /\ ran.cache # Partial
      BY <1>a, <2>2, <3>1, <3>2, CacheTypes
    <3>5. Markable(booted, edited) /\ Markable(booted, ran)
      BY <2>0, <3>1, <3>2 DEF Markable, Cache
    <3>4. SetEtc(edited) \/ SetEtc(ran)
      BY <2>1
    <3> HIDE DEF edited, ran
    <3> QED
      BY <3>1, <3>2, <3>3, <3>4, <3>5
  <2>4. /\ etc' \in [Deployments -> Etc] /\ ReadersSafe' /\ Now' = r
        /\ \A x \in Deployments : etc'[x].updated => Markable(x, etc'[x])
    BY <2>0, <2>3, SetEtcKeeps
  <2> QED
    BY <2>0, <2>3, <2>4 DEF IInv, TypeOK, Progress, Installing
<1>14. ASSUME NEW x \in Deployments, Update(x) PROVE IInv'
  <2>1. Merge(x) \in Etc /\ Merge(x).cache # Partial /\ ~Merge(x).updated
    BY <1>a, FreshType, CacheTypes DEF Merge, Etc, Fresh
  <2>2. /\ etc' = [etc EXCEPT ![x] = Merge(x)] /\ deployed' = deployed \union {x}
        /\ booted' = x /\ pc' = "off" /\ synced' = TRUE /\ UNCHANGED <<tmp, faults, edits>>
    BY <1>14 DEF Update
  <2>3. TypeOK'
    BY <2>1, <2>2 DEF IInv, TypeOK
  <2>4. ReadersSafe'
    BY <2>1, <2>2 DEF IInv, TypeOK, ReadersSafe
  <2>5. Progress'
    BY <2>1, <2>2 DEF IInv, TypeOK, Progress, Installing
  <2> QED
    BY <2>3, <2>4, <2>5 DEF IInv
<1>15. ASSUME NEW x \in Deployments, Rollback(x) PROVE IInv'
  BY <1>15 DEF Rollback, IInv, TypeOK, ReadersSafe, Progress, Installing
<1> QED
  BY <1>1, <1>2, <1>3, <1>4, <1>5, <1>6, <1>7, <1>8, <1>9, <1>10, <1>11, <1>12, <1>13, <1>14,
     <1>15, <1>16 DEF Next, Service

\* The invariant holds of every behaviour, for any deployments, configurations and bounds.
THEOREM Invariant == ASSUME DeploymentsAssumption PROVE Spec => []IInv
BY InitInv, StepInv, PTL DEF Spec

\* A deployment that is up has a cache of its own libraries, and the service ends with one for
\* the configuration in force (ostree-ldconfig-update); but for a cache that ldconfig failed to
\* replace, and for one that the power took from the disk.
THEOREM CacheIsOwn == ASSUME DeploymentsAssumption PROVE Spec => []CacheFits
<1>1. IInv => CacheFits
  BY DEF IInv, TypeOK, Progress, Markable, CacheFits, Now
<1> QED
  BY <1>1, Invariant, PTL

\* No copy of /etc ever holds part of a cache ("rewriting it in place can cause readers to
\* receive SIGBUS").
THEOREM NoPartialCache == ASSUME DeploymentsAssumption PROVE Spec => []ReadersSafe
<1>1. IInv => ReadersSafe
  BY DEF IInv
<1> QED
  BY <1>1, Invariant, PTL
=============================================================================
