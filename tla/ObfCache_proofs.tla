-------------------------- MODULE ObfCache_proofs --------------------------
(***************************************************************************)
(* ObfCache for any hooks, keys, classes and number of versions: no hook   *)
(* uses a class of another key or version, what was loaded stays in the    *)
(* cache file, and the hooks that scan again work.                         *)
(***************************************************************************)
EXTENDS ObfCache, FiniteSetTheorems, SequenceTheorems, TLAPS

-----------------------------------------------------------------------------
(* f holds what was found for its keys in versions up to the present one.  *)
FromDex(f) ==
  /\ DOMAIN f \subseteq Keys
  /\ \A k \in DOMAIN f \cap found : \E v \in 1 .. host : f[k] = ClassOf[v][k]
  /\ \A k \in DOMAIN f \ found : f[k] = None

DexInv == FromDex(cacheFile) /\ FromDex(finded) /\ FromDex(scan)

Looking == pc \in {"lookup", "truncate", "write", "apply"}

(* The part of the types that the proofs need, with the thread that is     *)
(* at work at each place.                                                  *)
PlaceInv ==
  /\ host \in Versions /\ found \subseteq Keys
  /\ hookIdx \in Nat \ {0}
  /\ obfs \in Nat
  /\ thread \in {"main", "task"}
  /\ pc \in {"off", "load", "splash", "ui", "hook"} \/ Looking
  /\ pc \in {"off", "load", "splash"} => thread = "main"
  /\ pc \in {"lookup", "hook", "ui"} => thread = "task"
  /\ thread = "main" => todo = {}
  /\ Looking => hookIdx \in DOMAIN HookSeq
  /\ todo \subseteq Keys /\ (Looking => todo \subseteq Obf[Hook])
  /\ hooked \in [Hooks -> {"no", "ok", "failed"}]
  /\ wanted \subseteq Hooks

(* The static fields are from the dex file, and what a hook whose init     *)
(* worked has loaded are classes of the present version.                   *)
FieldInv ==
  /\ pc = "off" => \A h \in Hooks : hooked[h] = "no"
  /\ \A k \in Keys : deobf[k] # None =>
       k \in found /\ \E v \in 1 .. host : deobf[k] = ClassOf[v][k]
  /\ \A h \in Hooks : hooked[h] = "ok" =>
       \A k \in Loads[h] : deobf[k] \in Loadable[host]

-----------------------------------------------------------------------------
(* The keys that are in the file, or will be when the save is over.        *)
Kept == IF pc \in {"truncate", "write"} THEN DOMAIN scan ELSE DOMAIN cacheFile

(* What is about to be saved holds all that is in the file.                *)
SaveInv ==
  pc \in {"truncate", "write"} => DOMAIN cacheFile \subseteq DOMAIN scan

HaveKeys(H) == \A h \in H : Obf[h] \subseteq Kept

Passed == {HookSeq[i] : i \in {i \in DOMAIN HookSeq : i < hookIdx}}

(* When every key has a class, keys are only added to the file; a hook     *)
(* whose keys are missing is counted, and looked up in the first pass of   *)
(* the task, during which the switches do not change.                      *)
KeepInv ==
  /\ found = Keys => DOMAIN finded \subseteq Kept
  /\ found = Keys /\ thread = "main" =>
       wanted \subseteq enabled /\ (obfs = 0 => HaveKeys(wanted \cap Rescans))
  /\ found = Keys /\ thread = "task" =>
       \/ HaveKeys(wanted \cap Rescans)
       \/ /\ pc # "ui"
          /\ wanted \subseteq enabled
          /\ HaveKeys(wanted \cap Rescans \cap Passed)

-----------------------------------------------------------------------------
Works(h) == hooked[h] = "ok" /\ \A k \in Obf[h] : deobf[k] = Find(k)

(* The hooks the third theorem is about.                                   *)
Sure == {h \in wanted \cap Rescans : Obf[h] \subseteq found}

(* The hook that is being looked up.                                       *)
Current(h) == Looking /\ Hook = h

Missing(h) == ~(Obf[h] \subseteq Kept)

(* While the host app stays the same, a hook that does not work yet is     *)
(* being looked up, or it is still to come and its keys are missing from   *)
(* the file, so that needObf will say so.                                  *)
WorkInv ==
  NeverUpdated =>
    /\ saved \in {0, 1}
    /\ saved = 0 => DOMAIN cacheFile = {} /\ pc \in {"off", "load"}
    /\ thread = "main" => wanted \subseteq enabled
    /\ thread = "main" => \A h \in Sure :
         Works(h) \/ Current(h) \/ (Missing(h) /\ obfs >= 1)
    /\ thread = "task" => \A h \in Sure :
         Works(h) \/ Current(h)
           \/ /\ Missing(h) /\ pc # "ui" /\ h \in enabled
              /\ \E i \in DOMAIN HookSeq : i >= hookIdx /\ HookSeq[i] = h

-----------------------------------------------------------------------------
(* The versions the host app had are versions.                             *)
LEMMA VersionFacts ==
  ASSUME host \in Versions
  PROVE  host \in 1 .. host /\ 1 .. host \subseteq Versions
  BY ClassAssumption DEF Versions

(* What the assumptions say of a hook of the loop and of its keys.         *)
LEMMA HookFacts ==
  ASSUME NEW i \in DOMAIN HookSeq
  PROVE  /\ HookSeq[i] \in Hooks
         /\ Obf[HookSeq[i]] \subseteq Keys
         /\ Cardinality(Obf[HookSeq[i]]) \in Nat \ {0}
<1>1. HookSeq[i] \in Hooks
  BY DEF Hooks
<1>2. Obf[HookSeq[i]] \subseteq Keys
  BY <1>1 DEF Keys
<1>3. Obf[HookSeq[i]] # {} /\ IsFiniteSet(Obf[HookSeq[i]])
  BY <1>1, HookAssumption
<1> QED
  BY <1>1, <1>2, <1>3, FS_CardinalityType, FS_EmptySet

(* DOMAIN HookSeq is 1 .. Len(HookSeq).                                    *)
LEMMA HookDomain == DOMAIN HookSeq = 1 .. Len(HookSeq) /\ Len(HookSeq) \in Nat
  BY HookAssumption

(* The classes of a version.                                               *)
LEMMA ClassFacts ==
  ASSUME NEW v \in Versions, NEW k \in Keys
  PROVE  ClassOf[v][k] \in Loadable[v] /\ ClassOf[v][k] # None
<1>1. ClassOf[v][k] \in Names
  BY ClassAssumption
<1>2. None \notin Names
  BY HookAssumption
<1> QED
  BY <1>1, <1>2, ClassAssumption

(* None is not the name of a class of any version.                         *)
LEMMA NoneIsNotLoadable ==
  ASSUME NEW v \in Versions
  PROVE  None \notin Loadable[v]
  BY ClassAssumption, HookAssumption

(* What PConfig.cache() returns and leaves is part of the file; without    *)
(* an entry that has no class it is the file itself.                       *)
LEMMA ReadCacheFacts ==
  ASSUME NEW f, FromDex(f), host \in Versions, NEW r \in ReadCache(f)
  PROVE  /\ FromDex(r[1]) /\ FromDex(r[2])
         /\ DOMAIN r[1] \subseteq DOMAIN f /\ DOMAIN r[2] \subseteq DOMAIN r[1]
         /\ \A k \in DOMAIN r[1] : r[1][k] = f[k]
         /\ found = Keys => r[1] = f /\ r[2] = f
         /\ (r[1] = f /\ r[2] = f) \/ DOMAIN r[2] = {}
<1>1. CASE Broken(f) = {}
  <2>1. r = <<f, f>>
    BY <1>1 DEF ReadCache
  <2> QED
    BY <2>1
<1>2. CASE Broken(f) # {}
  <2>1. PICK S \in SUBSET (DOMAIN f \ Broken(f)) :
          r = <<Restrict(f, S), NoFinds>>
    BY <1>2 DEF ReadCache
  <2>2. r[1] = [k \in S |-> f[k]] /\ r[2] = NoFinds
    BY <2>1 DEF Restrict
  <2>3. DOMAIN r[1] = S /\ DOMAIN r[2] = {}
    BY <2>2 DEF NoFinds
  <2>4. S \subseteq DOMAIN f /\ \A k \in DOMAIN r[1] : r[1][k] = f[k]
    BY <2>2
  <2>5. FromDex(r[1]) /\ FromDex(r[2])
    BY <2>3, <2>4 DEF FromDex
  <2>6. found # Keys
    <3>1. PICK k \in DOMAIN f : f[k] = None
      BY <1>2 DEF Broken
    <3>2. k \in Keys /\ (k \in found => \E v \in Versions : f[k] = ClassOf[v][k])
      BY <3>1, ClassAssumption DEF FromDex, Versions
    <3> QED
      BY <3>1, <3>2, ClassFacts
  <2> QED
    BY <2>3, <2>4, <2>5, <2>6
<1> QED
  BY <1>1, <1>2

(* A scan of the dex file.                                                 *)
LEMMA ScanFacts ==
  ASSUME NEW S \in SUBSET Keys, host \in Versions
  PROVE  FromDex([k \in S |-> Find(k)])
  BY DEF FromDex, Find, Versions

(* Map.putAll.                                                             *)
LEMMA PutAllFacts ==
  ASSUME NEW f, NEW g, FromDex(f), FromDex(g)
  PROVE  /\ FromDex(PutAll(f, g))
         /\ DOMAIN PutAll(f, g) = DOMAIN f \cup DOMAIN g
  BY DEF FromDex, PutAll

(* DexUtils.reCache: what is going to be saved holds the keys that were    *)
(* asked for, what is left in the file and nothing that is new but them.   *)
LEMMA ReCacheFacts ==
  ASSUME NEW keys \in SUBSET Keys, NEW f, FromDex(f), host \in Versions,
         reCache(keys, f)
  PROVE  /\ FromDex(scan') /\ FromDex(cacheFile')
         /\ pc' = "truncate"
         /\ keys \subseteq DOMAIN scan'
         /\ DOMAIN scan' \subseteq DOMAIN f \cup keys
         /\ DOMAIN cacheFile' \subseteq DOMAIN scan'
         /\ found = Keys => DOMAIN f \subseteq DOMAIN scan'
<1>1. PICK r \in ReadCache(f) :
        /\ scan' = PutAll(r[1], [k \in keys |-> Find(k)])
        /\ cacheFile' = r[2]
  BY DEF reCache
<1>2. /\ FromDex(r[1]) /\ FromDex(r[2])
      /\ DOMAIN r[1] \subseteq DOMAIN f /\ DOMAIN r[2] \subseteq DOMAIN r[1]
      /\ found = Keys => r[1] = f
  BY ReadCacheFacts
<1> DEFINE g == [k \in keys |-> Find(k)]
<1>3. FromDex(g) /\ DOMAIN g = keys
  BY ScanFacts
<1> HIDE DEF g
<1>4. FromDex(PutAll(r[1], g)) /\ DOMAIN PutAll(r[1], g) = DOMAIN r[1] \cup keys
  BY <1>2, <1>3, PutAllFacts
<1>5. scan' = PutAll(r[1], g)
  BY <1>1 DEF g
<1>6. pc' = "truncate"
  BY DEF reCache
<1> QED
  BY <1>1, <1>2, <1>4, <1>5, <1>6

(* needObf says no only when each key is in the cache and a class.         *)
LEMMA NeedObfFacts ==
  ASSUME NEW h, NEW c
  PROVE  ~NeedObf(h, c) <=>
           /\ ~isUpdate
           /\ Obf[h] \subseteq DOMAIN c
           /\ \A k \in Obf[h] : c[k] \in Loadable[host]
  BY DEF NeedObf

-----------------------------------------------------------------------------
(* The places of the two threads.                                          *)
LEMMA PlaceStep ==
  ASSUME PlaceInv, DexInv, [Next]_vars
  PROVE  PlaceInv'
<1> USE DEF PlaceInv, Looking
<1>0. 1 \in Versions /\ DOMAIN HookSeq = 1 .. Len(HookSeq) /\ Len(HookSeq) \in Nat
  BY ClassAssumption, HookDomain DEF Versions
<1>1. CASE StartProcess
  BY <1>1 DEF StartProcess, hostVars, diskVars, lookupVars, sessionVars
<1>2. CASE InitHook
  <2>1. hookIdx \in DOMAIN HookSeq
    BY <1>2, <1>0 DEF InitHook
  <2>2. /\ Hook \in Hooks /\ Obf[Hook] \subseteq Keys
        /\ Cardinality(Obf[Hook]) \in Nat
    BY <2>1, HookFacts DEF Hook
  <2>3. UNCHANGED <<host, found, todo, thread, hooked>> /\ thread = "main"
    BY <1>2 DEF InitHook, hostVars, diskVars
  <2>4. /\ hookIdx' \in Nat \ {0} /\ obfs' \in Nat /\ wanted' \subseteq Hooks
        /\ pc' = "load" \/ (pc' = "apply" /\ hookIdx' = hookIdx)
    BY <1>2, <2>2 DEF InitHook
  <2> QED
    BY <2>1, <2>3, <2>4
<1>3. CASE SaveVersion
  BY <1>3 DEF SaveVersion, hostVars, lookupVars, sessionVars
<1>4. CASE Splash
  BY <1>4 DEF Splash, hostVars, diskVars, lookupVars
<1>5. CASE TaskHook
  <2>1. hookIdx \in DOMAIN HookSeq
    BY <1>5, <1>0 DEF TaskHook
  <2>2. Hook \in Hooks /\ Obf[Hook] \subseteq Keys
    BY <2>1, HookFacts DEF Hook
  <2>3. UNCHANGED <<host, found, obfs, thread, hooked, wanted>> /\ thread = "task"
    BY <1>5 DEF TaskHook, hostVars, diskVars
  <2>4. \/ pc' = "hook" /\ hookIdx' = hookIdx + 1 /\ todo' = todo
        \/ pc' = "lookup" /\ hookIdx' = hookIdx /\ todo' = Obf[Hook]
    BY <1>5 DEF TaskHook, lookupVars
  <2>5. hookIdx' = hookIdx => Hook' = Hook
    BY DEF Hook
  <2> QED
    BY <2>1, <2>2, <2>3, <2>4, <2>5
<1>6. CASE Lookup
  <2>1. UNCHANGED <<host, found, obfs, thread, hooked, wanted, hookIdx>>
    BY <1>6 DEF Lookup, hostVars, sessionVars
  <2>2. /\ todo' \subseteq todo
        /\ pc' \in {"lookup", "apply", "truncate"}
        /\ thread = "task"
    BY <1>6 DEF Lookup, reCache
  <2>3. Hook' = Hook
    BY <2>1 DEF Hook
  <2> QED
    BY <1>6, <2>1, <2>2, <2>3 DEF Lookup
<1>7. CASE TruncateFile
  <2>1. UNCHANGED <<host, found, obfs, thread, hooked, wanted, hookIdx, todo>>
        /\ pc = "truncate" /\ pc' = "write"
    BY <1>7 DEF TruncateFile, hostVars, lookupVars, sessionVars
  <2> QED
    BY <2>1 DEF Hook
<1>8. CASE WriteFile
  <2>1. UNCHANGED <<host, found, obfs, thread, hooked, wanted, hookIdx, todo>>
        /\ pc = "write" /\ pc' = IF todo = {} THEN "apply" ELSE "lookup"
    BY <1>8 DEF WriteFile, hostVars, sessionVars
  <2> QED
    BY <2>1 DEF Hook
<1>9. CASE ApplyFinds
  <2>1. UNCHANGED <<host, found, obfs, thread, wanted, todo>> /\ pc = "apply"
    BY <1>9 DEF ApplyFinds, hostVars
  <2>2. \/ pc' = "truncate" /\ hookIdx' = hookIdx /\ hooked' = hooked
        \/ /\ pc' = IF thread = "main" THEN "load" ELSE "hook"
           /\ hookIdx' = hookIdx + 1 /\ hooked' \in [Hooks -> {"no", "ok", "failed"}]
    BY <1>9 DEF ApplyFinds, reCache, LoadHook
  <2>3. hookIdx' = hookIdx => Hook' = Hook
    BY DEF Hook
  <2> QED
    BY <2>1, <2>2, <2>3
<1>10. CASE TaskDone
  BY <1>10 DEF TaskDone, hostVars, lookupVars, sessionVars
<1>11. CASE SetEnable
  BY <1>11 DEF SetEnable, hostVars, lookupVars, sessionVars
<1>12. CASE Kill
  BY <1>12 DEF Kill, hostVars, FreshProcess
<1>13. CASE UpdateHost
  <2>1. host' \in Versions
    BY <1>13, ClassAssumption DEF UpdateHost, Versions
  <2> QED
    BY <1>13, <2>1 DEF UpdateHost, lookupVars, sessionVars
<1>14. CASE UNCHANGED vars
  BY <1>14 DEF vars, hostVars, diskVars, lookupVars, sessionVars, Hook
<1> QED
  BY <1>1, <1>2, <1>3, <1>4, <1>5, <1>6, <1>7, <1>8, <1>9, <1>10, <1>11, <1>12,
     <1>13, <1>14 DEF Next, LoadStep

(* What is in the file and in memory comes from the dex file.              *)
LEMMA DexStep ==
  ASSUME PlaceInv, DexInv, [Next]_vars
  PROVE  DexInv'
<1>0. host \in Versions
  BY DEF PlaceInv
<1>00. FromDex(NoFinds)
  BY DEF FromDex, NoFinds
<1>a. ASSUME UNCHANGED hostVars,
             FromDex(cacheFile'), FromDex(finded'), FromDex(scan')
      PROVE  DexInv'
  BY <1>a DEF DexInv, FromDex, hostVars
<1>b. FromDex(cacheFile) /\ FromDex(finded) /\ FromDex(scan)
  BY DEF DexInv
<1>1. CASE InitHook \/ TaskHook
  <2>1. UNCHANGED hostVars /\ scan' = scan
    BY <1>1 DEF InitHook, TaskHook, lookupVars
  <2>2. \/ UNCHANGED <<cacheFile, finded>>
        \/ \E r \in ReadCache(cacheFile) :
             /\ cacheFile' \in {cacheFile, r[2]}
             /\ finded' \in {finded, r[2], NoFinds}
    BY <1>1 DEF InitHook, TaskHook, lookupVars
  <2>3. FromDex(cacheFile') /\ FromDex(finded')
    BY <2>2, <1>0, <1>00, <1>b, ReadCacheFacts
  <2> QED
    BY <2>1, <2>3, <1>a, <1>b
<1>2. CASE Lookup
  <2>1. UNCHANGED hostVars /\ pc = "lookup"
    BY <1>2 DEF Lookup
  <2>2. PICK k \in todo, r \in ReadCache(cacheFile) :
          \/ /\ finded' = PutAll(finded, r[2])
             /\ cacheFile' = r[2]
             /\ scan' = scan
          \/ /\ reCache({k}, r[2])
             /\ finded' = finded
    BY <1>2 DEF Lookup
  <2>3. FromDex(r[2])
    BY <1>0, <1>b, ReadCacheFacts
  <2>4. {k} \in SUBSET Keys
    BY DEF PlaceInv
  <2>5. CASE finded' = PutAll(finded, r[2]) /\ cacheFile' = r[2] /\ scan' = scan
    BY <2>1, <2>3, <2>5, <1>a, <1>b, PutAllFacts
  <2>6. CASE reCache({k}, r[2]) /\ finded' = finded
    <3>1. FromDex(scan') /\ FromDex(cacheFile')
      BY <2>3, <2>4, <2>6, <1>0, ReCacheFacts
    <3> QED
      BY <2>1, <2>6, <3>1, <1>a, <1>b
  <2> QED
    BY <2>2, <2>5, <2>6
<1>3. CASE TruncateFile
  BY <1>3, <1>00, <1>a, <1>b DEF TruncateFile, lookupVars
<1>4. CASE WriteFile
  <2>1. FromDex(PutAll(finded, scan))
    BY <1>b, PutAllFacts
  <2> QED
    BY <1>4, <2>1, <1>a, <1>b DEF WriteFile
<1>5. CASE ApplyFinds
  <2>1. UNCHANGED <<hostVars, finded>>
    BY <1>5 DEF ApplyFinds
  <2>2. CASE UNCHANGED <<cacheFile, scan>>
    BY <2>1, <2>2, <1>a, <1>b
  <2>3. CASE reCache(Obf[Hook], cacheFile)
    <3>1. Obf[Hook] \in SUBSET Keys
      BY <1>5, HookFacts DEF ApplyFinds, PlaceInv, Looking, Hook
    <3>2. FromDex(scan') /\ FromDex(cacheFile')
      BY <2>3, <3>1, <1>0, <1>b, ReCacheFacts
    <3> QED
      BY <2>1, <3>2, <1>a, <1>b
  <2> QED
    BY <1>5, <2>2, <2>3 DEF ApplyFinds
<1>6. CASE Kill
  BY <1>6, <1>00, <1>a, <1>b DEF Kill
<1>7. CASE UpdateHost
  <2>1. 1 .. host \subseteq 1 .. host' /\ UNCHANGED <<found, cacheFile, finded, scan>>
    BY <1>7, <1>0, ClassAssumption DEF UpdateHost, lookupVars, Versions
  <2> QED
    BY <2>1 DEF DexInv, FromDex
<1>8. CASE UNCHANGED <<hostVars, cacheFile, lookupVars>>
  BY <1>8, <1>a, <1>b DEF lookupVars
<1> QED
  BY <1>1, <1>2, <1>3, <1>4, <1>5, <1>6, <1>7, <1>8
     DEF Next, LoadStep, StartProcess, SaveVersion, Splash, TaskDone, SetEnable,
         vars

-----------------------------------------------------------------------------
(* doObf sets fields of its own keys only, and to what it was given.       *)
LEMMA LoadSets ==
  ASSUME LoadHook(Hook, finded), NEW k \in Keys
  PROVE  /\ k \notin Obf[Hook] => deobf'[k] = deobf[k]
         /\ deobf'[k] # deobf[k] =>
              k \in DOMAIN finded /\ finded[k] # None /\ deobf'[k] = finded[k]
<1>1. \/ deobf'[k] = DoObf(Hook, finded)[k]
      \/ k \in Obf[Hook] /\ deobf'[k] = DoObf(Hook, finded)[k]
      \/ deobf'[k] = deobf[k]
  BY DEF LoadHook
<1>2. DoObf(Hook, finded)[k] =
        IF /\ k \in Obf[Hook] \cap DOMAIN finded
           /\ finded[k] # None
           /\ Accepts(k, finded[k])
        THEN finded[k] ELSE deobf[k]
  BY DEF DoObf
<1> QED
  BY <1>1, <1>2

(* The static fields and what init made of them.                           *)
LEMMA FieldStep ==
  ASSUME PlaceInv, DexInv, FieldInv, [Next]_vars
  PROVE  FieldInv'
<1>0. host \in Versions /\ hooked \in [Hooks -> {"no", "ok", "failed"}]
  BY DEF PlaceInv
<1>1. CASE ApplyFinds
  <2>1. CASE LoadHook(Hook, finded)
    <3>1. Hook \in Hooks
      BY <1>1, HookFacts DEF ApplyFinds, PlaceInv, Looking, Hook
    <3>2. UNCHANGED <<host, found>> /\ pc' # "off"
      BY <1>1, <2>1 DEF ApplyFinds, hostVars, reCache
    <3>3. ASSUME NEW k \in Keys
          PROVE  /\ k \notin Obf[Hook] => deobf'[k] = deobf[k]
                 /\ deobf'[k] # deobf[k] =>
                      k \in DOMAIN finded /\ finded[k] # None /\ deobf'[k] = finded[k]
      BY <2>1, LoadSets
    <3>4. ASSUME NEW k \in Keys, deobf'[k] # None
          PROVE  k \in found /\ \E v \in 1 .. host : deobf'[k] = ClassOf[v][k]
      BY <3>3, <3>4 DEF FieldInv, DexInv, FromDex
    <3>5. ASSUME NEW h \in Hooks, hooked'[h] = "ok", NEW k \in Loads[h]
          PROVE  deobf'[k] \in Loadable[host]
      <4>1. CASE h = Hook
        BY <2>1, <3>1, <3>5, <4>1, <1>0 DEF LoadHook
      <4>2. CASE h # Hook
        <5>1. hooked[h] = "ok"
          BY <2>1, <3>1, <3>5, <4>2, <1>0 DEF LoadHook
        <5>2. k \in Keys /\ k \notin Obf[Hook]
          BY <3>1, <4>2, HookAssumption DEF Keys
        <5> QED
          BY <5>1, <5>2, <3>3 DEF FieldInv
      <4> QED
        BY <4>1, <4>2
    <3> QED
      BY <3>2, <3>4, <3>5 DEF FieldInv
  <2>2. CASE UNCHANGED <<deobf, hooked>>
    BY <1>1, <2>2 DEF ApplyFinds, hostVars, FieldInv, reCache
  <2> QED
    BY <1>1, <2>1, <2>2 DEF ApplyFinds
<1>2. CASE Kill
  <2>1. /\ deobf' = [k \in Keys |-> None]
        /\ hooked' = [h \in Hooks |-> "no"]
    BY <1>2 DEF Kill, FreshProcess
  <2> QED
    BY <2>1 DEF FieldInv
<1>3. CASE UpdateHost
  <2>1. 1 .. host \subseteq 1 .. host' /\ UNCHANGED <<found, deobf, hooked, pc>>
        /\ pc = "off"
    BY <1>3, <1>0, ClassAssumption DEF UpdateHost, sessionVars, Versions
  <2> QED
    BY <2>1 DEF FieldInv
<1>4. CASE /\ UNCHANGED <<hostVars, deobf, hooked>>
           /\ pc' = "off" => pc = "off"
  BY <1>4 DEF FieldInv, hostVars
<1>5. Next /\ ~ApplyFinds /\ ~Kill /\ ~UpdateHost =>
        UNCHANGED <<hostVars, deobf, hooked>> /\ pc' # "off"
  <2> USE DEF sessionVars, PlaceInv, Looking
  <2>1. StartProcess \/ SaveVersion \/ Splash \/ TaskDone \/ TruncateFile
          \/ WriteFile =>
          UNCHANGED <<hostVars, deobf, hooked>> /\ pc' # "off"
    BY DEF StartProcess, SaveVersion, Splash, TaskDone, TruncateFile, WriteFile
  <2>2. InitHook \/ TaskHook \/ Lookup \/ SetEnable =>
          UNCHANGED <<hostVars, deobf, hooked>> /\ pc' # "off"
    BY DEF InitHook, TaskHook, Lookup, reCache, SetEnable
  <2> QED
    BY <2>1, <2>2 DEF Next, LoadStep
<1>6. UNCHANGED vars => UNCHANGED <<hostVars, deobf, hooked, pc>>
  BY DEF vars, sessionVars
<1> QED
  BY <1>1, <1>2, <1>3, <1>4, <1>5, <1>6

(* The first state.                                                        *)
LEMMA InitFields == Init => PlaceInv /\ DexInv /\ FieldInv
<1> SUFFICES ASSUME Init
             PROVE  PlaceInv /\ DexInv /\ FieldInv
  OBVIOUS
<1>1. PlaceInv
  BY ClassAssumption DEF Init, PlaceInv, Looking, FreshProcess, Versions
<1>2. DexInv
  BY DEF Init, DexInv, FromDex, NoFinds
<1>3. FieldInv
  BY DEF Init, FieldInv, FreshProcess
<1> QED
  BY <1>1, <1>2, <1>3

(* A class that is found under an old name is the present one.             *)
LEMMA FieldsAreRight == PlaceInv /\ FieldInv => RightClasses
<1> SUFFICES ASSUME PlaceInv, FieldInv, NamesAreFresh,
                    NEW h \in Hooks, hooked[h] = "ok", NEW k \in Obf[h]
             PROVE  /\ k \in Loads[h] => deobf[k] = Find(k)
                    /\ deobf[k] \in Loadable[host] => deobf[k] = Find(k)
  BY HookAssumption DEF RightClasses
<1>1. host \in Versions /\ k \in Keys /\ 1 .. host \subseteq Versions
  BY VersionFacts DEF PlaceInv, Keys
<1>2. k \in Loads[h] => deobf[k] \in Loadable[host]
  BY DEF FieldInv
<1>3. ASSUME deobf[k] \in Loadable[host]
      PROVE  deobf[k] = Find(k)
  <2>1. deobf[k] # None
    BY <1>1, <1>3, NoneIsNotLoadable
  <2>2. PICK v \in 1 .. host : k \in found /\ deobf[k] = ClassOf[v][k]
    BY <1>1, <2>1 DEF FieldInv
  <2>3. ClassOf[v][k] = ClassOf[host][k]
    BY <1>1, <1>3, <2>2 DEF NamesAreFresh
  <2> QED
    BY <2>2, <2>3 DEF Find
<1> QED
  BY <1>2, <1>3

(* Provided that names are not given to other classes, a hook whose init   *)
(* succeeded has hooked the classes of the version that is installed, and  *)
(* each of its other fields holds the right class or none that can be      *)
(* loaded.                                                                 *)
THEOREM NoWrongClass == Spec => []RightClasses
<1>1. Init => PlaceInv /\ DexInv /\ FieldInv
  BY InitFields
<1>2. PlaceInv /\ DexInv /\ FieldInv /\ [Next]_vars =>
        (PlaceInv /\ DexInv /\ FieldInv)'
  BY PlaceStep, DexStep, FieldStep
<1>3. PlaceInv /\ FieldInv => RightClasses
  BY FieldsAreRight
<1> QED
  BY <1>1, <1>2, <1>3, PTL DEF Spec

-----------------------------------------------------------------------------
(* A step adds at most keys of the hook that is looked up, and when every  *)
(* key has a class only the end of the process takes keys away.            *)
LEMMA KeptStep ==
  ASSUME PlaceInv, DexInv, SaveInv, [Next]_vars
  PROVE  /\ SaveInv'
         /\ Kept' \subseteq Kept \cup (IF Looking THEN Obf[Hook] ELSE {})
         /\ found = Keys /\ ~Kill => Kept \subseteq Kept'
<1>0. host \in Versions /\ FromDex(cacheFile)
  BY DEF PlaceInv, DexInv
<1>1. CASE InitHook \/ TaskHook
  <2>1. /\ pc \notin {"truncate", "write"} /\ pc' \notin {"truncate", "write"}
        /\ cacheFile' = cacheFile
             \/ \E r \in ReadCache(cacheFile) : cacheFile' = r[2]
    BY <1>1 DEF InitHook, TaskHook
  <2>2. DOMAIN cacheFile' \subseteq DOMAIN cacheFile
        /\ (found = Keys => cacheFile' = cacheFile)
    BY <2>1, <1>0, ReadCacheFacts
  <2> QED
    BY <2>1, <2>2 DEF Kept, SaveInv
<1>2. CASE Lookup
  <2>1. pc = "lookup" /\ todo \subseteq Obf[Hook] /\ todo \subseteq Keys /\ Looking
    BY <1>2 DEF Lookup, PlaceInv, Looking
  <2>2. PICK k \in todo, r \in ReadCache(cacheFile) :
          \/ cacheFile' = r[2] /\ pc' \notin {"truncate", "write"}
          \/ reCache({k}, r[2])
    BY <1>2 DEF Lookup
  <2>3. FromDex(r[2]) /\ DOMAIN r[2] \subseteq DOMAIN cacheFile
        /\ (found = Keys => r[2] = cacheFile)
    BY <1>0, ReadCacheFacts
  <2>4. CASE cacheFile' = r[2] /\ pc' \notin {"truncate", "write"}
    BY <2>1, <2>3, <2>4 DEF Kept, SaveInv
  <2>5. CASE reCache({k}, r[2])
    <3>1. {k} \in SUBSET Keys
      BY <2>1
    <3>2. /\ pc' = "truncate"
          /\ DOMAIN scan' \subseteq DOMAIN r[2] \cup {k}
          /\ DOMAIN cacheFile' \subseteq DOMAIN scan'
          /\ found = Keys => DOMAIN r[2] \subseteq DOMAIN scan'
      BY <3>1, <2>3, <2>5, <1>0, ReCacheFacts
    <3> QED
      BY <3>2, <2>1, <2>3 DEF Kept, SaveInv
  <2> QED
    BY <2>2, <2>4, <2>5
<1>3. CASE TruncateFile
  BY <1>3 DEF TruncateFile, lookupVars, Kept, SaveInv, NoFinds
<1>4. CASE WriteFile
  BY <1>4 DEF WriteFile, Kept, SaveInv
<1>5. CASE ApplyFinds
  <2>1. pc = "apply" /\ Looking /\ Obf[Hook] \in SUBSET Keys
    BY <1>5, HookFacts DEF ApplyFinds, PlaceInv, Looking, Hook
  <2>2. CASE reCache(Obf[Hook], cacheFile)
    <3>1. /\ pc' = "truncate"
          /\ DOMAIN scan' \subseteq DOMAIN cacheFile \cup Obf[Hook]
          /\ DOMAIN cacheFile' \subseteq DOMAIN scan'
          /\ found = Keys => DOMAIN cacheFile \subseteq DOMAIN scan'
      BY <2>1, <2>2, <1>0, ReCacheFacts
    <3> QED
      BY <3>1, <2>1 DEF Kept, SaveInv
  <2>3. CASE pc' \in {"load", "hook"} /\ cacheFile' = cacheFile
    BY <2>1, <2>3 DEF Kept, SaveInv
  <2> QED
    BY <1>5, <2>2, <2>3 DEF ApplyFinds
<1>6. CASE Kill
  BY <1>6 DEF Kill, Kept, SaveInv
<1>7. CASE UNCHANGED <<pc, cacheFile, scan>>
  BY <1>7 DEF Kept, SaveInv
<1>8. CASE StartProcess \/ SaveVersion \/ Splash \/ TaskDone
  BY <1>8 DEF StartProcess, SaveVersion, Splash, TaskDone, lookupVars, Kept, SaveInv
<1> QED
  BY <1>1, <1>2, <1>3, <1>4, <1>5, <1>6, <1>7, <1>8
     DEF Next, LoadStep, SetEnable, UpdateHost, vars, lookupVars

(* The loop goes on to the next hook.                                      *)
LEMMA PassedNext ==
  ASSUME hookIdx \in DOMAIN HookSeq, hookIdx' = hookIdx + 1
  PROVE  Passed' = Passed \cup {Hook}
  BY HookDomain DEF Passed, Hook

(* The keys of the hooks that were loaded stay in the file.                *)
LEMMA KeepStep ==
  ASSUME PlaceInv, DexInv, SaveInv, KeepInv, [Next]_vars
  PROVE  KeepInv'
<1> DEFINE W == wanted \cap Rescans
<1>0. CASE Kill
  BY <1>0 DEF Kill, KeepInv, NoFinds, HaveKeys
<1> SUFFICES ASSUME ~Kill, found = Keys
             PROVE  KeepInv'
  <2>1. found' = found \/ Kill
    BY DEF Next, LoadStep, StartProcess, InitHook, SaveVersion, Splash, TaskHook,
       Lookup, TruncateFile, WriteFile, ApplyFinds, TaskDone, SetEnable,
       UpdateHost, vars, hostVars
  <2> QED
    BY <1>0, <2>1 DEF KeepInv
<1>a. Kept \subseteq Kept' /\ (Kept = DOMAIN cacheFile \/ pc \in {"truncate", "write"})
  BY KeptStep DEF Kept
<1>b. host \in Versions /\ FromDex(cacheFile) /\ DOMAIN finded \subseteq Kept
  BY DEF PlaceInv, DexInv, KeepInv
<1>c. ASSUME NEW H, HaveKeys(H)
      PROVE  \A h \in H : Obf[h] \subseteq Kept'
  BY <1>a, <1>c DEF HaveKeys
<1>d. ASSUME DOMAIN finded' \subseteq Kept',
             UNCHANGED <<thread, wanted, enabled, obfs, hookIdx>>,
             pc' # "ui" \/ pc = "ui"
      PROVE  KeepInv'
  BY <1>d, <1>a DEF KeepInv, HaveKeys, Passed
<1>1. CASE StartProcess \/ SaveVersion \/ TruncateFile
  <2>1. UNCHANGED <<finded, thread, wanted, enabled, obfs, hookIdx>> /\ pc' # "ui"
    BY <1>1 DEF StartProcess, SaveVersion, TruncateFile, lookupVars, sessionVars,
       diskVars
  <2> QED
    BY <2>1, <1>a, <1>b, <1>d
<1>2. CASE InitHook
  <2>1. /\ hookIdx \in DOMAIN HookSeq /\ thread = "main" /\ thread' = "main"
        /\ pc = "load" /\ pc' # "ui" /\ enabled' = enabled
    BY <1>2, HookDomain DEF InitHook, PlaceInv, diskVars, Looking
  <2>2. Hook \in Hooks /\ Cardinality(Obf[Hook]) \in Nat \ {0} /\ obfs \in Nat
    BY <2>1, HookFacts DEF Hook, PlaceInv
  <2>3. Kept = DOMAIN cacheFile
    BY <2>1 DEF Kept
  <2>4. CASE wanted' = wanted /\ obfs' = obfs /\ finded' = finded
    BY <2>1, <2>4, <1>a, <1>b DEF KeepInv, HaveKeys
  <2>5. CASE /\ Hook \in enabled /\ wanted' = wanted \cup {Hook}
             /\ obfs' = obfs + Cardinality(Obf[Hook]) /\ finded' = finded
    BY <2>1, <2>2, <2>5, <1>a, <1>b DEF KeepInv
  <2>6. ASSUME NEW r \in ReadCache(cacheFile), ~NeedObf(Hook, r[1]),
               Hook \in enabled, wanted' = wanted \cup {Hook},
               obfs' = obfs, finded' = r[2]
        PROVE  KeepInv'
    <3>1. r[1] = cacheFile /\ r[2] = cacheFile
      BY <1>b, ReadCacheFacts
    <3>2. Obf[Hook] \subseteq Kept'
      BY <2>3, <2>6, <3>1, <1>a, NeedObfFacts
    <3>3. DOMAIN finded' \subseteq Kept'
      BY <2>3, <2>6, <3>1, <1>a
    <3> QED
      BY <2>1, <2>6, <3>2, <3>3, <1>a DEF KeepInv, HaveKeys
  <2> QED
    BY <1>2, <2>4, <2>5, <2>6 DEF InitHook
<1>3. CASE Splash
  <2>1. UNCHANGED <<finded, wanted, enabled, obfs>> /\ thread' = "task"
        /\ pc' = (IF obfs < 1 THEN "ui" ELSE "hook") /\ hookIdx' = 1
    BY <1>3 DEF Splash, lookupVars, diskVars
  <2>2. CASE pc = "ui"
    BY <2>1, <2>2, <1>a, <1>b DEF KeepInv, HaveKeys, PlaceInv, Looking
  <2>3. CASE pc = "splash"
    <3>1. thread = "main" /\ obfs \in Nat
      BY <2>3 DEF PlaceInv
    <3>2. CASE obfs = 0
      BY <2>1, <3>1, <3>2, <1>a, <1>b DEF KeepInv, HaveKeys
    <3>3. CASE obfs >= 1
      <4>1. Passed' = {}
        BY <2>1, HookDomain DEF Passed
      <4> QED
        BY <2>1, <3>1, <3>3, <4>1, <1>a, <1>b DEF KeepInv, HaveKeys
    <3> QED
      BY <3>1, <3>2, <3>3
  <2> QED
    BY <1>3, <2>2, <2>3 DEF Splash
<1>4. CASE TaskHook
  <2>1. /\ hookIdx \in DOMAIN HookSeq /\ thread = "task"
        /\ pc = "hook" /\ pc' # "ui" /\ UNCHANGED <<thread, enabled, wanted, obfs>>
    BY <1>4, HookDomain DEF TaskHook, PlaceInv, diskVars, Looking
  <2>2. Kept = DOMAIN cacheFile
    BY <2>1 DEF Kept
  <2>3. CASE hookIdx' = hookIdx /\ finded' = NoFinds
    BY <2>1, <2>3, <1>a, <1>d DEF NoFinds
  <2>4. CASE /\ hookIdx' = hookIdx + 1 /\ finded' = finded
             /\ Hook \notin enabled \/ Obf[Hook] \subseteq Kept
    <3>1. Passed' = Passed \cup {Hook}
      BY <2>1, <2>4, PassedNext
    <3> QED
      BY <2>1, <2>4, <3>1, <1>a, <1>b DEF KeepInv, HaveKeys
  <2>5. ASSUME NEW r \in ReadCache(cacheFile), ~NeedObf(Hook, r[1])
        PROVE  Obf[Hook] \subseteq Kept
    BY <1>b, <2>2, <2>5, ReadCacheFacts, NeedObfFacts
  <2> QED
    BY <1>4, <2>3, <2>4, <2>5 DEF TaskHook, lookupVars
<1>5. CASE Lookup
  <2>1. UNCHANGED <<thread, wanted, enabled, obfs, hookIdx>> /\ pc' # "ui"
        /\ pc = "lookup"
    BY <1>5 DEF Lookup, sessionVars, diskVars, reCache
  <2>2. PICK r \in ReadCache(cacheFile) :
          finded' = finded \/ finded' = PutAll(finded, r[2])
    BY <1>5 DEF Lookup
  <2>3. r[2] = cacheFile /\ Kept = DOMAIN cacheFile
    BY <1>b, <2>1, ReadCacheFacts DEF Kept
  <2>4. DOMAIN finded' \subseteq Kept'
    BY <2>2, <2>3, <1>a, <1>b DEF PutAll
  <2> QED
    BY <2>1, <2>4, <1>d
<1>6. CASE WriteFile
  <2>1. UNCHANGED <<thread, wanted, enabled, obfs, hookIdx>> /\ pc' # "ui"
        /\ finded' = PutAll(finded, scan) /\ Kept = DOMAIN scan
    BY <1>6 DEF WriteFile, sessionVars, diskVars, Kept
  <2>2. DOMAIN finded' \subseteq Kept'
    BY <2>1, <1>a, <1>b DEF PutAll
  <2> QED
    BY <2>1, <2>2, <1>d
<1>7. CASE ApplyFinds
  <2>1. UNCHANGED <<thread, wanted, enabled, obfs, finded>> /\ pc' # "ui"
        /\ hookIdx \in DOMAIN HookSeq /\ Looking
    BY <1>7 DEF ApplyFinds, diskVars, reCache, PlaceInv, Looking
  <2>2. CASE hookIdx' = hookIdx
    BY <2>1, <2>2, <1>a, <1>b, <1>d
  <2>3. CASE hookIdx' = hookIdx + 1 /\ ~MustRescan(Hook, finded)
    <3>1. Passed' = Passed \cup {Hook}
      BY <2>1, <2>3, PassedNext
    <3>2. Hook \in Rescans => Obf[Hook] \subseteq Kept
      BY <2>3, <1>b DEF MustRescan
    <3> QED
      BY <2>1, <3>1, <3>2, <1>a, <1>b DEF KeepInv, HaveKeys
  <2> QED
    BY <1>7, <2>2, <2>3 DEF ApplyFinds
<1>8. CASE TaskDone
  <2>1. UNCHANGED <<finded, thread, wanted, enabled, obfs, hookIdx>>
        /\ thread = "task" /\ hookIdx > Len(HookSeq)
    BY <1>8 DEF TaskDone, lookupVars, sessionVars, diskVars, PlaceInv
  <2>2. wanted \subseteq Passed
    <3>1. hookIdx \in Nat /\ wanted \subseteq Hooks
      BY DEF PlaceInv
    <3> QED
      BY <2>1, <3>1, HookDomain DEF Hooks, Passed
  <2>3. HaveKeys(W)
    BY <2>1, <2>2 DEF KeepInv, HaveKeys
  <2> QED
    BY <2>1, <2>3, <1>a, <1>b DEF KeepInv, HaveKeys
<1>9. CASE SetEnable
  <2>1. UNCHANGED <<finded, thread, wanted, obfs, hookIdx, pc>>
        /\ thread = "task" /\ pc = "ui"
    BY <1>9 DEF SetEnable, lookupVars, sessionVars, PlaceInv
  <2> QED
    BY <2>1, <1>a, <1>b DEF KeepInv, HaveKeys
<1>10. CASE UpdateHost \/ UNCHANGED vars
  <2>1. UNCHANGED <<finded, thread, wanted, enabled, obfs, hookIdx, pc>>
    BY <1>10 DEF UpdateHost, vars, lookupVars, sessionVars, diskVars
  <2> QED
    BY <2>1, <1>a, <1>b, <1>d
<1> QED
  BY <1>1, <1>2, <1>3, <1>4, <1>5, <1>6, <1>7, <1>8, <1>9, <1>10 DEF Next, LoadStep

(* What was set for a key stays in the file, whichever hook it was for:    *)
(* doObf only sets what it was given, and that is kept.                    *)
FieldsKept ==
  found = Keys => \A k \in Keys : deobf[k] # None => k \in Kept

LEMMA FieldsKeptStep ==
  ASSUME PlaceInv, DexInv, SaveInv, KeepInv, FieldsKept, [Next]_vars
  PROVE  FieldsKept'
<1>1. CASE Kill
  BY <1>1 DEF Kill, FreshProcess, FieldsKept
<1>2. CASE ~Kill
  <2>1. found' = found
    BY <1>2 DEF Next, LoadStep, StartProcess, InitHook, SaveVersion, Splash,
       TaskHook, Lookup, TruncateFile, WriteFile, ApplyFinds, TaskDone, SetEnable,
       UpdateHost, vars, hostVars
  <2>2. ASSUME found = Keys, NEW k \in Keys, deobf'[k] # None
        PROVE  k \in Kept'
    <3>1. Kept \subseteq Kept' /\ DOMAIN finded \subseteq Kept
      BY <1>2, <2>2, KeptStep DEF KeepInv
    <3>2. deobf' = deobf \/ LoadHook(Hook, finded)
      BY <1>2 DEF Next, LoadStep, StartProcess, InitHook, SaveVersion, Splash,
         TaskHook, Lookup, TruncateFile, WriteFile, ApplyFinds, TaskDone,
         SetEnable, UpdateHost, vars, sessionVars
    <3>3. deobf'[k] = deobf[k] \/ k \in DOMAIN finded
      BY <3>2, LoadSets
    <3> QED
      BY <2>2, <3>1, <3>3 DEF FieldsKept
  <2> QED
    BY <2>1, <2>2 DEF FieldsKept
<1> QED
  BY <1>1, <1>2

(* When every key has a class, what was set for any hook is in the cache   *)
(* file once the loading is done, and so are all keys of the hooks that    *)
(* scan again: no scan loses what another one found.                       *)
THEOREM FileKeepsLoaded == Spec => []CacheKeepsLoaded
<1> DEFINE Inv == PlaceInv /\ DexInv /\ SaveInv /\ KeepInv /\ FieldsKept
<1>1. Init => Inv
  <2>1. Init => SaveInv /\ KeepInv /\ FieldsKept
    BY DEF Init, SaveInv, KeepInv, Kept, HaveKeys, NoFinds, FieldsKept, FreshProcess
  <2> QED
    BY <2>1, InitFields
<1>2. Inv /\ [Next]_vars => Inv'
  BY PlaceStep, DexStep, KeptStep, KeepStep, FieldsKeptStep
<1>3. Inv => CacheKeepsLoaded
  <2> SUFFICES ASSUME Inv, Loaded, found = Keys, NEW h \in wanted
               PROVE  /\ \A k \in Obf[h] : deobf[k] # None => k \in DOMAIN cacheFile
                      /\ h \in Rescans => Obf[h] \subseteq DOMAIN cacheFile
    BY DEF CacheKeepsLoaded
  <2>1. Kept = DOMAIN cacheFile /\ thread = "task" /\ h \in Hooks
    BY DEF PlaceInv, Loaded, Kept, Looking
  <2>2. h \in Rescans => Obf[h] \subseteq DOMAIN cacheFile
    BY <2>1 DEF KeepInv, Loaded, HaveKeys
  <2>3. \A k \in Obf[h] : deobf[k] # None => k \in DOMAIN cacheFile
    BY <2>1 DEF FieldsKept, Keys
  <2> QED
    BY <2>2, <2>3
<1> QED
  BY <1>1, <1>2, <1>3, PTL DEF Spec

-----------------------------------------------------------------------------
(* While the host app stays the same, every entry with a class is the one  *)
(* a scan would give.                                                      *)
LEMMA EntriesAreCurrent ==
  ASSUME NeverUpdated, host \in Versions, NEW f, FromDex(f),
         NEW k \in DOMAIN f, k \in found
  PROVE  f[k] = Find(k) /\ f[k] \in Loadable[host] /\ f[k] # None
<1>1. PICK v \in 1 .. host : f[k] = ClassOf[v][k]
  BY DEF FromDex
<1>2. v = host /\ k \in Keys
  BY <1>1 DEF NeverUpdated, FromDex
<1> QED
  BY <1>1, <1>2, ClassFacts DEF Find

(* init of a hook that scans again works when its keys have classes, and   *)
(* leaves the other hooks alone.                                           *)
LEMMA LoadHookWorks ==
  ASSUME NeverUpdated, PlaceInv, DexInv, Looking, UNCHANGED hostVars,
         LoadHook(Hook, finded), ~MustRescan(Hook, finded)
  PROVE  /\ \A h \in Sure : h = Hook => Works(h)'
         /\ \A h \in Hooks \ {Hook} : Works(h) => Works(h)'
<1>1. host \in Versions /\ FromDex(finded)
      /\ hooked \in [Hooks -> {"no", "ok", "failed"}]
  BY DEF PlaceInv, DexInv
<1>2. Hook \in Hooks
  BY HookFacts DEF PlaceInv, Hook
<1>3. \E r \in {"ok", "failed"} : hooked' = [hooked EXCEPT ![Hook] = r]
  BY DEF LoadHook
<1>4. \A k : Find(k)' = Find(k)
  BY DEF Find, hostVars
<1>5. ASSUME NEW h \in Sure, h = Hook
      PROVE  Works(h)'
  <2>1. ASSUME NEW k \in Obf[h]
        PROVE  /\ k \in DOMAIN finded /\ k \in found /\ k \in Keys
               /\ finded[k] = Find(k) /\ finded[k] \in Loadable[host]
               /\ finded[k] # None
    <3>1. k \in DOMAIN finded /\ k \in found /\ k \in Keys
      BY <1>2, <1>5, <2>1 DEF Sure, MustRescan, Keys
    <3> QED
      BY <1>1, <3>1, EntriesAreCurrent
  <2>2. ~Raises(Hook, finded)
    BY <1>5, <2>1 DEF Raises
  <2>3. /\ deobf' = DoObf(Hook, finded)
        /\ hooked' = [hooked EXCEPT ![Hook] =
             IF \A k \in Loads[Hook] : deobf'[k] \in Loadable[host]
             THEN "ok" ELSE "failed"]
    BY <2>2 DEF LoadHook
  <2>4. ASSUME NEW k \in Obf[h]
        PROVE  deobf'[k] = Find(k) /\ deobf'[k] \in Loadable[host]
    BY <1>5, <2>1, <2>3 DEF DoObf, Accepts
  <2>5. hooked'[h] = "ok"
    BY <1>1, <1>2, <1>5, <2>3, <2>4, HookAssumption
  <2> QED
    BY <1>4, <2>4, <2>5 DEF Works
<1>6. ASSUME NEW h \in Hooks, h # Hook, Works(h)
      PROVE  Works(h)'
  <2>1. hooked'[h] = "ok"
    BY <1>1, <1>2, <1>3, <1>6 DEF Works
  <2>2. ASSUME NEW k \in Obf[h]
        PROVE  deobf'[k] = Find(k)'
    <3>1. k \in Keys /\ k \notin Obf[Hook]
      BY <1>2, <1>6, HookAssumption DEF Keys
    <3> QED
      BY <1>4, <1>6, <3>1, LoadSets DEF Works
  <2> QED
    BY <2>1, <2>2 DEF Works
<1> QED
  BY <1>5, <1>6

(* A hook whose keys are missing before a step that does not look it up    *)
(* misses keys behind it.                                                  *)
LEMMA StillMissing ==
  ASSUME PlaceInv, DexInv, SaveInv, [Next]_vars,
         NEW h \in Hooks, Missing(h), ~Current(h)
  PROVE  Missing(h)'
<1>1. Kept' \subseteq Kept \cup (IF Looking THEN Obf[Hook] ELSE {})
  BY KeptStep
<1>2. Looking => Hook \in Hooks /\ Hook # h
  BY HookFacts DEF PlaceInv, Hook, Current
<1>3. Looking => Obf[Hook] \cap Obf[h] = {}
  BY <1>2, HookAssumption
<1> QED
  BY <1>1, <1>3 DEF Missing

(* A hook that scans again is not lost sight of before it works.           *)
LEMMA WorkStep ==
  ASSUME PlaceInv, DexInv, SaveInv, WorkInv, [Next]_vars
  PROVE  WorkInv'
<1>0. host \in Versions /\ FromDex(cacheFile)
  BY DEF PlaceInv, DexInv
<1>1. CASE UpdateHost
  <2>1. host' # 1
    BY <1>0, <1>1, ClassAssumption DEF UpdateHost, Versions
  <2> QED
    BY <2>1 DEF WorkInv, NeverUpdated
<1>2. CASE Kill
  BY <1>2 DEF Kill, WorkInv, NeverUpdated, hostVars, diskVars, Sure
<1> SUFFICES ASSUME ~UpdateHost, ~Kill, NeverUpdated
             PROVE  WorkInv'
  <2>1. host' = host \/ UpdateHost
    BY DEF Next, LoadStep, StartProcess, InitHook, SaveVersion, Splash, TaskHook,
       Lookup, TruncateFile, WriteFile, ApplyFinds, TaskDone, SetEnable, Kill,
       vars, hostVars
  <2> QED
    BY <1>1, <1>2, <2>1 DEF WorkInv, NeverUpdated
<1>a. /\ saved \in {0, 1}
      /\ saved = 0 => DOMAIN cacheFile = {} /\ pc \in {"off", "load"}
      /\ thread = "main" => wanted \subseteq enabled
      /\ thread = "main" => \A h \in Sure :
           Works(h) \/ Current(h) \/ (Missing(h) /\ obfs >= 1)
      /\ thread = "task" => \A h \in Sure :
           Works(h) \/ Current(h)
             \/ /\ Missing(h) /\ pc # "ui" /\ h \in enabled
                /\ \E i \in DOMAIN HookSeq : i >= hookIdx /\ HookSeq[i] = h
  BY DEF WorkInv
<1>b. ASSUME NEW h \in Hooks, Missing(h), ~Current(h)
      PROVE  Missing(h)'
  BY <1>b, StillMissing
<1>c. Sure \subseteq Hooks /\ hookIdx \in Nat /\ obfs \in Nat
  BY DEF Sure, PlaceInv
<1>d. ASSUME UNCHANGED <<hostVars, deobf, hooked>>, NEW h
      PROVE  Works(h)' <=> Works(h)
  BY <1>d DEF Works, Find, hostVars
<1>e. ASSUME UNCHANGED <<hostVars, saved, thread, wanted, enabled, obfs, hookIdx,
                         deobf, hooked>>,
             pc' # "ui", Looking => Looking',
             saved = 0 => DOMAIN cacheFile' = {} /\ pc' \in {"off", "load"}
      PROVE  WorkInv'
  <2>1. Sure' = Sure
    BY <1>e DEF Sure, hostVars
  <2>2. \A h : Current(h) => Current(h)'
    BY <1>e DEF Current, Hook
  <2>3. \A h \in Sure : Works(h) => Works(h)'
    BY <1>d, <1>e
  <2>4. \A h \in Sure : Missing(h) => Current(h) \/ Missing(h)'
    BY <1>b, <1>c
  <2> QED
    BY <1>a, <1>e, <2>1, <2>2, <2>3, <2>4 DEF WorkInv
<1>3. CASE StartProcess
  BY <1>3, <1>a, <1>e DEF StartProcess, hostVars, diskVars, sessionVars, Looking
<1>4. CASE SaveVersion
  <2>1. /\ UNCHANGED <<hostVars, thread, wanted, enabled, obfs, hookIdx, deobf,
                       hooked>>
        /\ saved' = host /\ pc = "load" /\ pc' = "splash" /\ thread = "main"
    BY <1>4 DEF SaveVersion, sessionVars, PlaceInv
  <2>2. Sure' = Sure
    BY <2>1 DEF Sure, hostVars
  <2>3. \A h \in Sure : Works(h)' \/ (Missing(h)' /\ obfs' >= 1)
    BY <2>1, <1>a, <1>b, <1>c, <1>d DEF Current, Looking
  <2> QED
    BY <2>1, <2>2, <2>3, <1>a DEF WorkInv, NeverUpdated
<1>5. CASE TruncateFile \/ WriteFile
  <2>1. UNCHANGED <<hostVars, saved, thread, wanted, enabled, obfs, hookIdx,
                    deobf, hooked>>
    BY <1>5 DEF TruncateFile, WriteFile, diskVars, sessionVars
  <2>2. pc \in {"truncate", "write"} /\ pc' \in {"write", "lookup", "apply"}
    BY <1>5 DEF TruncateFile, WriteFile
  <2> QED
    BY <2>1, <2>2, <1>a, <1>e DEF Looking
<1>6. CASE Lookup
  <2>1. UNCHANGED <<hostVars, saved, thread, wanted, enabled, obfs, hookIdx,
                    deobf, hooked>>
    BY <1>6 DEF Lookup, diskVars, sessionVars
  <2>2. pc = "lookup" /\ pc' \in {"truncate", "lookup", "apply"}
    BY <1>6 DEF Lookup, reCache
  <2> QED
    BY <2>1, <2>2, <1>a, <1>e DEF Looking
<1>7. CASE InitHook
  <2>1. /\ hookIdx \in DOMAIN HookSeq /\ pc = "load" /\ thread = "main"
        /\ UNCHANGED <<hostVars, saved, enabled, thread, deobf, hooked>>
    BY <1>7, HookDomain DEF InitHook, PlaceInv, diskVars, Looking
  <2>2. /\ Hook \in Hooks /\ Obf[Hook] # {}
        /\ Cardinality(Obf[Hook]) \in Nat \ {0}
    BY <2>1, HookFacts, HookAssumption DEF Hook
  <2>3. ASSUME NEW h \in Sure, obfs' \in Nat, obfs' >= obfs
        PROVE  Works(h)' \/ (Missing(h)' /\ obfs' >= 1)
    BY <2>1, <2>3, <1>a, <1>b, <1>c, <1>d DEF Current, Looking
  <2>4. CASE /\ pc' = "load"
             /\ UNCHANGED <<cacheFile, obfs, wanted>>
    <3>1. Sure' = Sure
      BY <2>1, <2>4 DEF Sure, hostVars
    <3> QED
      BY <2>1, <2>3, <2>4, <3>1, <1>a, <1>c DEF WorkInv
  <2>5. ASSUME NEW r \in ReadCache(cacheFile),
               Hook \in enabled, wanted' = wanted \cup {Hook},
               cacheFile' = IF isUpdate THEN cacheFile ELSE r[2]
        PROVE  /\ saved = 0 => DOMAIN cacheFile' = {} /\ isUpdate
               /\ wanted' \subseteq enabled'
               /\ Sure' \subseteq Sure \cup {Hook}
    <3>1. DOMAIN r[2] \subseteq DOMAIN cacheFile
      BY <1>0, ReadCacheFacts
    <3> QED
      BY <2>1, <2>5, <3>1, <1>a DEF Sure, hostVars, isUpdate
  <2>6. ASSUME NEW r \in ReadCache(cacheFile),
               Hook \in enabled, wanted' = wanted \cup {Hook},
               cacheFile' = IF isUpdate THEN cacheFile ELSE r[2],
               NeedObf(Hook, r[1]), pc' = "load",
               obfs' = obfs + Cardinality(Obf[Hook])
        PROVE  WorkInv'
    <3>1. obfs' \in Nat /\ obfs' >= 1 /\ obfs' >= obfs
      BY <2>2, <2>6, <1>c
    <3>2. Kept' = DOMAIN cacheFile'
      BY <2>6 DEF Kept
    <3>3. ASSUME Obf[Hook] \subseteq found
          PROVE  ~(Obf[Hook] \subseteq DOMAIN cacheFile')
      <4>1. CASE isUpdate
        <5>1. saved = 0
          BY <4>1, <1>a DEF isUpdate, NeverUpdated
        <5> QED
          BY <5>1, <2>2, <2>5, <2>6
      <4>2. CASE ~isUpdate
        <5>1. /\ FromDex(r[1]) /\ DOMAIN cacheFile' \subseteq DOMAIN r[1]
          BY <4>2, <2>6, <1>0, ReadCacheFacts
        <5>2. \A k \in Obf[Hook] \cap DOMAIN r[1] : r[1][k] \in Loadable[host]
          BY <5>1, <3>3, <1>0, EntriesAreCurrent
        <5> QED
          BY <4>2, <5>1, <5>2, <2>6 DEF NeedObf
      <4> QED
        BY <4>1, <4>2
    <3>4. ASSUME NEW h \in Sure'
          PROVE  Works(h)' \/ (Missing(h)' /\ obfs' >= 1)
      <4>1. CASE h \in Sure
        BY <4>1, <3>1, <2>3
      <4>2. CASE h = Hook
        <5>1. Obf[h] \subseteq found
          BY <3>4, <2>1 DEF Sure, hostVars
        <5> QED
          BY <4>2, <5>1, <3>1, <3>2, <3>3 DEF Missing
      <4> QED
        BY <2>5, <2>6, <3>4, <4>1, <4>2
    <3> QED
      BY <2>1, <2>5, <2>6, <3>4, <1>a DEF WorkInv
  <2>7. ASSUME NEW r \in ReadCache(cacheFile),
               Hook \in enabled, wanted' = wanted \cup {Hook},
               cacheFile' = IF isUpdate THEN cacheFile ELSE r[2],
               ~NeedObf(Hook, r[1]), pc' = "apply",
               UNCHANGED <<hookIdx, obfs>>
        PROVE  WorkInv'
    <3>1. ~isUpdate
      BY <2>7, NeedObfFacts
    <3>2. ASSUME NEW h, h = Hook
          PROVE  Current(h)'
      BY <2>7, <3>2 DEF Current, Looking, Hook
    <3>3. ASSUME NEW h \in Sure'
          PROVE  Works(h)' \/ Current(h)' \/ (Missing(h)' /\ obfs' >= 1)
      BY <2>3, <2>5, <2>7, <3>2, <1>c
    <3> QED
      BY <2>1, <2>5, <2>7, <3>1, <3>3, <1>a DEF WorkInv
  <2> QED
    BY <1>7, <2>4, <2>6, <2>7 DEF InitHook
<1>8. CASE Splash
  <2>1. /\ UNCHANGED <<hostVars, saved, enabled, obfs, deobf, hooked, wanted,
                       cacheFile>>
        /\ thread' = "task" /\ hookIdx' = 1 /\ pc \in {"splash", "ui"}
        /\ pc' = IF obfs < 1 THEN "ui" ELSE "hook"
    BY <1>8 DEF Splash, diskVars
  <2>2. Sure' = Sure /\ \A h : ~Current(h)
    BY <2>1 DEF Sure, hostVars, Current, Looking
  <2>3. ASSUME NEW h \in Sure
        PROVE  \/ Works(h)'
               \/ (Missing(h)' /\ obfs >= 1 /\ h \in enabled)
    <3>1. Works(h) \/ (Missing(h) /\ obfs >= 1 /\ h \in enabled)
      BY <2>1, <2>2, <1>a DEF PlaceInv, Sure, Looking
    <3> QED
      BY <3>1, <2>1, <2>2, <1>b, <1>c, <1>d
  <2>4. \A h \in Sure : \E i \in DOMAIN HookSeq : i >= hookIdx' /\ HookSeq[i] = h
    BY <2>1, <1>c, HookDomain DEF Hooks
  <2> QED
    BY <2>1, <2>2, <2>3, <2>4, <1>a, <1>c DEF WorkInv
<1>9. CASE TaskHook
  <2>1. /\ hookIdx \in DOMAIN HookSeq /\ pc = "hook" /\ thread = "task"
        /\ UNCHANGED <<hostVars, saved, enabled, thread, obfs, deobf, hooked,
                       wanted>>
        /\ pc' \in {"hook", "lookup"}
    BY <1>9, HookDomain DEF TaskHook, PlaceInv, diskVars, Looking
  <2>2. Sure' = Sure /\ (\A h : ~Current(h)) /\ saved # 0
    BY <2>1, <1>a DEF Sure, hostVars, Current, Looking
  <2>3. ASSUME NEW h \in Sure, ~Works(h)'
        PROVE  /\ Missing(h) /\ Missing(h)' /\ h \in enabled
               /\ \E i \in DOMAIN HookSeq : i >= hookIdx /\ HookSeq[i] = h
    BY <2>1, <2>2, <2>3, <1>a, <1>b, <1>c, <1>d
  <2>4. CASE hookIdx' = hookIdx /\ pc' = "lookup"
    BY <2>1, <2>2, <2>3, <2>4, <1>a DEF WorkInv
  <2>5. CASE /\ hookIdx' = hookIdx + 1 /\ pc' = "hook"
             /\ Hook \notin enabled \/ ~Missing(Hook)
    <3>1. ASSUME NEW h \in Sure, ~Works(h)'
          PROVE  \E i \in DOMAIN HookSeq : i >= hookIdx' /\ HookSeq[i] = h
      <4>1. PICK i \in DOMAIN HookSeq : i >= hookIdx /\ HookSeq[i] = h
        BY <2>3, <3>1
      <4>2. i # hookIdx
        BY <4>1, <2>3, <2>5, <3>1 DEF Hook
      <4> QED
        BY <4>1, <4>2, <2>5, <1>c, HookDomain
    <3> QED
      BY <2>1, <2>2, <2>3, <2>5, <3>1, <1>a DEF WorkInv
  <2>6. ASSUME NEW r \in ReadCache(cacheFile), ~NeedObf(Hook, r[1])
        PROVE  ~Missing(Hook)
    <3>1. Kept = DOMAIN cacheFile /\ DOMAIN r[1] \subseteq DOMAIN cacheFile
      BY <2>1, <1>0, ReadCacheFacts DEF Kept
    <3> QED
      BY <2>6, <3>1, NeedObfFacts DEF Missing
  <2> QED
    BY <1>9, <2>4, <2>5, <2>6 DEF TaskHook
<1>10. CASE ApplyFinds
  <2>1. /\ hookIdx \in DOMAIN HookSeq /\ pc = "apply" /\ Looking /\ saved # 0
        /\ UNCHANGED <<hostVars, saved, enabled, thread, obfs, wanted>>
    BY <1>10, <1>a DEF ApplyFinds, diskVars, PlaceInv, Looking
  <2>2. CASE pc' = "truncate" /\ UNCHANGED <<hookIdx, deobf, hooked>>
    BY <2>1, <2>2, <1>e DEF Looking
  <2>3. CASE /\ LoadHook(Hook, finded) /\ ~MustRescan(Hook, finded)
             /\ hookIdx' = hookIdx + 1
             /\ pc' = IF thread = "main" THEN "load" ELSE "hook"
    <3>1. Sure' = Sure /\ pc' # "ui"
      BY <2>1, <2>3 DEF Sure, hostVars
    <3>2. ASSUME NEW h \in Sure
          PROVE  h = Hook \/ Works(h) => Works(h)'
      BY <2>1, <2>3, <1>c, LoadHookWorks
    <3>3. ASSUME NEW h \in Sure, ~Works(h)'
          PROVE  /\ Missing(h)'
                 /\ thread = "main" => obfs >= 1
                 /\ thread = "task" => h \in enabled
                 /\ thread = "task" =>
                      \E i \in DOMAIN HookSeq : i >= hookIdx' /\ HookSeq[i] = h
      <4>1. ~Works(h) /\ h # Hook /\ ~Current(h)
        BY <3>2, <3>3 DEF Current
      <4>2. /\ Missing(h)
            /\ thread = "main" => obfs >= 1
            /\ thread = "task" => h \in enabled
            /\ thread = "task" =>
                 \E i \in DOMAIN HookSeq : i >= hookIdx /\ HookSeq[i] = h
        BY <4>1, <1>a DEF PlaceInv
      <4>3. ASSUME NEW i \in DOMAIN HookSeq, i >= hookIdx, HookSeq[i] = h
            PROVE  i >= hookIdx'
        BY <4>1, <4>3, <2>3, <1>c, HookDomain DEF Hook
      <4> QED
        BY <4>1, <4>2, <4>3, <1>b, <1>c
    <3> QED
      BY <2>1, <3>1, <3>3, <1>a DEF WorkInv
  <2> QED
    BY <1>10, <2>2, <2>3 DEF ApplyFinds, reCache
<1>11. CASE TaskDone \/ SetEnable
  <2>1. /\ UNCHANGED <<hostVars, saved, thread, obfs, wanted, hookIdx, deobf,
                       hooked>>
        /\ thread = "task" /\ pc \in {"hook", "ui"} /\ pc' = "ui"
        /\ pc = "hook" => hookIdx > Len(HookSeq)
    BY <1>11 DEF TaskDone, SetEnable, diskVars, sessionVars, PlaceInv, Looking
  <2>2. Sure' = Sure /\ (\A h : ~Current(h)) /\ saved # 0
    BY <2>1, <1>a DEF Sure, hostVars, Current, Looking
  <2>3. \A h \in Sure : Works(h)'
    BY <2>1, <2>2, <1>a, <1>c, <1>d, HookDomain
  <2> QED
    BY <2>1, <2>2, <2>3, <1>a DEF WorkInv
<1>12. CASE UNCHANGED vars
  BY <1>12 DEF vars, hostVars, diskVars, lookupVars, sessionVars, WorkInv,
     NeverUpdated, Sure, Works, Find, Current, Looking, Hook, Missing, Kept
<1> QED
  BY <1>1, <1>2, <1>3, <1>4, <1>5, <1>6, <1>7, <1>8, <1>9, <1>10, <1>11, <1>12
     DEF Next, LoadStep

(* While the host app stays the same, a hook that scans again for missing  *)
(* keys works once the loading is done, whatever was switched on and off   *)
(* and in whichever state a killed process left the file.                  *)
THEOREM RescannersWork == Spec => []RescanningHooksWork
<1> DEFINE Inv == PlaceInv /\ DexInv /\ SaveInv /\ WorkInv
<1>1. Init => Inv
  <2>1. Init => SaveInv /\ WorkInv
    BY DEF Init, SaveInv, WorkInv, NoFinds, Sure
  <2> QED
    BY <2>1, InitFields
<1>2. Inv /\ [Next]_vars => Inv'
  BY PlaceStep, DexStep, KeptStep, WorkStep
<1>3. Inv => RescanningHooksWork
  BY DEF PlaceInv, WorkInv, RescanningHooksWork, Loaded, Sure, Works, Current, Looking
<1> QED
  BY <1>1, <1>2, <1>3, PTL DEF Spec

=============================================================================
