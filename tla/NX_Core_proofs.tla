---------------------------- MODULE NX_Core_proofs ----------------------------
(***************************************************************************)
(* Proofs about NX_Core, for any number of threads, names and handles.     *)
(* The counters of the libraries are right because gstOMXCoreMutex stays   *)
(* taken while a handle is made, so that there is one such handle at a     *)
(* time, and it was let in under the limit.  The names of the table are    *)
(* safe because every reader has called OMX_Init and the reference count   *)
(* counts those calls.                                                     *)
(***************************************************************************)
EXTENDS NX_Core, FiniteSetTheorems, SequenceTheorems, TLAPS

\* Handles with an instance, or about to get one.
Made == {"init", "live", "deinit"}

\* A handle that is made has its entry in the table.
Entered == \A h \in Handles : handle[h] \in Made => entry[h] \in DOMAIN gstOMXComponentList

\* There is a table once it was built.
Built == ~ gstNXOMXInit => gstOMXComponentList = <<>>

\* A thread between the halves of a call has the mutex.
Owner == \A t \in Threads : pc[t] \in {"get", "free"} => gstOMXCoreMutex = t

\* The handle that is being made is the only one, and there is room for it.
OneAtATime ==
  \A h \in Handles : handle[h] = "init" =>
    /\ gstOMXCoreMutex \in Threads /\ pc[gstOMXCoreMutex] = "get"
    /\ \A g \in Handles : handle[g] = "init" => g = h
    /\ gstNumInstance[LibOf(h)] < gstMaxInstance(LibOf(h))

\* A handle that was not made has no memory.
Clean == \A h \in Handles : handle[h] \in {"unused", "failed"} => \A b \in heap : b[1] # h

IInv == TypeOK /\ Entered /\ Built /\ Owner /\ OneAtATime /\ InstancesCounted /\ Clean

-----------------------------------------------------------------------------
\* The handles of a library are finitely many.
LEMMA Finite == \A lib : IsFiniteSet(InstancesOf(lib)) /\ Cardinality(InstancesOf(lib)) \in Nat
<1>1. IsFiniteSet(Handles)
  BY FS_Interval, CoreAssumption DEF Handles
<1>2. ASSUME NEW lib PROVE IsFiniteSet(InstancesOf(lib))
  BY <1>1, FS_Subset DEF InstancesOf
<1> QED
  BY <1>2, FS_CardinalityType

\* The strings of an entry stay when the loader ran.
LEMMA LoadedEntry ==
  ASSUME NEW e \in Entries, NEW opens \in BOOLEAN
  PROVE  Loaded(e, opens) \in Entries /\ Loaded(e, opens).strSoName = e.strSoName
BY DEF Loaded, Entries

\* An unsuccessful creation frees what it allocated.
LEMMA NothingLeft ==
  ASSUME NEW full \in BOOLEAN, NEW mem \in {None, "header", "private", "callbacks"},
         mem # "header", full \/ mem # None
  PROVE  AllocatedBefore(full, mem) \ FreedByFailure(full, mem) = {}
BY DEF AllocatedBefore, FreedByFailure, None

-----------------------------------------------------------------------------
LEMMA InitIInv == Init => IInv
<1> SUFFICES ASSUME Init PROVE IInv
  OBVIOUS
<1>1. \A lib \in Libraries : InstancesOf(lib) = {}
  BY DEF Init, InstancesOf
<1>2. InstancesCounted
  <2>1. Cardinality({}) = 0
    BY FS_EmptySet
  <2>2. \A lib \in Libraries : gstNumInstance[lib] = 0 /\ gstMaxInstance(lib) \in {2, 3}
    BY DEF Init, gstMaxInstance
  <2> QED
    BY <1>1, <2>1, <2>2 DEF InstancesCounted
<1>3. TypeOK
  <2>1. gstOMXComponentList \in Seq(Entries)
    BY EmptySeq DEF Init
  <2> QED
    BY <2>1, CoreAssumption DEF Init, TypeOK
<1> QED
  BY <1>2, <1>3 DEF IInv, Init, Entered, Built, Owner, OneAtATime, Clean, Made

\* Calls that leave handles and mutex alone, but perhaps build the table.
LEMMA TableKeeps ==
  ASSUME IInv, NEW t \in Threads, OMX_Init(t) \/ OMX_Deinit(t)
  PROVE  IInv'
<1> USE DEF IInv
<1>1. TypeOK'
  <2>1. gstOMXCoreRefCnt' \in Nat /\ UNCHANGED <<gstOMXCoreMutex, objects, pc>>
    <3>1. gstOMXCoreRefCnt \in Nat
      BY DEF TypeOK
    <3> QED
      BY <3>1 DEF OMX_Init, OMX_Deinit
  <2>5. inits' \subseteq Threads \X (1..MaxInit)
    <3>1. inits \subseteq Threads \X (1..MaxInit)
      BY DEF TypeOK
    <3>2. PICK k \in 1..MaxInit : inits' \in {inits \cup {<<t, k>>}, inits \ {<<t, k>>}}
      BY DEF OMX_Init, OMX_Deinit
    <3> QED
      BY <3>1, <3>2
  <2>2. /\ gstNXOMXInit' \in BOOLEAN /\ gstOMXComponentList' \in Seq(Entries)
        /\ strings' \in {"none", "live", "freed"}
    BY TableAssumption
       DEF TypeOK, OMX_Init, OMX_Deinit, BuildComponentTable, DestroyComponentTable, table
  <2>3. fault' \in {None, "freed string read", "strings freed twice"}
    BY DEF TypeOK, OMX_Init, OMX_Deinit, DestroyComponentTable
  <2>4. entry \in [Handles -> {0} \cup DOMAIN gstOMXComponentList']
    <3>1. gstOMXComponentList' = gstOMXComponentList \/ gstOMXComponentList = <<>>
      BY DEF OMX_Init, OMX_Deinit, BuildComponentTable, table, Built
    <3>2. DOMAIN <<>> = {}
      OBVIOUS
    <3> QED
      BY <3>1, <3>2 DEF TypeOK
  <2> QED
    BY <2>1, <2>2, <2>3, <2>4, <2>5 DEF TypeOK, objects
<1>2. CASE UNCHANGED table
  <2>1. UNCHANGED <<objects, gstOMXCoreMutex, pc>>
    BY DEF OMX_Init, OMX_Deinit
  <2>2. \A lib : InstancesOf(lib)' = InstancesOf(lib)
    BY <1>2, <2>1 DEF InstancesOf, LibOf, table, objects
  <2> QED
    BY <1>1, <1>2, <2>1, <2>2
       DEF Entered, Built, Owner, OneAtATime, InstancesCounted, Clean, LibOf, table, objects
<1>3. CASE ~ UNCHANGED table
  <2>1. ~ gstNXOMXInit /\ gstNXOMXInit' /\ UNCHANGED <<objects, gstOMXCoreMutex, pc>>
    BY <1>3 DEF OMX_Init, OMX_Deinit, BuildComponentTable, table
  <2>2. \A h \in Handles : handle[h] \notin Made
    BY <2>1 DEF Built, Entered
  <2>3. \A lib : InstancesOf(lib)' = InstancesOf(lib)
    BY <2>1, <2>2 DEF InstancesOf, objects, Made
  <2> QED
    BY <1>1, <2>1, <2>2, <2>3
       DEF Entered, Built, Owner, OneAtATime, InstancesCounted, Clean, objects, Made
<1> QED
  BY <1>2, <1>3

\* Calls that only read.
LEMMA ReadKeeps ==
  ASSUME IInv, NEW t \in Threads, NEW name, NEW i,
         \/ ComponentNameEnumTest(t, i) \/ ComponentNameEnumCopy(t)
         \/ GetComponentsOfRole(t) \/ GetHandleNotFound(t, name)
  PROVE  IInv'
<1> USE DEF IInv
<1>1. /\ UNCHANGED <<gstOMXCoreRefCnt, table, strings, gstOMXCoreMutex, objects, inits>>
      /\ fault' \in {fault, "freed string read"}
      /\ pc' = pc \/ \E c \in {"enum", "out"} : pc' = [pc EXCEPT ![t] = c]
      /\ pc'[t] \notin {"get", "free"} => pc[t] \notin {"get", "free"}
  BY DEF ComponentNameEnumTest, ComponentNameEnumCopy, GetComponentsOfRole, GetHandleNotFound,
         ReadString, TypeOK, Call
<1>2. \A lib : InstancesOf(lib)' = InstancesOf(lib)
  BY <1>1 DEF InstancesOf, LibOf, table, objects
<1>3. \A u \in Threads : pc'[u] = "get" <=> pc[u] = "get"
  BY <1>1 DEF TypeOK
<1>4. \A u \in Threads : pc'[u] = "free" <=> pc[u] = "free"
  BY <1>1 DEF TypeOK
<1>5. TypeOK'
  BY ZenonT(60), <1>1 DEF TypeOK, table, objects
<1> QED
  BY <1>1, <1>2, <1>3, <1>4, <1>5
     DEF Entered, Built, Owner, OneAtATime, InstancesCounted, Clean, LibOf, table, objects

\* The first half of OMX_GetHandle.
LEMMA GetStartKeeps ==
  ASSUME IInv, NEW t \in Threads, NEW name, NEW opens \in BOOLEAN,
         NEW mem \in {None, "header", "private", "callbacks"},
         GetHandleStart(t, name, opens, mem)
  PROVE  IInv'
<1> USE DEF IInv
<1>1. PICK h \in Handles : GetHandleStart(t, name, opens, mem)!(h)
  BY DEF GetHandleStart
<1>2. PICK i \in EntryOf(name) :
        LET e == Loaded(gstOMXComponentList[i], opens)
            full == gstNumInstance[e.strSoName] >= gstMaxInstance(e.strSoName)
            fails(left) ==
              /\ handle' = [handle EXCEPT ![h] = "failed"]
              /\ heap' = heap \cup ({h} \X left)
              /\ UNCHANGED <<gstOMXCoreMutex, pc, entry, cmdThread>>
        IN /\ gstOMXComponentList' = [gstOMXComponentList EXCEPT ![i] = e]
           /\ IF ~e.ComponentInit \/ mem = "header" THEN fails({})
              ELSE IF full \/ mem # None THEN
                fails(AllocatedBefore(full, mem) \ FreedByFailure(full, mem))
              ELSE /\ heap' = heap \cup ({h} \X {"header", "private", "callbacks"})
                   /\ entry' = [entry EXCEPT ![h] = i]
                   /\ cmdThread' = [cmdThread EXCEPT ![h] = "created"]
                   /\ handle' = [handle EXCEPT ![h] = "init"]
                   /\ gstOMXCoreMutex' = t
                   /\ pc' = [pc EXCEPT ![t] = "get"]
  BY <1>1
<1> DEFINE e == Loaded(gstOMXComponentList[i], opens)
           full == gstNumInstance[e.strSoName] >= gstMaxInstance(e.strSoName)
<1>3. /\ handle[h] = "unused" /\ gstOMXCoreMutex = None /\ pc[t] = "out"
      /\ UNCHANGED <<gstOMXCoreRefCnt, gstNXOMXInit, strings, gstNumInstance, inits>>
      /\ fault' \in {fault, "freed string read"}
  BY <1>1 DEF Call, ReadString
<1>4. i \in DOMAIN gstOMXComponentList /\ gstOMXComponentList[i] \in Entries
  <2>1. i \in DOMAIN gstOMXComponentList
    BY DEF EntryOf
  <2>2. gstOMXComponentList \in Seq(Entries)
    BY DEF TypeOK
  <2> QED
    BY <2>1, <2>2
<1>5. e \in Entries /\ e.strSoName = gstOMXComponentList[i].strSoName
  BY <1>4, LoadedEntry
<1>6. /\ gstOMXComponentList' = [gstOMXComponentList EXCEPT ![i] = e]
      /\ gstOMXComponentList' \in Seq(Entries)
      /\ DOMAIN gstOMXComponentList' = DOMAIN gstOMXComponentList
      /\ \A j \in DOMAIN gstOMXComponentList :
           gstOMXComponentList'[j].strSoName = gstOMXComponentList[j].strSoName
  <2>1. gstOMXComponentList' = [gstOMXComponentList EXCEPT ![i] = e]
    BY <1>2
  <2>2. gstOMXComponentList \in Seq(Entries)
    BY DEF TypeOK
  <2> HIDE DEF e
  <2>3. [gstOMXComponentList EXCEPT ![i] = e] \in Seq(Entries)
    BY <1>4, <1>5, <2>2, ExceptSeq
  <2> QED
    BY <1>4, <1>5, <2>1, <2>3
<1>7. \A g \in Handles : handle[g] # "init"
  BY <1>3, CoreAssumption DEF OneAtATime
<1>8. gstOMXComponentList # <<>> /\ gstNXOMXInit
  BY <1>4 DEF Built
<1>9. CASE \/ ~ e.ComponentInit \/ mem = "header"
           \/ full \/ mem # None
  <2>1. /\ handle' = [handle EXCEPT ![h] = "failed"] /\ heap' = heap
        /\ UNCHANGED <<gstOMXCoreMutex, pc, entry, cmdThread>>
    <3>1. CASE ~ e.ComponentInit \/ mem = "header"
      BY <1>2, <3>1
    <3>2. CASE ~ (~ e.ComponentInit \/ mem = "header")
      <4>0. full \in BOOLEAN
        OBVIOUS
      <4>1. AllocatedBefore(full, mem) \ FreedByFailure(full, mem) = {}
        <5> HIDE DEF full, e
        <5> QED
          BY <1>9, <3>2, <4>0, NothingLeft
      <4> QED
        BY <1>2, <1>9, <3>2, <4>1
    <3> QED
      BY <3>1, <3>2
  <2>2. \A lib : InstancesOf(lib)' = InstancesOf(lib)
    BY ZenonT(60), <1>3, <1>6, <2>1 DEF InstancesOf, LibOf, TypeOK, Entered, Made
  <2>3. TypeOK'
    BY <1>3, <1>6, <2>1 DEF TypeOK
  <2>4. handle \in [Handles -> {"unused", "init", "live", "deinit", "freed", "failed"}]
    BY DEF TypeOK
  <2>5. \A g \in Handles : handle'[g] # "init" /\ (handle'[g] \in Made => handle[g] \in Made)
    BY <1>7, <2>1, <2>4 DEF Made
  <2>6. Entered' /\ Built' /\ OneAtATime' /\ InstancesCounted'
    BY <1>3, <1>6, <1>8, <2>1, <2>2, <2>5 DEF Entered, Built, OneAtATime, InstancesCounted
  <2>7. Owner'
    BY <2>1 DEF Owner
  <2>8. Clean'
    BY <1>3, <2>1, <2>4 DEF Clean
  <2> QED
    BY <2>3, <2>6, <2>7, <2>8
<1>10. CASE ~ (\/ ~ e.ComponentInit \/ mem = "header"
               \/ full \/ mem # None)
  <2>1. /\ heap' = heap \cup ({h} \X {"header", "private", "callbacks"})
        /\ entry' = [entry EXCEPT ![h] = i]
        /\ cmdThread' = [cmdThread EXCEPT ![h] = "created"]
        /\ handle' = [handle EXCEPT ![h] = "init"]
        /\ gstOMXCoreMutex' = t /\ pc' = [pc EXCEPT ![t] = "get"]
    BY <1>2, <1>10
  <2>2. \A lib : InstancesOf(lib)' = InstancesOf(lib)
    <3>1. \A g \in Handles : handle'[g] \in {"live", "deinit"} <=> handle[g] \in {"live", "deinit"}
      BY <1>3, <2>1 DEF TypeOK
    <3>2. ASSUME NEW g \in Handles, handle[g] \in {"live", "deinit"} PROVE LibOf(g)' = LibOf(g)
      <4>1. g # h /\ entry[g] \in DOMAIN gstOMXComponentList
        BY <1>3, <3>2 DEF Entered, Made
      <4>2. entry'[g] = entry[g]
        BY <2>1, <4>1 DEF TypeOK
      <4> QED
        BY <1>6, <4>1, <4>2 DEF LibOf
    <3> QED
      BY <3>1, <3>2 DEF InstancesOf
  <2>3. TypeOK'
    BY <1>3, <1>4, <1>6, <2>1 DEF TypeOK
  <2>4. LibOf(h)' = e.strSoName /\ gstNumInstance[e.strSoName] < gstMaxInstance(e.strSoName)
    <3>1. LibOf(h)' = e.strSoName
      BY <1>4, <1>5, <1>6, <2>1 DEF LibOf, TypeOK
    <3>2. gstNumInstance[e.strSoName] \in Nat /\ gstMaxInstance(e.strSoName) \in Nat
      BY <1>5 DEF TypeOK, Entries, gstMaxInstance
    <3> QED
      BY <1>10, <3>1, <3>2
  <2>5. OneAtATime'
    BY <1>3, <1>7, <2>1, <2>4 DEF OneAtATime, TypeOK
  <2>6. Owner'
    BY <1>3, <2>1, CoreAssumption DEF Owner, TypeOK
  <2>7. Entered' /\ Built' /\ Clean'
    BY <1>3, <1>4, <1>6, <1>8, <2>1 DEF Entered, Built, Clean, Made, TypeOK
  <2>8. InstancesCounted'
    BY <1>3, <2>2 DEF InstancesCounted
  <2> QED
    BY <2>3, <2>5, <2>6, <2>7, <2>8
<1> QED
  BY <1>9, <1>10

\* The last half of OMX_GetHandle: the instance is counted.
LEMMA GetEndKeeps ==
  ASSUME IInv, NEW t \in Threads, GetHandleEnd(t)
  PROVE  IInv'
<1> USE DEF IInv
<1>1. PICK h \in Handles :
        /\ handle[h] = "init" /\ cmdThread[h] = "running"
        /\ handle' = [handle EXCEPT ![h] = "live"]
        /\ gstNumInstance' = [gstNumInstance EXCEPT ![LibOf(h)] = @ + 1]
  BY DEF GetHandleEnd
<1>2. /\ pc[t] = "get" /\ pc' = [pc EXCEPT ![t] = "out"] /\ gstOMXCoreMutex' = None
      /\ UNCHANGED <<gstOMXCoreRefCnt, table, strings, heap, entry, cmdThread, inits, fault>>
  BY DEF GetHandleEnd
<1>3. \A u \in Threads : pc'[u] \notin {"get", "free"}
  BY <1>2 DEF Owner, TypeOK
<1>4. LibOf(h) \in Libraries
  <2>1. entry[h] \in DOMAIN gstOMXComponentList
    BY <1>1 DEF Entered, Made
  <2>2. gstOMXComponentList \in Seq(Entries)
    BY DEF TypeOK
  <2>3. gstOMXComponentList[entry[h]] \in Entries
    BY <2>1, <2>2
  <2> QED
    BY <2>3 DEF LibOf, Entries
<1>5. \A g \in Handles : handle'[g] # "init" /\ (g # h => handle'[g] = handle[g])
  BY <1>1 DEF OneAtATime, TypeOK
<1>6. handle'[h] = "live"
  BY <1>1 DEF TypeOK
<1>7. InstancesCounted'
  <2>1. /\ InstancesOf(LibOf(h))' = InstancesOf(LibOf(h)) \cup {h}
        /\ h \notin InstancesOf(LibOf(h))
        /\ \A lib : lib # LibOf(h) => InstancesOf(lib)' = InstancesOf(lib)
    BY <1>1, <1>2, <1>5, <1>6 DEF InstancesOf, LibOf, table
  <2>2. Cardinality(InstancesOf(LibOf(h)) \cup {h}) = Cardinality(InstancesOf(LibOf(h))) + 1
    BY <2>1, Finite, FS_AddElement
  <2>3. gstNumInstance[LibOf(h)] < gstMaxInstance(LibOf(h))
    BY <1>1 DEF OneAtATime
  <2>4. gstNumInstance \in [Libraries -> Nat]
    BY DEF TypeOK
  <2>5. gstNumInstance'[LibOf(h)] = Cardinality(InstancesOf(LibOf(h))')
    BY <1>1, <1>4, <2>1, <2>2, <2>4 DEF InstancesCounted
  <2>6. gstNumInstance'[LibOf(h)] <= gstMaxInstance(LibOf(h))
    <3>1. gstMaxInstance(LibOf(h)) \in Nat /\ gstNumInstance[LibOf(h)] \in Nat
      BY <1>4, <2>4 DEF gstMaxInstance
    <3> QED
      BY <1>1, <1>4, <2>3, <2>4, <3>1
  <2>7. ASSUME NEW lib \in Libraries, lib # LibOf(h)
        PROVE  gstNumInstance'[lib] = gstNumInstance[lib] /\ InstancesOf(lib)' = InstancesOf(lib)
    BY <1>1, <2>1, <2>4, <2>7
  <2>8. LibOf(h)' = LibOf(h)
    BY <1>2 DEF LibOf, table
  <2>9. ASSUME NEW lib \in Libraries
        PROVE  /\ gstNumInstance'[lib] = Cardinality(InstancesOf(lib)')
               /\ gstNumInstance'[lib] <= gstMaxInstance(lib)
    <3>1. CASE lib = LibOf(h)
      BY <2>5, <2>6, <2>8, <3>1
    <3>2. CASE lib # LibOf(h)
      BY <2>7, <3>2 DEF InstancesCounted
    <3> QED
      BY <3>1, <3>2
  <2> QED
    BY <2>9 DEF InstancesCounted
<1>8. TypeOK'
  <2>1. gstNumInstance' \in [Libraries -> Nat]
    <3>1. gstNumInstance \in [Libraries -> Nat]
      BY DEF TypeOK
    <3> QED
      BY <1>1, <1>4, <3>1
  <2>2. /\ handle' \in [Handles -> {"unused", "init", "live", "deinit", "freed", "failed"}]
        /\ pc' \in [Threads -> {"out", "enum", "get", "free"}]
    BY <1>1, <1>2 DEF TypeOK
  <2> QED
    BY <1>2, <2>1, <2>2 DEF TypeOK, table
<1>9. Entered' /\ Built' /\ Clean'
  BY <1>1, <1>2, <1>5, <1>6 DEF Entered, Built, Clean, Made, table
<1>10. Owner' /\ OneAtATime'
  BY <1>3, <1>5 DEF Owner, OneAtATime
<1> QED
  BY <1>7, <1>8, <1>9, <1>10

\* The first half of OMX_FreeHandle.
LEMMA FreeStartKeeps ==
  ASSUME IInv, NEW t \in Threads, NEW h \in Handles, FreeHandleStart(t, h)
  PROVE  IInv'
<1> USE DEF IInv
<1>1. /\ gstOMXCoreMutex = None /\ handle[h] = "live"
      /\ cmdThread' = [cmdThread EXCEPT ![h] = "told"]
      /\ handle' = [handle EXCEPT ![h] = "deinit"]
      /\ gstOMXCoreMutex' = t /\ pc' = [pc EXCEPT ![t] = "free"]
      /\ UNCHANGED <<gstOMXCoreRefCnt, table, strings, gstNumInstance, heap, entry, inits, fault>>
  BY DEF FreeHandleStart, Call
<1>2. TypeOK'
  BY <1>1 DEF TypeOK, table
<1>3. \A g \in Handles : /\ g # h => handle'[g] = handle[g]
                         /\ handle'[g] \in {"live", "deinit"} <=> handle[g] \in {"live", "deinit"}
                         /\ handle'[g] # "init"
  BY <1>1, CoreAssumption DEF TypeOK, OneAtATime
<1>4. \A lib : InstancesOf(lib)' = InstancesOf(lib)
  BY <1>1, <1>3 DEF InstancesOf, LibOf, table
<1>5. Owner'
  BY <1>1, CoreAssumption DEF Owner, TypeOK
<1>6. Entered' /\ Built'
  BY <1>1, <1>3 DEF Entered, Built, Made, table
<1>7. Clean'
  <2>1. \A g \in Handles : handle'[g] \in {"unused", "failed"} => handle[g] \in {"unused", "failed"}
    BY <1>1 DEF TypeOK
  <2> QED
    BY <1>1, <2>1 DEF Clean
<1> QED
  BY <1>1, <1>2, <1>3, <1>4, <1>5, <1>6, <1>7 DEF OneAtATime, InstancesCounted

\* The last half of OMX_FreeHandle: the instance is counted down.
LEMMA FreeEndKeeps ==
  ASSUME IInv, NEW t \in Threads, FreeHandleEnd(t)
  PROVE  IInv'
<1> USE DEF IInv
<1>1. PICK h \in Handles :
        /\ handle[h] = "deinit" /\ cmdThread[h] = "exited"
        /\ handle' = [handle EXCEPT ![h] = "freed"]
        /\ heap' = heap \ ({h} \X {"header", "private"})
        /\ gstNumInstance' = [gstNumInstance EXCEPT ![LibOf(h)] = @ - 1]
  BY DEF FreeHandleEnd
<1>2. /\ pc[t] = "free" /\ pc' = [pc EXCEPT ![t] = "out"] /\ gstOMXCoreMutex' = None
      /\ UNCHANGED <<gstOMXCoreRefCnt, table, strings, entry, cmdThread, inits, fault>>
  BY DEF FreeHandleEnd
<1>3. \A u \in Threads : pc'[u] \notin {"get", "free"}
  BY <1>2 DEF Owner, TypeOK
<1>4. LibOf(h) \in Libraries
  <2>1. entry[h] \in DOMAIN gstOMXComponentList
    BY <1>1 DEF Entered, Made
  <2>2. gstOMXComponentList \in Seq(Entries)
    BY DEF TypeOK
  <2>3. gstOMXComponentList[entry[h]] \in Entries
    BY <2>1, <2>2
  <2> QED
    BY <2>3 DEF LibOf, Entries
<1>5. \A g \in Handles : handle'[g] # "init" /\ (g # h => handle'[g] = handle[g])
  <2>1. \A g \in Handles : handle[g] # "init"
    BY <1>2 DEF OneAtATime, Owner
  <2> QED
    BY <1>1, <2>1 DEF TypeOK
<1>6. handle'[h] = "freed"
  BY <1>1 DEF TypeOK
<1>7. /\ InstancesOf(LibOf(h))' = InstancesOf(LibOf(h)) \ {h}
      /\ h \in InstancesOf(LibOf(h))
      /\ \A lib : lib # LibOf(h) => InstancesOf(lib)' = InstancesOf(lib)
  BY <1>1, <1>2, <1>5, <1>6 DEF InstancesOf, LibOf, table
<1>8. /\ Cardinality(InstancesOf(LibOf(h)) \ {h}) = Cardinality(InstancesOf(LibOf(h))) - 1
      /\ Cardinality(InstancesOf(LibOf(h)) \ {h}) \in Nat
  <2>1. IsFiniteSet(InstancesOf(LibOf(h)) \ {h})
    BY Finite, FS_RemoveElement
  <2> QED
    BY <1>7, <2>1, Finite, FS_RemoveElement, FS_CardinalityType
<1>9. gstNumInstance \in [Libraries -> Nat]
  BY DEF TypeOK
<1>10. gstNumInstance[LibOf(h)] = Cardinality(InstancesOf(LibOf(h)))
  BY <1>4 DEF InstancesCounted
<1>11. gstNumInstance'[LibOf(h)] = gstNumInstance[LibOf(h)] - 1
  BY <1>1, <1>4, <1>9
<1>12. InstancesCounted'
  <2>1. gstNumInstance'[LibOf(h)] = Cardinality(InstancesOf(LibOf(h))')
    BY <1>7, <1>8, <1>10, <1>11
  <2>2. gstNumInstance'[LibOf(h)] <= gstMaxInstance(LibOf(h))
    <3>1. /\ gstMaxInstance(LibOf(h)) \in Nat /\ gstNumInstance[LibOf(h)] \in Nat
          /\ gstNumInstance[LibOf(h)] <= gstMaxInstance(LibOf(h))
      BY <1>4, <1>9 DEF gstMaxInstance, InstancesCounted
    <3> QED
      BY <1>11, <3>1
  <2>3. ASSUME NEW lib \in Libraries, lib # LibOf(h)
        PROVE  gstNumInstance'[lib] = gstNumInstance[lib] /\ InstancesOf(lib)' = InstancesOf(lib)
    BY <1>1, <1>7, <1>9, <2>3
  <2>4. LibOf(h)' = LibOf(h)
    BY <1>2 DEF LibOf, table
  <2>5. ASSUME NEW lib \in Libraries
        PROVE  /\ gstNumInstance'[lib] = Cardinality(InstancesOf(lib)')
               /\ gstNumInstance'[lib] <= gstMaxInstance(lib)
    <3>1. CASE lib = LibOf(h)
      BY <2>1, <2>2, <2>4, <3>1
    <3>2. CASE lib # LibOf(h)
      BY <2>3, <3>2 DEF InstancesCounted
    <3> QED
      BY <3>1, <3>2
  <2> QED
    BY <2>5 DEF InstancesCounted
<1>13. TypeOK'
  <2>1. gstNumInstance' \in [Libraries -> Nat]
    BY <1>1, <1>4, <1>8, <1>9, <1>10, <1>11
  <2>2. /\ handle' \in [Handles -> {"unused", "init", "live", "deinit", "freed", "failed"}]
        /\ pc' \in [Threads -> {"out", "enum", "get", "free"}]
        /\ heap' \subseteq Handles \X {"header", "private", "callbacks"}
    BY <1>1, <1>2 DEF TypeOK
  <2> QED
    BY <1>2, <2>1, <2>2 DEF TypeOK, table
<1>14. Entered' /\ Built' /\ Clean'
  BY <1>1, <1>2, <1>5, <1>6 DEF Entered, Built, Clean, Made, table
<1>15. Owner' /\ OneAtATime'
  BY <1>3, <1>5 DEF Owner, OneAtATime
<1> QED
  BY <1>12, <1>13, <1>14, <1>15

\* A step of a command thread, and a step that changes nothing.
LEMMA OtherKeeps ==
  ASSUME IInv, (\E h \in Handles : CommandThread(h)) \/ UNCHANGED vars
  PROVE  IInv'
<1> USE DEF IInv
<1>1. /\ UNCHANGED <<gstOMXCoreRefCnt, table, strings, gstOMXCoreMutex, gstNumInstance, heap,
                     entry, handle, pc, inits, fault>>
      /\ cmdThread' \in [Handles -> {"none", "created", "running", "told", "exited"}]
  BY DEF CommandThread, vars, objects, TypeOK
<1>2. \A lib : InstancesOf(lib)' = InstancesOf(lib)
  BY <1>1 DEF InstancesOf, LibOf, table
<1>3. TypeOK'
  BY <1>1 DEF TypeOK, table
<1> QED
  BY <1>1, <1>2, <1>3
     DEF Entered, Built, Owner, OneAtATime, InstancesCounted, Clean, LibOf, table

\* Every step keeps the invariant.
LEMMA StepIInv == IInv /\ [Next]_vars => IInv'
<1> SUFFICES ASSUME IInv, [Next]_vars PROVE IInv'
  OBVIOUS
<1>1. ASSUME NEW t \in Threads, OMX_Init(t) \/ OMX_Deinit(t) PROVE IInv'
  BY <1>1, TableKeeps
<1>2. ASSUME NEW t \in Threads, NEW i \in {0, Len(gstOMXComponentList) - 1},
             ComponentNameEnumTest(t, i)
      PROVE  IInv'
  BY <1>2, ReadKeeps
<1>3. ASSUME NEW t \in Threads, ComponentNameEnumCopy(t) \/ GetComponentsOfRole(t) PROVE IInv'
  BY <1>3, ReadKeeps
<1>4. ASSUME NEW t \in Threads, NEW name \in Requests, GetHandleNotFound(t, name) PROVE IInv'
  BY <1>4, ReadKeeps
<1>5. ASSUME NEW t \in Threads, NEW name \in Requests, NEW opens \in BOOLEAN,
             NEW mem \in {None, "header", "private", "callbacks"},
             GetHandleStart(t, name, opens, mem)
      PROVE  IInv'
  BY <1>5, GetStartKeeps
<1>6. ASSUME NEW t \in Threads, GetHandleEnd(t) PROVE IInv'
  BY <1>6, GetEndKeeps
<1>7. ASSUME NEW t \in Threads, FreeHandleEnd(t) PROVE IInv'
  BY <1>7, FreeEndKeeps
<1>8. ASSUME NEW t \in Threads, NEW h \in Handles, FreeHandleStart(t, h) PROVE IInv'
  BY <1>8, FreeStartKeeps
<1>9. CASE (\E h \in Handles : CommandThread(h)) \/ UNCHANGED vars
  BY <1>9, OtherKeeps
<1> QED
  BY <1>1, <1>2, <1>3, <1>4, <1>5, <1>6, <1>7, <1>8, <1>9 DEF Next

\* IInv holds in every reachable state.
THEOREM Invariance == Spec => []IInv
BY InitIInv, StepIInv, PTL DEF Spec

\* The variables keep their types, the table among them.
THEOREM CoreTypeCorrect == Spec => []TypeOK
<1>1. IInv => TypeOK
  BY DEF IInv
<1> QED
  BY <1>1, Invariance, PTL

\* Whatever fails in OMX_GetHandle, a library counts exactly its live handles
\* (gstNumInstance) and never more than it allows.
THEOREM InstancesAreCounted == Spec => []InstancesCounted
<1>1. IInv => InstancesCounted
  BY DEF IInv
<1> QED
  BY <1>1, Invariance, PTL

\* A failed OMX_GetHandle leaves nothing allocated.
THEOREM FailuresLeaveNothing == Spec => []FailedGetLeavesNothing
<1>1. IInv => FailedGetLeavesNothing
  BY DEF IInv, Clean, FailedGetLeavesNothing
<1> QED
  BY <1>1, Invariance, PTL

-----------------------------------------------------------------------------
(* The names of the table                                                  *)

\* The reference count is the number of OMX_Init calls to be undone, the names
\* are freed when there is none, and a thread inside OMX_ComponentNameEnum has one.
Users ==
  /\ gstOMXCoreRefCnt = Cardinality(inits)
  /\ strings = "freed" => inits = {}
  /\ \A t \in Threads : pc[t] = "enum" => Using(t)
  /\ NoFault

\* There are finitely many calls to be undone.
LEMMA FinitelyManyInits == ASSUME TypeOK PROVE IsFiniteSet(inits)
<1>1. IsFiniteSet(1..MaxInit)
  BY FS_Interval, CoreAssumption
<1>2. IsFiniteSet(Threads \X (1..MaxInit))
  BY <1>1, FS_Product, CoreAssumption
<1> QED
  BY <1>2, FS_Subset DEF TypeOK

LEMMA InitUsers == Init => Users
BY FS_EmptySet DEF Init, Users, NoFault

\* One more user: the names are not freed.
LEMMA OMXInitKeepsUsers ==
  ASSUME ~ Reinit, TypeOK, Users, NEW t \in Threads, OMX_Init(t)
  PROVE  Users'
<1>1. PICK k \in 1..MaxInit : <<t, k>> \notin inits /\ inits' = inits \cup {<<t, k>>}
  BY DEF OMX_Init
<1>2. Cardinality(inits') = Cardinality(inits) + 1
  BY <1>1, FinitelyManyInits, FS_AddElement
<1>3. strings # "freed" /\ strings' # "freed"
  BY DEF OMX_Init, BuildComponentTable
<1>4. gstOMXCoreRefCnt' = gstOMXCoreRefCnt + 1 /\ pc' = pc /\ fault' = fault
  BY DEF OMX_Init
<1>5. \A u \in Threads : Using(u) => Using(u)'
  BY <1>1 DEF Using
<1> QED
  BY <1>2, <1>3, <1>4, <1>5 DEF Users, NoFault

\* One user less: the names are freed when it was the last one, once.
LEMMA DeinitKeepsUsers ==
  ASSUME TypeOK, Users, NEW t \in Threads, OMX_Deinit(t)
  PROVE  Users'
<1>1. PICK k \in 1..MaxInit : <<t, k>> \in inits /\ inits' = inits \ {<<t, k>>}
  BY DEF OMX_Deinit
<1>2. /\ Cardinality(inits') = Cardinality(inits) - 1
      /\ Cardinality(inits') \in Nat /\ Cardinality(inits) \in Nat /\ IsFiniteSet(inits')
  BY <1>1, FinitelyManyInits, FS_RemoveElement, FS_CardinalityType
<1>3. gstOMXCoreRefCnt' = Cardinality(inits')
  BY <1>2 DEF Users, OMX_Deinit
<1>4. strings # "freed"
  BY <1>1 DEF Users
<1>5. fault' = fault
  BY <1>4 DEF OMX_Deinit, DestroyComponentTable
<1>6. strings' = "freed" => inits' = {}
  BY <1>2, <1>3, <1>4, FS_EmptySet DEF OMX_Deinit, DestroyComponentTable
<1>7. \A u \in Threads : pc'[u] = "enum" => Using(u)'
  <2>1. pc' = pc /\ pc[t] # "enum"
    BY DEF OMX_Deinit, Call
  <2>2. ASSUME NEW u \in Threads, u # t, Using(u) PROVE Using(u)'
    BY <1>1, <2>2 DEF Using
  <2> QED
    BY <2>1, <2>2 DEF Users
<1> QED
  BY <1>3, <1>5, <1>6, <1>7 DEF Users, NoFault

\* A reader has called OMX_Init, so the names are there.
LEMMA ReadKeepsUsers ==
  ASSUME TypeOK, Users, NEW t \in Threads,
         UNCHANGED <<gstOMXCoreRefCnt, strings, inits>>,
         \/ fault' = fault
         \/ Using(t) /\ ReadString,
         \A u \in Threads : pc'[u] = "enum" => pc[u] = "enum" \/ Using(u)
  PROVE  Users'
<1>1. fault' = fault
  <2>1. Using(t) => inits # {}
    BY DEF Using
  <2> QED
    BY <2>1 DEF ReadString, Users
<1>2. \A u \in Threads : Using(u)' = Using(u)
  BY DEF Using
<1> QED
  BY <1>1, <1>2 DEF Users, NoFault

\* The names stay readable in every step of a client that keeps to the rule.
LEMMA StepUsers == ~ Reinit /\ TypeOK /\ Users /\ [Next]_vars => Users'
<1> SUFFICES ASSUME ~ Reinit, TypeOK, Users, [Next]_vars PROVE Users'
  OBVIOUS
<1> USE DEF TypeOK
<1>1. ASSUME NEW t \in Threads, OMX_Init(t) PROVE Users'
  BY <1>1, OMXInitKeepsUsers
<1>2. ASSUME NEW t \in Threads, OMX_Deinit(t) PROVE Users'
  BY <1>2, DeinitKeepsUsers
<1>3. ASSUME NEW t \in Threads, NEW i \in {0, Len(gstOMXComponentList) - 1},
             ComponentNameEnumTest(t, i)
      PROVE  Users'
  <2>1. UNCHANGED <<gstOMXCoreRefCnt, strings, inits, fault>>
    BY <1>3 DEF ComponentNameEnumTest
  <2>2. \A u \in Threads : pc'[u] = "enum" => pc[u] = "enum" \/ Using(u)
    BY <1>3 DEF ComponentNameEnumTest
  <2> QED
    BY <2>1, <2>2, ReadKeepsUsers
<1>4. ASSUME NEW t \in Threads, ComponentNameEnumCopy(t) PROVE Users'
  <2>1. UNCHANGED <<gstOMXCoreRefCnt, strings, inits>> /\ ReadString /\ Using(t)
    BY <1>4 DEF ComponentNameEnumCopy, Users
  <2>2. \A u \in Threads : pc'[u] = "enum" => pc[u] = "enum"
    BY <1>4 DEF ComponentNameEnumCopy
  <2> QED
    BY <2>1, <2>2, ReadKeepsUsers
<1>5. ASSUME NEW t \in Threads, GetComponentsOfRole(t) PROVE Users'
  BY <1>5, ReadKeepsUsers DEF GetComponentsOfRole
<1>6. ASSUME NEW t \in Threads, NEW name \in Requests, GetHandleNotFound(t, name) PROVE Users'
  BY <1>6, ReadKeepsUsers DEF GetHandleNotFound
<1>7. ASSUME NEW t \in Threads, NEW name \in Requests, NEW opens \in BOOLEAN,
             NEW mem \in {None, "header", "private", "callbacks"},
             GetHandleStart(t, name, opens, mem)
      PROVE  Users'
  <2>1. PICK h \in Handles : GetHandleStart(t, name, opens, mem)!(h)
    BY <1>7 DEF GetHandleStart
  <2>2. Using(t) /\ ReadString /\ UNCHANGED <<gstOMXCoreRefCnt, strings, inits>>
    BY <2>1
  <2>3. pc' = pc \/ pc' = [pc EXCEPT ![t] = "get"]
    BY <2>1
  <2>4. \A u \in Threads : pc'[u] = "enum" => pc[u] = "enum"
    BY <2>3
  <2> QED
    BY <2>2, <2>4, ReadKeepsUsers
<1>8. ASSUME NEW t \in Threads,
             GetHandleEnd(t) \/ FreeHandleEnd(t) \/ \E h \in Handles : FreeHandleStart(t, h)
      PROVE  Users'
  <2>1. UNCHANGED <<gstOMXCoreRefCnt, strings, inits, fault>>
    BY <1>8 DEF GetHandleEnd, FreeHandleEnd, FreeHandleStart
  <2>2. \E c \in {"out", "free"} : pc' = [pc EXCEPT ![t] = c]
    BY <1>8 DEF GetHandleEnd, FreeHandleEnd, FreeHandleStart
  <2>3. \A u \in Threads : pc'[u] = "enum" => pc[u] = "enum"
    BY <2>2
  <2> QED
    BY <2>1, <2>3, ReadKeepsUsers
<1>9. CASE (\E h \in Handles : CommandThread(h)) \/ UNCHANGED vars
  <2>1. UNCHANGED <<gstOMXCoreRefCnt, strings, inits, fault, pc>>
    BY <1>9 DEF CommandThread, vars
  <2> QED
    BY <2>1 DEF Users, Using, NoFault
<1> QED
  BY <1>1, <1>2, <1>3, <1>4, <1>5, <1>6, <1>7, <1>8, <1>9 DEF Next

\* No call of a client reads a name of the table after OMX_Deinit freed it, and
\* the names are freed once, when no client calls OMX_Init after the last
\* OMX_Deinit (gstNXOMXInit is never reset).
THEOREM NamesAreSafe == ASSUME ~ Reinit PROVE Spec => []NoFault
<1>1. TypeOK /\ Users /\ [Next]_vars => Users'
  BY StepUsers
<1>2. Users => NoFault
  BY DEF Users
<1> QED
  BY <1>1, <1>2, InitUsers, CoreTypeCorrect, PTL DEF Spec

=============================================================================
