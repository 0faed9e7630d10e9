------------------------------- MODULE NX_Core -------------------------------
(***************************************************************************)
(* The OpenMAX core (core/NX_OMXCore.c): the table of components built by  *)
(* the first OMX_Init, its strings freed by the last OMX_Deinit, the       *)
(* handles OMX_GetHandle makes by loading a component library and calling  *)
(* its OMX_ComponentInit, and OMX_FreeHandle.  Every call holds            *)
(* gstOMXCoreMutex from its first to its last line, except the test at the *)
(* head of OMX_ComponentNameEnum.  A call that waits for no other thread   *)
(* is one action; OMX_GetHandle and OMX_FreeHandle, which wait for the     *)
(* command thread of the component, are a first and a last half between    *)
(* which the mutex stays taken.                                            *)
(*                                                                         *)
(* The instance counters are the statics of the two component libraries.   *)
(* A call of dlopen and a call of malloc may fail; dlsym and               *)
(* pthread_create succeed.                                                 *)
(***************************************************************************)
EXTENDS Naturals, Sequences, FiniteSets, SequencesExt

CONSTANTS Threads,    \* threads of the client
          Requests,   \* names the client asks handles for, sequences of parts
          MaxHandle,  \* bound: calls of OMX_GetHandle that reach the allocation
          MaxInit,    \* bound: unbalanced OMX_Init calls of one thread
          Reinit      \* may a client call OMX_Init after the last OMX_Deinit?

None == "none"

ASSUME CoreAssumption ==
  /\ MaxHandle \in Nat /\ MaxInit \in Nat /\ Reinit \in BOOLEAN
  /\ IsFiniteSet(Threads) /\ None \notin Threads

Handles == 1..MaxHandle

\* The two libraries, and the instances each allows at a time.
Libraries == {"libNX_OMX_VIDEO_DECODER", "libNX_OMX_VIDEO_ENCODER"}
gstMaxInstance(lib) == IF lib = "libNX_OMX_VIDEO_DECODER" THEN 3 ELSE 2

-----------------------------------------------------------------------------
(* The table                                                               *)

\* What NX_OMXRegisterComponent stores.  Names and roles drop the common
\* prefixes OMX.NX.VIDEO_ and video_; a name is the sequence of its parts, and
\* what follows a registered name in a longer one is a part of its own.
Decoder(name, role) ==
  [name |-> <<"DECODER", name>>, so |-> "libNX_OMX_VIDEO_DECODER",
   role |-> <<"decoder", role>>]
Encoder(name, role) ==
  [name |-> <<"ENCODER", name>>, so |-> "libNX_OMX_VIDEO_ENCODER",
   role |-> <<"encoder", role>>]

RegisterAllComponents ==
  << Decoder("avc", "avc"),   Decoder("mpeg4", "mpeg4"), Decoder("mpeg2", "mpeg2"),
     Decoder("h263", "h263"), Decoder("3gpp", "h263"),   Decoder("3gpp", "3gpp"),
     Decoder("mp43", "mp43"), Decoder("flv", "x-flv"),   Decoder("wmv", "x-ms-wmv"),
     Decoder("wvc1", "x-ms-wmv"), Decoder("vc1", "x-ms-wmv"),
     Decoder("rv", "x-pn-realvideo"), Decoder("vp8", "vp8"),
     Encoder("avc", "avc"),   Encoder("mpeg4", "mpeg4"),
     Encoder("h263", "h263"), Encoder("3gpp", "h263") >>

\* One registration: a role more for a name that is there, or a new entry.
AddRegistration(table, r) ==
  LET same == {j \in DOMAIN table : table[j].strName = r.name}
  IN IF same # {}
     THEN [table EXCEPT ![CHOOSE j \in same : \A k \in same : j <= k].pRoles =
             Append(@, r.role)]
     ELSE Append(table, [strName |-> r.name, strSoName |-> r.so,
                         pRoles |-> <<r.role>>, hModule |-> FALSE,
                         ComponentInit |-> FALSE])

BuildTable == FoldLeft(AddRegistration, <<>>, RegisterAllComponents)

\* What an entry is; BuildTable has no parameter, so TLC evaluates all there is
\* to the assumption.
Entries == [strName : Seq(STRING), strSoName : Libraries, pRoles : Seq(Seq(STRING)),
            hModule : BOOLEAN, ComponentInit : BOOLEAN]

ASSUME TableAssumption == BuildTable \in Seq(Entries)

-----------------------------------------------------------------------------
VARIABLES
  gstOMXCoreRefCnt,     \* OMX_Init calls not undone
  gstNXOMXInit,         \* the table has been built
  gstOMXComponentList,  \* the table; its length is gstCurOMXComponents
  strings,              \* the strdup'ed names: none, live or freed
  gstOMXCoreMutex,      \* the thread that holds it, or None
  gstNumInstance,       \* library -> instances
  heap,                 \* <<handle, block>> allocated and not freed
  entry,                \* handle -> the index of its table entry
  cmdThread,            \* handle -> its command thread
  handle,               \* handle -> what the client and the core do with it
  pc,                   \* thread -> the call it is in
  inits,                \* <<thread, k>>: an OMX_Init call of it not undone
  fault                 \* a read of a freed string, or a second free

table == <<gstNXOMXInit, gstOMXComponentList>>
objects == <<gstNumInstance, heap, entry, cmdThread, handle>>
vars == <<gstOMXCoreRefCnt, table, strings, gstOMXCoreMutex, objects, pc, inits, fault>>

TypeOK ==
  /\ gstOMXCoreRefCnt \in Nat /\ gstNXOMXInit \in BOOLEAN
  /\ gstOMXComponentList \in Seq(Entries)
  /\ strings \in {"none", "live", "freed"}
  /\ gstOMXCoreMutex \in Threads \cup {None}
  /\ gstNumInstance \in [Libraries -> Nat]
  /\ heap \subseteq Handles \X {"header", "private", "callbacks"}
  /\ entry \in [Handles -> {0} \cup DOMAIN gstOMXComponentList]
  /\ cmdThread \in [Handles -> {"none", "created", "running", "told", "exited"}]
  /\ handle \in [Handles -> {"unused", "init", "live", "deinit", "freed", "failed"}]
  /\ pc \in [Threads -> {"out", "enum", "get", "free"}]
  /\ inits \subseteq Threads \X (1..MaxInit)
  /\ fault \in {None, "freed string read", "strings freed twice"}

Init ==
  /\ gstOMXCoreRefCnt = 0 /\ gstNXOMXInit = FALSE /\ gstOMXComponentList = <<>>
  /\ strings = "none" /\ gstOMXCoreMutex = None
  /\ gstNumInstance = [s \in Libraries |-> 0]
  /\ heap = {} /\ entry = [h \in Handles |-> 0]
  /\ cmdThread = [h \in Handles |-> "none"] /\ handle = [h \in Handles |-> "unused"]
  /\ pc = [t \in Threads |-> "out"] /\ inits = {}
  /\ fault = None

-----------------------------------------------------------------------------
(* OMX_Init and OMX_Deinit                                                 *)

\* t may use the core: it has called OMX_Init and not yet OMX_Deinit.
Using(t) == \E k \in 1..MaxInit : <<t, k>> \in inits

\* A whole call of t under the mutex.
Call(t) == pc[t] = "out" /\ gstOMXCoreMutex = None

\* NX_OMXBuildComponentTable: nothing once gstNXOMXInit is set.
BuildComponentTable ==
  IF gstNXOMXInit
  THEN UNCHANGED <<table, strings>>
  ELSE /\ gstOMXComponentList' = BuildTable
       /\ gstNXOMXInit' = TRUE /\ strings' = "live"

\* NX_OMXDestroyComponentTable frees the strings and keeps the pointers.
DestroyComponentTable ==
  /\ strings' = IF strings = "live" THEN "freed" ELSE strings
  /\ fault' = IF strings = "freed" THEN "strings freed twice" ELSE fault

OMX_Init(t) ==
  /\ Call(t)
  /\ Reinit \/ strings # "freed"
  /\ IF gstOMXCoreRefCnt = 0 THEN BuildComponentTable ELSE UNCHANGED <<table, strings>>
  /\ gstOMXCoreRefCnt' = gstOMXCoreRefCnt + 1
  /\ \E k \in 1..MaxInit : <<t, k>> \notin inits /\ inits' = inits \cup {<<t, k>>}
  /\ UNCHANGED <<gstOMXCoreMutex, objects, pc, fault>>

\* Not the code: every OMX_Deinit destroys the table.
OMX_Deinit_Always(t) ==
  /\ Call(t)
  /\ gstOMXCoreRefCnt' = IF gstOMXCoreRefCnt > 0 THEN gstOMXCoreRefCnt - 1 ELSE 0
  /\ DestroyComponentTable
  /\ \E k \in 1..MaxInit : <<t, k>> \in inits /\ inits' = inits \ {<<t, k>>}
  /\ UNCHANGED <<table, gstOMXCoreMutex, objects, pc>>

\* The client undoes its own calls of OMX_Init, the last one only when it has
\* no handle left.
OMX_Deinit(t) ==
  /\ Call(t)
  /\ gstOMXCoreRefCnt > 1 \/ \A h \in Handles : handle[h] \in {"unused", "freed", "failed"}
  /\ gstOMXCoreRefCnt' = IF gstOMXCoreRefCnt > 0 THEN gstOMXCoreRefCnt - 1 ELSE 0
  /\ IF gstOMXCoreRefCnt' = 0 THEN DestroyComponentTable ELSE UNCHANGED <<strings, fault>>
  /\ \E k \in 1..MaxInit : <<t, k>> \in inits /\ inits' = inits \ {<<t, k>>}
  /\ UNCHANGED <<table, gstOMXCoreMutex, objects, pc>>

-----------------------------------------------------------------------------
(* Looking at the table                                                    *)

\* A call that compares or copies a string of the table.
ReadString ==
  fault' = IF gstOMXComponentList # <<>> /\ strings = "freed"
           THEN "freed string read" ELSE fault

\* OMX_ComponentNameEnum tests the table before it takes the mutex; with a
\* table that was built, an index past its end is OMX_ErrorNoMore.
ComponentNameEnumTest(t, i) ==
  /\ pc[t] = "out" /\ Using(t)
  /\ gstNXOMXInit /\ i < Len(gstOMXComponentList)
  /\ pc' = [pc EXCEPT ![t] = "enum"]
  /\ UNCHANGED <<gstOMXCoreRefCnt, table, strings, gstOMXCoreMutex, objects, inits, fault>>

ComponentNameEnumCopy(t) ==
  /\ pc[t] = "enum" /\ gstOMXCoreMutex = None
  /\ ReadString
  /\ pc' = [pc EXCEPT ![t] = "out"]
  /\ UNCHANGED <<gstOMXCoreRefCnt, table, strings, gstOMXCoreMutex, objects, inits>>

\* What OMX_GetComponentsOfRole and OMX_GetRolesOfComponent answer from a table.
ComponentsOfRole(list, role) ==
  {list[i].strName : i \in {j \in DOMAIN list : role \in Range(list[j].pRoles)}}
RolesOfComponent(list, name) ==
  LET found == {i \in DOMAIN list : list[i].strName = name}
  IN IF found = {} THEN <<>>
     ELSE list[CHOOSE i \in found : \A j \in found : i <= j].pRoles

\* Both compare names and roles under the mutex.
GetComponentsOfRole(t) ==
  /\ Call(t) /\ Using(t) /\ ReadString
  /\ UNCHANGED <<gstOMXCoreRefCnt, table, strings, gstOMXCoreMutex, objects, pc, inits>>

-----------------------------------------------------------------------------
(* OMX_GetHandle                                                           *)

\* The first entry whose name begins the name asked for: strncmp compares as
\* much as the entry's name is long.
EntryOf(name) ==
  LET Begins(i) == IsPrefix(gstOMXComponentList[i].strName, name)
  IN {i \in DOMAIN gstOMXComponentList : Begins(i) /\ \A j \in 1 .. i - 1 : ~Begins(j)}

\* The entry after the loader ran: dlopen only without a module, the init
\* function kept in the entry when it was found.
Loaded(e, opens) ==
  IF e.ComponentInit THEN e
  ELSE IF ~e.hModule /\ opens THEN [e EXCEPT !.hModule = TRUE, !.ComponentInit = TRUE]
  ELSE e

LibOf(h) == gstOMXComponentList[entry[h]].strSoName

\* What was allocated before OMX_ComponentInit failed: too many instances come
\* before its first malloc.
AllocatedBefore(full, mem) ==
  IF full \/ mem = "private" THEN {"header"} ELSE {"header", "private"}

\* Not the code: OMX_ComponentInit returns without freeing the structure.
FreedByFailure_Header(full, mem) == {"header"}

\* What the failure frees: OMX_ComponentInit the private structure when the
\* malloc of NX_BaseComponentInit failed, OMX_GetHandle the header.
FreedByFailure(full, mem) ==
  {"header"} \cup (IF ~full /\ mem = "callbacks" THEN {"private"} ELSE {})

\* The first half: find, load, allocate, and OMX_ComponentInit as far as the
\* creation of the command thread.  mem is the malloc that fails, if any:
\* "header", "private" or "callbacks", in their order.
GetHandleStart(t, name, opens, mem) ==
  \E h \in Handles :
    /\ Call(t) /\ Using(t)
    /\ handle[h] = "unused" /\ \A g \in 1..(h - 1) : handle[g] # "unused"
    /\ ReadString
    /\ \E i \in EntryOf(name) :
         LET e == Loaded(gstOMXComponentList[i], opens)
             full == gstNumInstance[e.strSoName] >= gstMaxInstance(e.strSoName)
             fails(left) ==
               /\ handle' = [handle EXCEPT ![h] = "failed"]
               /\ heap' = heap \cup ({h} \X left)
               /\ UNCHANGED <<gstOMXCoreMutex, pc, entry, cmdThread>>
         IN /\ gstOMXComponentList' = [gstOMXComponentList EXCEPT ![i] = e]
            /\ IF ~e.ComponentInit \/ mem = "header" THEN fails({})
               ELSE IF full \/ mem # None THEN
                 fails(AllocatedBefore(full, mem) \ FreedByFailure(full, mem))
               ELSE /\ heap' = heap \cup ({h} \X {"header", "private", "callbacks"})
                    /\ entry' = [entry EXCEPT ![h] = i]
                    /\ cmdThread' = [cmdThread EXCEPT ![h] = "created"]
                    /\ handle' = [handle EXCEPT ![h] = "init"]
                    /\ gstOMXCoreMutex' = t
                    /\ pc' = [pc EXCEPT ![t] = "get"]
    /\ UNCHANGED <<gstOMXCoreRefCnt, gstNXOMXInit, strings, gstNumInstance, inits>>

\* A name that is not in the table.
GetHandleNotFound(t, name) ==
  /\ Call(t) /\ Using(t) /\ EntryOf(name) = {} /\ ReadString
  /\ UNCHANGED <<gstOMXCoreRefCnt, table, strings, gstOMXCoreMutex, objects, pc, inits>>

\* The last half, once the command thread has posted hSemCmdWait: the rest of
\* OMX_ComponentInit counts the instance, and SetCallbacks replaces the
\* pointer to the "callbacks" block, which nothing frees from here on.
GetHandleEnd(t) ==
  /\ pc[t] = "get"
  /\ \E h \in Handles :
       /\ handle[h] = "init" /\ cmdThread[h] = "running"
       /\ handle' = [handle EXCEPT ![h] = "live"]
       /\ gstNumInstance' = [gstNumInstance EXCEPT ![LibOf(h)] = @ + 1]
  /\ pc' = [pc EXCEPT ![t] = "out"] /\ gstOMXCoreMutex' = None
  /\ UNCHANGED <<gstOMXCoreRefCnt, table, strings, heap, entry, cmdThread, inits, fault>>

-----------------------------------------------------------------------------
(* OMX_FreeHandle                                                          *)

\* Not the code: hSemCmd is not posted, the thread is not told.
FreeHandleStart_NotTold(t, h) ==
  /\ Call(t) /\ Using(t) /\ handle[h] = "live"
  /\ handle' = [handle EXCEPT ![h] = "deinit"]
  /\ gstOMXCoreMutex' = t /\ pc' = [pc EXCEPT ![t] = "free"]
  /\ UNCHANGED <<gstOMXCoreRefCnt, table, strings, gstNumInstance, heap, entry, cmdThread,
                 inits, fault>>

\* ComponentDeInit tells the command thread to exit and waits for it; any
\* thread may free a handle.
FreeHandleStart(t, h) ==
  /\ Call(t) /\ Using(t) /\ handle[h] = "live"
  /\ cmdThread' = [cmdThread EXCEPT ![h] = "told"]
  /\ handle' = [handle EXCEPT ![h] = "deinit"]
  /\ gstOMXCoreMutex' = t /\ pc' = [pc EXCEPT ![t] = "free"]
  /\ UNCHANGED <<gstOMXCoreRefCnt, table, strings, gstNumInstance, heap, entry, inits, fault>>

\* Not the code: the instance is not counted down.
FreeHandleEnd_NotCounted(t) ==
  /\ pc[t] = "free"
  /\ \E h \in Handles :
       /\ handle[h] = "deinit" /\ cmdThread[h] = "exited"
       /\ handle' = [handle EXCEPT ![h] = "freed"]
       /\ heap' = heap \ ({h} \X {"header", "private"})
  /\ pc' = [pc EXCEPT ![t] = "out"] /\ gstOMXCoreMutex' = None
  /\ UNCHANGED <<gstOMXCoreRefCnt, table, strings, gstNumInstance, entry, cmdThread, inits,
                 fault>>

FreeHandleEnd(t) ==
  /\ pc[t] = "free"
  /\ \E h \in Handles :
       /\ handle[h] = "deinit" /\ cmdThread[h] = "exited"
       /\ handle' = [handle EXCEPT ![h] = "freed"]
       /\ heap' = heap \ ({h} \X {"header", "private"})
       /\ gstNumInstance' = [gstNumInstance EXCEPT ![LibOf(h)] = @ - 1]
  /\ pc' = [pc EXCEPT ![t] = "out"] /\ gstOMXCoreMutex' = None
  /\ UNCHANGED <<gstOMXCoreRefCnt, table, strings, entry, cmdThread, inits, fault>>

\* The command thread, as far as the core waits for it: NX_BaseComponent has
\* the rest.
CommandThread(h) ==
  /\ \/ cmdThread[h] = "created" /\ cmdThread' = [cmdThread EXCEPT ![h] = "running"]
     \/ cmdThread[h] = "told" /\ cmdThread' = [cmdThread EXCEPT ![h] = "exited"]
  /\ UNCHANGED <<gstOMXCoreRefCnt, table, strings, gstOMXCoreMutex, gstNumInstance, heap,
                 entry, handle, pc, inits, fault>>

-----------------------------------------------------------------------------
Next ==
  \/ \E t \in Threads :
       \/ OMX_Init(t) \/ OMX_Deinit(t)
       \/ \E i \in {0, Len(gstOMXComponentList) - 1} : ComponentNameEnumTest(t, i)
       \/ ComponentNameEnumCopy(t) \/ GetComponentsOfRole(t)
       \/ \E name \in Requests :
            \/ GetHandleNotFound(t, name)
            \/ \E opens \in BOOLEAN, mem \in {None, "header", "private", "callbacks"} :
                 GetHandleStart(t, name, opens, mem)
       \/ GetHandleEnd(t) \/ FreeHandleEnd(t)
       \/ \E h \in Handles : FreeHandleStart(t, h)
  \/ \E h \in Handles : CommandThread(h)

Spec == Init /\ [][Next]_vars

\* The scheduler runs the threads: a command thread goes on, and so does a
\* caller that nothing holds back.
Fairness ==
  /\ \A h \in Handles : WF_vars(CommandThread(h))
  /\ \A t \in Threads : WF_vars(GetHandleEnd(t)) /\ WF_vars(FreeHandleEnd(t))

FairSpec == Spec /\ Fairness

-----------------------------------------------------------------------------
(* Properties                                                              *)

\* No call reads a name of the table after it was freed, and the names are
\* freed once (NX_OMXDestroyComponentTable, against every reader).
NoFault == fault = None

\* The instances a library has counted are the handles that are live in it,
\* whatever failed on the way, and never more than it allows.
InstancesOf(lib) == {h \in Handles : handle[h] \in {"live", "deinit"} /\ LibOf(h) = lib}
InstancesCounted ==
  \A lib \in Libraries :
    /\ gstNumInstance[lib] = Cardinality(InstancesOf(lib))
    /\ gstNumInstance[lib] <= gstMaxInstance(lib)

\* A call of OMX_GetHandle that fails leaves nothing allocated, at whichever
\* of its mallocs it fails.
FailedGetLeavesNothing ==
  \A h \in Handles : handle[h] = "failed" => \A b \in heap : b[1] # h

\* OMX_GetHandle and OMX_FreeHandle return: the command thread they wait for
\* under the mutex always gets there.
CallsReturn == \A t \in Threads : pc[t] \in {"get", "free"} ~> pc[t] = "out"

=============================================================================
