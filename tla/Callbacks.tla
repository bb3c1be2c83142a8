------------------------------ MODULE Callbacks ------------------------------
(***************************************************************************)
(* One call of one of the driver's nine callbacks (MoonMon/MoonMon.c): it   *)
(* collects what is known about an event, takes and gives back resources   *)
(* on the way, has the event inspected and writes it to the log queue.     *)
(*                                                                         *)
(* The callbacks share a shape, and Stages gives the order in which each   *)
(* one goes through the common steps.  What differs is which resources a   *)
(* step takes, what they are the memory of, and what the finally block     *)
(* gives back.  ProcessCache models the cache that the callbacks share,    *)
(* LogQueue the queue, Inspect the verdict; here a lookup, a verdict or an *)
(* allocation has any of its results.                                      *)
(*                                                                         *)
(* An entry of the event is named by its type; PI and TPI stand for the    *)
(* entries PCacheLogEntries writes about one process, MM_FILE_PARTS for    *)
(* the other parts of a file name, REG_VALUE_NAME also for the value.      *)
(***************************************************************************)
EXTENDS Integers, Sequences

CONSTANTS
    Rights,     \* bits of an access mask
    Modes       \* MM_EXCEPTION_MODE: "search" in the debug build, "handle"

Resources ==
    {"pin", "tpin",      \* InUse of a cached entry
     "PI", "TPI",        \* the strings that processInfoInit allocates
     "SID", "SUBJECT",   \* sid_data and the subject context of SidLookup
     "ref",              \* references from PsLookupProcessByProcessId
     "NAME",             \* FLT_FILE_NAME_INFORMATION
     "OBINFO", "IMAGE",  \* name of an image: queried, copied
     "KEY",              \* name from CmCallbackGetKeyObjectIDEx
     "OBJECT", "FILE",   \* regObInfo and fileInfo
     "slot"}             \* an entry of the cache that is not pinned

VARIABLES
    call,       \* what the callback is called for
    mode,       \* how the driver was built
    pc,         \* the next step
    held,       \* how often each resource was taken and not given back
    backing,    \* the fields that were found, each with what it points into
    found,      \* foundProc and foundTargetProc
    access,     \* the access the handle will have
    desired,    \* OB->DesiredAccess
    skip,       \* skip_logging
    status,     \* what the operation's status will be
    log,        \* the types of the entries added to the queue
    next,       \* the number of the next entry to add
    reported,   \* status and access written there
    stale,      \* history: fields read while their memory was not held
    failed      \* history: what went wrong

flow == <<call, mode>>
event == <<backing, found>>
verdict == <<access, desired, skip, status>>
output == <<log, next, reported>>
vars == <<flow, pc, held, event, verdict, output, stale, failed>>

-----------------------------------------------------------------------------
(* What the callbacks are called for.                                      *)

\* RegistryCallbackRoutine looks at these and lets the others pass.
ObjectNamed == {"PreDeleteKey", "PreSetValueKey", "PreDeleteValueKey",
                "PreRenameKey", "PreReplaceKey", "PreRestoreKey", "PreFlushKey"}
KeyNamed == {"PostSetValueKey", "PostCreateKey", "PostDeleteKey",
             "PostFlushKey", "PostQueryKeySecurity", "PostSetKeySecurity"}
CallerNamed == {"PreCreateKeyEx", "PreCreateKey"}
Unnamed == {"PostDeleteValueKey", "PostRenameKey", "PostReplaceKey",
            "PostRestoreKey"}
Notified == ObjectNamed \cup KeyNamed \cup CallerNamed \cup Unnamed

\* The information classes that FsPreSetInformationCallback logs; for some of
\* them it depends on the values.
Renaming == {"FileNameInformation", "FileRenameInformation",
             "FileLinkInformation", "FileRenameInformationBypassAccessCheck"}
Dependent == {"FileBasicInformation", "FileNetworkOpenInformation",
              "FileDispositionInformation"}
SetLogged == Renaming \cup Dependent \cup
    {"FileAccessInformation", "FilePipeLocalInformation",
     "FileRemoteProtocolInformation"}

\* The layers NetClassifyCallback tells apart.
Connections == {"connection_v4", "connection_v6"}
Assignments == {"assignment_v4", "assignment_v6"}

Classes(kind) ==
    CASE kind = "registry" -> Notified \cup {"PostOpenKey"}
      [] kind = "file_set" -> SetLogged \cup {"FileFullEaInformation"}
      [] kind = "network" -> Connections \cup Assignments \cup {"other"}
      [] OTHER -> {"any"}

Kinds == {"process_create", "process_exit", "thread", "image", "object",
          "registry", "file_create", "file_set", "network"}

\* keep is KEEP_EXCLUDES, resist RESIST_TAMPERING.  client tells whether the
\* handle is for the client's process, and whether it is a kernel handle.
Calls ==
    UNION {[kind : {k}, class : Classes(k), keep : BOOLEAN,
            resist : IF k = "object" THEN BOOLEAN ELSE {FALSE},
            client : IF k = "object" THEN {"no", "user", "kernel"} ELSE {"no"},
            access : IF k = "object" THEN SUBSET Rights ELSE {{}}] :
        k \in Kinds}

-----------------------------------------------------------------------------
(* The order of the steps.                                                 *)

Stages(kind) ==
    CASE kind = "process_create" -> <<"acting", "refer">>
      [] kind = "process_exit" -> <<"acting">>
      [] kind = "thread" -> <<"gate", "refer", "target", "acting">>
      [] kind = "image" -> <<"names", "refer", "acting">>
      [] kind = "object" -> <<"gate", "target", "acting">>
      [] kind = "registry" -> <<"gate", "acting", "names">>
      [] kind = "file_create" -> <<"names", "acting">>
      [] kind = "file_set" -> <<"gate", "names", "acting">>
      [] kind = "network" -> <<"names", "acting">>

Steps == Stages(call.kind) \o <<"inspect", "header", "details", "end",
                                "finally", "done">>
At(stage) == pc = stage
Advance ==
    pc' = Steps[1 + CHOOSE n \in 1..Len(Steps) : Steps[n] = pc]

Is(kinds) == call.kind \in kinds
Class(classes) == call.class \in classes

Init ==
    /\ call \in Calls
    /\ mode \in Modes
    /\ pc = Stages(call.kind)[1]
    /\ held = [r \in Resources |-> 0]
    /\ backing = <<>>
    /\ found = {}
    /\ access = call.access
    /\ desired = {}
    /\ skip = FALSE
    /\ status = "success"
    /\ log = <<>>
    /\ next = 1
    /\ reported = [status |-> "none", access |-> {}]
    /\ stale = {}
    /\ failed = {}

Take(rs) == held' = [r \in Resources |-> held[r] + (IF r \in rs THEN 1 ELSE 0)]
Give(rs) == [r \in Resources |-> held[r] - (IF r \in rs THEN 1 ELSE 0)]
\* The fields fs are found in r, beside those of b.
With(b, fs, r) == [f \in fs \cup DOMAIN b |-> IF f \in fs THEN r ELSE b[f]]
Found(fs, r) == backing' = With(backing, fs, r)

\* The fields that were found and whose memory may be gone.
Gone == {f \in DOMAIN backing :
            backing[f] # "caller" /\ held[backing[f]] <= 0}

-----------------------------------------------------------------------------
(* Before anything is collected.                                           *)

\* Threads that a process creates in itself, and the first one of a new
\* process; handles that are not to a process or to the caller itself;
\* classes that are not looked at.
Ignores ==
    \/ Is({"thread"})
    \/ Is({"object"})
    \/ Is({"registry"}) /\ ~Class(Notified)
    \/ Is({"file_set"}) /\ ~Class(SetLogged \ Dependent)

\* A kernel handle to the client gets no rights and its owner is terminated;
\* when the driver resists tampering that thread never runs again.
Defends == Is({"object"}) /\ call.client # "no"
Granted ==
    IF Defends /\ (call.client = "kernel" \/ call.resist) THEN {} ELSE access
Naps == Defends /\ call.client = "kernel" /\ call.resist

Ignore ==
    /\ At("gate")
    /\ Ignores
    /\ ~Naps
    /\ access' = Granted
    /\ pc' = "done"
    /\ UNCHANGED <<flow, held, event, desired, skip, status, output, stale,
                   failed>>

NapTime ==
    /\ At("gate")
    /\ Naps
    /\ access' = {}
    /\ pc' = "asleep"
    /\ UNCHANGED <<flow, held, event, desired, skip, status, output, stale,
                   failed>>

\* The fields a set information call brings along.
SetFields ==
    CASE Class(Renaming) -> {"MM_FILE_NEW_NAME"}
      [] Class({"FileDispositionInformation"}) -> {"MM_FILE_DELETION"}
      [] Class({"FileBasicInformation", "FileNetworkOpenInformation"})
            -> {"MM_FILE_CREATION_TIME", "MM_FILE_CHANGE_TIME"}
      [] Class({"FileAccessInformation"}) -> {"MM_FILE_ACCESS_FLAGS"}
      [] Class({"FilePipeLocalInformation"}) -> {"MM_NAMED_PIPE"}
      [] Class({"FileRemoteProtocolInformation"})
            -> {"MM_FILE_NETWORK_PROTOCOL"}

Pass ==
    /\ At("gate")
    /\ Is({"registry"}) => Class(Notified)
    /\ Is({"file_set"}) => Class(SetLogged)
    /\ ~Naps
    /\ IF Is({"file_set"}) THEN Found(SetFields, "caller")
       ELSE UNCHANGED backing
    /\ access' = Granted
    /\ desired' = Granted
    /\ Advance
    /\ UNCHANGED <<flow, held, found, skip, status, output, stale, failed>>

-----------------------------------------------------------------------------
(* The processes.                                                          *)

\* Variant of PinActing: the cached entry is used without being marked.
PinActingUnmarked ==
    /\ At("acting")
    /\ ~Is({"process_create"})
    /\ found' = found \cup {"PI"} /\ Found({"PI"}, "pin")
    /\ Advance
    /\ UNCHANGED <<flow, held, verdict, output, stale, failed>>

\* GetCachedProcess finds the acting process.  Its description may be gone.
PinActing ==
    /\ At("acting")
    /\ ~Is({"process_create"})
    /\ Take({"pin"})
    /\ \/ found' = found \cup {"PI"} /\ Found({"PI"}, "pin")
       \/ UNCHANGED event
    /\ Advance
    /\ UNCHANGED <<flow, verdict, output, stale, failed>>

PinTarget ==
    /\ At("target")
    /\ Take({"tpin"})
    /\ found' = found \cup {"TPI"}
    /\ Found({"TPI"}, "tpin")
    /\ Advance
    /\ UNCHANGED <<flow, verdict, output, stale, failed>>

\* Not cached: these callbacks read the process itself with processInfoInit,
\* the others go on without.
Probes == Is({"process_create", "thread", "image", "object"})

Unprobed ==
    /\ At("acting") \/ At("target")
    /\ At("acting") => ~Probes \/ Is({"process_create"})
    /\ Advance
    /\ UNCHANGED <<flow, held, event, verdict, output, stale, failed>>

\* processInfoInit: all strings, or none when the PEB cannot be read; a
\* created process has by then got its image and command line from the
\* notification.  An exception between the copies is handled inside.  The
\* target of an object access is looked up first.
processInfoInit ==
    /\ At("target") \/ (At("acting") /\ Probes)
    /\ LET d == IF At("target") THEN "TPI" ELSE "PI"
           ref == IF At("target") /\ Is({"object"}) THEN {"ref"} ELSE {}
       IN  \/ /\ found' = found \cup {d}
              /\ Found({d}, d)
              /\ Take({d} \cup ref)
              /\ UNCHANGED failed
           \/ /\ IF Is({"process_create"}) THEN Found({d}, d) /\ Take({d})
                 ELSE Take(ref) /\ UNCHANGED backing
              /\ UNCHANGED <<found, failed>>
           \/ /\ mode = "handle"
              /\ Found({d}, d)
              /\ Take({d} \cup ref)
              /\ failed' = failed \cup {"probe"}
              /\ UNCHANGED found
    /\ Advance
    /\ UNCHANGED <<flow, verdict, output, stale>>

\* PsLookupProcessByProcessId.  The thread callback needs the target, the
\* image callback does without, and asks only for other than system
\* processes.
Refer ==
    /\ At("refer")
    /\ ~Is({"process_create"})
    /\ Take({"ref"})
    /\ Advance
    /\ UNCHANGED <<flow, event, verdict, output, stale, failed>>

ReferFails ==
    /\ At("refer")
    /\ pc' = CASE Is({"thread"}) -> "finally" [] OTHER -> "inspect"
    /\ UNCHANGED <<flow, held, event, verdict, output, stale, failed>>

\* SidLookup gives up when its first or its second allocation fails, or goes
\* on without a SID.
SidLookup(took) == took \in {{}, {"SUBJECT"}, {"SID"}}

\* AddNewProcess copies the description and the SID into a slot, or leaves
\* them when the pid is cached or memory is short, the SID after the rest.
AddNewProcess ==
    /\ At("refer")
    /\ Is({"process_create"})
    /\ \E took \in SUBSET {"SUBJECT", "SID"}, copied \in {{}, {"PI"}, {"PI", "SID"}} :
        /\ SidLookup(took)
        /\ held' = [r \in Resources |->
                     IF r \in copied THEN 0
                     ELSE held[r] + (IF r \in {"ref"} \cup took THEN 1 ELSE 0)]
        /\ IF copied \cap DOMAIN backing # {} THEN Found({"PI"}, "slot")
           ELSE UNCHANGED backing
    /\ Advance
    /\ UNCHANGED <<flow, found, verdict, output, stale, failed>>

-----------------------------------------------------------------------------
(* The names.                                                              *)

\* ImageLoadCallbackRoutine.  The name is queried from the file object, or
\* copied; until then it is an empty string on the stack, which an empty
\* source leaves in place.  The file name information does not outlive the
\* step.
ImageName ==
    /\ At("names")
    /\ Is({"image"})
    /\ \/ /\ \E r \in {"OBINFO", "IMAGE"} :
                Take({r}) /\ Found({"LOADED_MODULE"}, r)
          /\ UNCHANGED failed
       \/ /\ failed' \in {failed \cup {"memory"}, failed \cup {"no name"}}
          /\ UNCHANGED <<held, backing>>
    /\ Advance
    /\ UNCHANGED <<flow, found, verdict, output, stale>>

FileParts == {"MM_FILE_NAME", "MM_FILE_PARTS"}

\* FsPreCreateCallback and FsPreSetInformationCallback: the parts of the name
\* point into the name information, which is released in the same step.
FileName ==
    /\ At("names")
    /\ Is({"file_create", "file_set"})
    /\ \/ Found(FileParts, "NAME")
       \/ Found({"MM_FILE_NAME"}, "caller")
    /\ Advance
    /\ UNCHANGED <<flow, held, found, verdict, output, stale, failed>>

KeyName ==
    /\ At("names")
    /\ Is({"registry"}) /\ Class(KeyNamed)
    /\ \/ /\ Take({"KEY"})
          /\ LET value == IF Class({"PostSetValueKey"}) THEN {"REG_VALUE_NAME"}
                          ELSE {}
             IN  backing' = With(With(backing, value, "caller"), {"REG_KEY"}, "KEY")
          /\ UNCHANGED status
       \/ status' = "failed" /\ UNCHANGED <<held, backing>>
    /\ Advance
    /\ UNCHANGED <<flow, found, access, desired, skip, output, stale, failed>>

\* The value is read inside a handler of its own, which releases the name
\* that the finally block releases too.
KeyNameFaults ==
    /\ At("names")
    /\ Is({"registry"}) /\ Class({"PostSetValueKey"})
    /\ mode = "handle"
    /\ Found({"REG_KEY"}, "KEY")
    /\ failed' = failed \cup {"value"}
    /\ pc' = "finally"
    /\ UNCHANGED <<flow, held, found, verdict, output, stale>>

\* The other names a key operation has, and what they point into.
OtherNames ==
    CASE Class({"PreSetValueKey", "PreDeleteValueKey"}) -> {"REG_VALUE_NAME"}
      [] Class({"PreRenameKey"}) -> {"REG_KEY_NEW"}
      [] Class({"PreReplaceKey"}) -> {"REG_NEW_FILE_NAME", "REG_OLD_FILE_NAME"}
      [] Class({"PreRestoreKey"}) -> {"REG_NEW_FILE_NAME"}
      [] OTHER -> {}
OtherSource == IF Class({"PreRestoreKey"}) THEN "FILE" ELSE "caller"

Buffers == IF Class({"PreRestoreKey"}) THEN {"OBJECT", "FILE"} ELSE {"OBJECT"}

\* ObQueryNameString into regObInfo, again into a longer one when it does not
\* fit.  Without a result the buffer is kept, for an empty one it is freed;
\* to restore a key the file's name is needed as well.
QueryName ==
    /\ At("names")
    /\ Is({"registry"}) /\ Class(ObjectNamed)
    /\ \/ /\ Take(Buffers)
          /\ \/ UNCHANGED backing
             \/ \E other \in {{}, OtherNames} :
                    backing' = With(With(backing, other, OtherSource),
                                    {"REG_KEY"}, "OBJECT")
       \/ Take(Buffers \ {"OBJECT"}) /\ UNCHANGED backing
    /\ Advance
    /\ UNCHANGED <<flow, found, verdict, output, stale, failed>>

\* Variant of QueryFails: the pointer to the buffer that was freed is kept.
QueryFailsKept ==
    /\ At("names")
    /\ Is({"registry"}) /\ Class(ObjectNamed)
    /\ held' = Give({"OBJECT"})
    /\ status' = "no memory"
    /\ pc' = "finally"
    /\ UNCHANGED <<flow, event, access, desired, skip, output, stale, failed>>

\* An allocation fails, the first or the longer one, or that of fileInfo; the
\* buffers there are by then are released in the finally block.
QueryFails ==
    /\ At("names")
    /\ Is({"registry"}) /\ Class(ObjectNamed)
    /\ \E rs \in SUBSET Buffers : rs # Buffers /\ Take(rs)
    /\ status' = "no memory"
    /\ pc' = "finally"
    /\ UNCHANGED <<flow, event, access, desired, skip, output, stale, failed>>

CallerName ==
    /\ At("names")
    /\ Is({"registry"}) /\ Class(CallerNamed \cup Unnamed)
    /\ IF Class(CallerNamed) THEN Found({"REG_KEY"}, "caller")
       ELSE UNCHANGED backing
    /\ Advance
    /\ UNCHANGED <<flow, held, found, verdict, output, stale, failed>>

\* NetClassifyCallback: the addresses of one family; a handled exception
\* leaves some of them out.
NetFields ==
    CASE Class({"connection_v4"})
            -> {"MM_NET_LOCAL_IPV4_ADDR", "MM_NET_REMOTE_IPV4_ADDR"}
      [] Class({"connection_v6"})
            -> {"MM_NET_LOCAL_IPV6_ADDR", "MM_NET_REMOTE_IPV6_ADDR"}
      [] Class({"assignment_v4"}) -> {"MM_NET_LOCAL_IPV4_ADDR"}
      [] Class({"assignment_v6"}) -> {"MM_NET_LOCAL_IPV6_ADDR"}
      [] OTHER -> {}

NetValues ==
    /\ At("names")
    /\ Is({"network"})
    /\ \E fs \in SUBSET NetFields : Found(fs, "caller")
    /\ Advance
    /\ UNCHANGED <<flow, held, found, verdict, output, stale, failed>>

-----------------------------------------------------------------------------
(* Inspection and logging.                                                 *)

Blocking == {"process_create", "object", "registry", "file_create", "file_set"}

\* Variant of Verdict: the registry callback keeps a failure of its own.
VerdictKept(denied) ==
    IF Is({"registry"}) /\ status # "success" THEN status
    ELSE IF denied THEN "denied" ELSE "success"

\* The status is the one that the Inspect function returns, whatever it was.
Verdict(denied) == IF denied THEN "denied" ELSE "success"

\* Variant of Masked: the access before the verdict is logged.
MaskedEarly(mask) == access' = access \cap mask /\ UNCHANGED desired

\* The verdict on an object access is a mask for the rights it will have.
Masked(mask) == access' = access \cap mask /\ desired' = access \cap mask

\* What the rules say is any verdict; Inspect shows that a denied event is
\* not skipped.  The rules look at all fields.
InspectEvent ==
    /\ At("inspect")
    /\ \E denied, skipped \in BOOLEAN :
        /\ denied => call.kind \in Blocking /\ ~skipped
        /\ skip' = skipped
        /\ IF Is({"object"})
           THEN /\ IF denied THEN \E mask \in SUBSET Rights : Masked(mask)
                   ELSE UNCHANGED <<access, desired>>
                /\ UNCHANGED status
           ELSE /\ status' = Verdict(denied)
                /\ UNCHANGED <<access, desired>>
    /\ stale' = stale \cup Gone
    /\ Advance
    /\ UNCHANGED <<flow, held, event, output, failed>>

Logged == ~skip \/ call.keep

\* The image load callback ends its event also when it did not begin it.
Skip ==
    /\ At("header")
    /\ ~Logged
    /\ log' = IF Is({"image"}) THEN <<"EVENT_END">> ELSE <<>>
    /\ pc' = "finally"
    /\ UNCHANGED <<flow, held, event, verdict, next, reported, stale,
                   failed>>

Header ==
    /\ At("header")
    /\ Logged
    /\ log' = <<"MATCH_ID", "EVENT_TYPE", "PID">>
    /\ Advance
    /\ UNCHANGED <<flow, held, event, verdict, next, reported, stale,
                   failed>>

\* The entries between header and end, in their order.  Those of Always are
\* there in any case, the others when the field was found.
Always ==
    {"PFLAGS", "PARENT_PID", "CREATING_THREAD_ID", "THREAD_ID",
     "CREATION_STATUS", "MODULE_PROPERTIES", "TARGET_PID", "PHOPERATION",
     "PHDESIRED_ACCESS", "PHORIGINAL_DESIRED_ACCESS", "REG_OP",
     "MM_FILE_OPERATION", "MM_WFP_LAYER", "MM_NET_ADDRESS_TYPE",
     "MM_NET_LOCAL_PORT", "MM_NET_INTERFACE_TYPE", "MM_NET_INTERFACE"}
    \cup (IF Class(Assignments)
          THEN {"MM_NET_PROMISCUOUS", "MM_NET_LOCAL_IPV4_ADDR"}
          ELSE {"MM_NET_DIRECTION", "MM_NET_IP_PROTOCOL", "MM_NET_REMOTE_PORT"})

ProcessDetails == <<"PFLAGS", "PARENT_PID", "CREATING_THREAD_ID", "PI",
                    "CREATION_STATUS">>
ExitDetails == <<"CREATION_STATUS", "PI">>
ThreadDetails == <<"PARENT_PID", "CREATING_THREAD_ID", "THREAD_ID", "PI", "TPI">>
ImageDetails == <<"LOADED_MODULE", "MODULE_PROPERTIES", "PI">>
ObjectDetails == <<"TARGET_PID", "PHOPERATION", "PHDESIRED_ACCESS",
                   "PHORIGINAL_DESIRED_ACCESS", "PI", "TPI">>
RegistryDetails == <<"REG_OP", "CREATION_STATUS", "PI", "REG_VALUE_NAME",
                     "REG_KEY", "REG_KEY_NEW", "REG_OLD_FILE_NAME",
                     "REG_NEW_FILE_NAME">>
FileCreateDetails == <<"CREATION_STATUS", "PI", "MM_FILE_NAME", "MM_FILE_PARTS">>
FileSetDetails == <<"MM_FILE_OPERATION", "CREATION_STATUS", "PI",
                    "MM_FILE_NAME", "MM_FILE_PARTS", "MM_FILE_CREATION_TIME",
                    "MM_FILE_CHANGE_TIME", "MM_FILE_ACCESS_FLAGS",
                    "MM_FILE_NEW_NAME", "MM_FILE_NETWORK_PROTOCOL",
                    "MM_NAMED_PIPE", "MM_FILE_DELETION">>
NetworkDetails == <<"MM_WFP_LAYER", "PI", "MM_NET_DIRECTION",
                    "MM_NET_IP_PROTOCOL", "MM_NET_REMOTE_PORT",
                    "MM_NET_REMOTE_IPV4_ADDR", "MM_NET_REMOTE_IPV6_ADDR",
                    "MM_NET_ADDRESS_TYPE", "MM_NET_PROMISCUOUS",
                    "MM_NET_LOCAL_PORT", "MM_NET_LOCAL_IPV4_ADDR",
                    "MM_NET_INTERFACE_TYPE", "MM_NET_INTERFACE",
                    "MM_NET_LOCAL_IPV6_ADDR">>

DetailsOf ==
    CASE Is({"process_create"}) -> ProcessDetails
      [] Is({"process_exit"}) -> ExitDetails
      [] Is({"thread"}) -> ThreadDetails
      [] Is({"image"}) -> ImageDetails
      [] Is({"object"}) -> ObjectDetails
      [] Is({"registry"}) -> RegistryDetails
      [] Is({"file_create"}) -> FileCreateDetails
      [] Is({"file_set"}) -> FileSetDetails
      [] Is({"network"}) -> NetworkDetails

\* A process is described when it was found; the callback for a created
\* process also writes what it has of one that was not.
Written(f) ==
    \/ f \in Always
    \/ f \in DOMAIN backing /\ (f \in {"PI", "TPI"} =>
                                    f \in found \/ Is({"process_create"}))

\* One entry: the status and the access are those of this moment.
Detail ==
    /\ At("details")
    /\ LET f == DetailsOf[next] IN
        /\ log' = IF Written(f) THEN Append(log, f) ELSE log
        /\ stale' = stale \cup ({f} \cap {g \in Gone : Written(g)})
        /\ reported' =
             [status |-> IF f = "CREATION_STATUS" THEN status ELSE reported.status,
              access |-> IF f = "PHDESIRED_ACCESS" THEN desired ELSE reported.access]
    /\ next' = next + 1
    /\ IF next < Len(DetailsOf) THEN UNCHANGED pc ELSE Advance
    /\ UNCHANGED <<flow, held, event, verdict, failed>>

\* Variant of Ends: a description that was not found ends the event early.
EndsFound == IF "PI" \in found THEN <<"EVENT_END">> ELSE <<>>

Ends == IF Is({"image"}) THEN <<"EVENT_END", "EVENT_END">> ELSE <<"EVENT_END">>

End ==
    /\ At("end")
    /\ log' = log \o Ends
    /\ Advance
    /\ UNCHANGED <<flow, held, event, verdict, next, reported, stale,
                   failed>>

-----------------------------------------------------------------------------
(* The finally blocks.                                                     *)

\* A pinned entry is unpinned; without one, a description that was found was
\* allocated by the callback.
GivesPI == IF held["pin"] = 1 THEN {"pin"} ELSE found \cap {"PI"}
GivesTPI == IF held["tpin"] = 1 THEN {"tpin"} ELSE found \cap {"TPI"}

\* The string of an image name is destroyed unless it was queried.  A copy
\* that failed left a NULL pointer, an empty source the string on the stack.
GivesImage ==
    IF held["OBINFO"] = 1 THEN {"OBINFO"}
    ELSE IF "memory" \in failed THEN {} ELSE {"IMAGE"}

GivesRegistry ==
    {r \in {"OBJECT", "FILE"} : held[r] = 1}
    \cup (IF "REG_KEY" \in DOMAIN backing /\ Class(KeyNamed) THEN {"KEY"}
          ELSE {})

Given ==
    CASE Is({"process_create"}) -> {}
      [] Is({"thread", "object"}) -> GivesPI \cup GivesTPI
      [] Is({"image"}) -> GivesPI \cup GivesImage
      [] Is({"registry"}) -> GivesRegistry \cup (GivesPI \cap {"pin"})
      [] OTHER -> GivesPI \cap {"pin"}

Finally ==
    /\ At("finally")
    /\ held' = Give(Given)
    /\ Advance
    /\ UNCHANGED <<flow, event, verdict, output, stale, failed>>

\* An exception while the event is collected, inspected or written: in the
\* debug build no handler takes it and the machine stops.
Fault ==
    /\ pc \notin {"finally", "done", "asleep", "bugcheck"}
    /\ At("gate") => Is({"object", "file_set"})
    /\ IF mode = "search"
       THEN pc' = "bugcheck" /\ UNCHANGED failed
       ELSE pc' = "finally" /\ failed' = failed \cup {"fault"}
    /\ UNCHANGED <<flow, held, event, verdict, output, stale>>

-----------------------------------------------------------------------------
Before == Ignore \/ NapTime \/ Pass

Processes ==
    \/ PinActing \/ PinTarget \/ Unprobed \/ processInfoInit
    \/ Refer \/ ReferFails \/ AddNewProcess

Names ==
    \/ ImageName \/ FileName \/ NetValues
    \/ KeyName \/ KeyNameFaults \/ QueryName \/ QueryFails \/ CallerName

Reports == InspectEvent \/ Skip \/ Header \/ Detail \/ End

Next == Before \/ Processes \/ Names \/ Reports \/ Finally \/ Fault

Spec == Init /\ [][Next]_vars

-----------------------------------------------------------------------------
Returned == pc \in {"done", "asleep"}
Faulted == "fault" \in failed
Entries == {log[n] : n \in 1..Len(log)}

\* The entries that a callback of this kind writes.
EntryTypes == {"MATCH_ID", "EVENT_TYPE", "PID", "EVENT_END"}
    \cup {DetailsOf[i] : i \in 1..Len(DetailsOf)}

TypeOK ==
    /\ call \in Calls /\ mode \in Modes
    /\ pc \in {Steps[n] : n \in 1..Len(Steps)} \cup {"asleep", "bugcheck"}
    /\ held \in [Resources -> -1..1]
    /\ \A f \in DOMAIN backing : backing[f] \in Resources \cup {"caller"}
    /\ found \subseteq {"PI", "TPI"}
    /\ access \subseteq Rights /\ desired \subseteq Rights
    /\ skip \in BOOLEAN
    /\ status \in {"success", "denied", "failed", "no memory"}
    /\ failed \subseteq {"memory", "no name", "probe", "value", "fault"}
    /\ log \in Seq(EntryTypes) /\ next \in 1..15
    /\ stale \subseteq DOMAIN backing

\* What a callback keeps, or gives back once too often.  A referenced process
\* is never dereferenced; a created process whose description no slot takes
\* leaks it; processInfoInit leaks what it copied before an exception.  The
\* image callback destroys its string on the stack when it has no name, and
\* a handled exception makes the registry callback release a name twice.
Unbalanced ==
    {"ref"}
    \cup (IF Is({"process_create"}) THEN {"PI", "SID", "SUBJECT"} ELSE {})
    \cup (IF "probe" \in failed THEN {"PI", "TPI"} ELSE {})
    \cup (IF "LOADED_MODULE" \notin DOMAIN backing THEN {"IMAGE"} ELSE {})
    \cup (IF "value" \in failed THEN {"KEY"} ELSE {})

\* Each callback gives back what it took, once, on every path: also when it
\* returns early for want of memory and when an exception is handled.  Every
\* exception is named in Unbalanced (MoonMon.c:202, 225, 581, 632, 779, 997).
Balanced == Returned => \A r \in Resources \ Unbalanced : held[r] = 0

\* What the rules read and the log copies is still held: a pinned entry, an
\* allocation not yet freed.  Two exceptions: the parts of a file name, read
\* after FltReleaseFileNameInformation, and the description of a created
\* process, read after a slot took it (MoonMon.c:1468, 1793, 234-275).
HeldWhenRead ==
    stale \subseteq CASE Is({"file_create", "file_set"}) -> FileParts
                      [] Is({"process_create"}) -> {"PI"}
                      [] OTHER -> {}

\* The agent opens an event at its first entry and closes it at EVENT_END: an
\* event has its three leading entries first, no entry twice, nothing after
\* its end, and an end unless an exception cut it.  The image callback ends
\* its event twice and, when it was dropped, ends one it never began.
Framed ==
    /\ Entries \ {"EVENT_END"} # {} =>
           /\ SubSeq(log, 1, 3) = <<"MATCH_ID", "EVENT_TYPE", "PID">>
           /\ Returned /\ ~Faulted => log[Len(log)] = "EVENT_END"
    /\ \A m, n \in 1..Len(log) : m < n =>
           \/ log[m] # log[n] /\ log[m] # "EVENT_END"
           \/ Is({"image"}) /\ n = Len(log) /\ log[n] = "EVENT_END"

\* An excluded event is not logged unless KEEP_EXCLUDES is set, except for
\* the image callback's last entry; any other that is inspected is logged.
LoggedUnlessExcluded ==
    /\ skip /\ ~call.keep =>
           Entries \subseteq IF Is({"image"}) THEN {"EVENT_END"} ELSE {}
    /\ pc = "end" => ~skip \/ call.keep

\* What the agent can put together again is what the rules let through.
WellFramed == Framed /\ LoggedUnlessExcluded

\* The operation fails only when a rule denies it or memory is short: an
\* error of the callback's own is forgotten.  A denial is in the log.
DenialLogged ==
    pc = "done" /\ ~Faulted =>
        \/ status = "success"
        \/ status = "no memory" /\ log = <<>>
        \/ status = "denied" /\ reported.status = "denied"

\* A handle never gets a right that was not asked for, the protected client's
\* handles get none, and the log has the rights the handle got.
AccessShrinks ==
    Is({"object"}) =>
        /\ access \subseteq call.access
        /\ /\ Returned /\ ~Faulted
           /\ \/ call.client = "kernel"
              \/ call.client = "user" /\ call.resist
           => access = {}
        /\ pc = "done" /\ "EVENT_END" \in Entries => reported.access = access

-----------------------------------------------------------------------------
(* The inductive invariant behind the properties.                          *)

\* The callback is at the stage or comes to it, unless it leaves the order.
Ahead(stage) ==
    \E m, n \in 1..Len(Steps) : m <= n /\ Steps[m] = pc /\ Steps[n] = stage

Running == pc \notin {"done", "asleep", "bugcheck"}
Collecting == Running /\ pc # "finally"

\* Where a callback of this kind can be.
PcInv ==
    /\ pc \in {Steps[n] : n \in 1..Len(Steps)} \cup {"asleep", "bugcheck"}
    /\ pc = "asleep" => Is({"object"})

\* Nothing is taken before the gate is passed.
GateInv ==
    pc = "gate" => status = "success" /\ \A r \in Resources : held[r] = 0

\* What is not taken yet, or not by this kind of callback.
Untaken ==
    Running =>
        /\ held \in [Resources -> 0..1]
        /\ \A r \in {"NAME", "slot"} : held[r] = 0
        /\ Ahead("acting") =>
            held["pin"] = 0 /\ held["PI"] = 0 /\ "PI" \notin found
        /\ Ahead("target") \/ ~Is({"thread", "object"}) =>
            held["tpin"] = 0 /\ held["TPI"] = 0 /\ "TPI" \notin found
        /\ Ahead("refer") \/ ~Is({"process_create"}) =>
            held["SID"] = 0 /\ held["SUBJECT"] = 0
        /\ IF Is({"object"}) THEN Ahead("target") => held["ref"] = 0
           ELSE Ahead("refer") => held["ref"] = 0
        /\ Ahead("names") \/ ~Is({"image"}) =>
            held["OBINFO"] = 0 /\ held["IMAGE"] = 0
        /\ Ahead("names") \/ ~Is({"registry"}) =>
            held["KEY"] = 0 /\ held["OBJECT"] = 0 /\ held["FILE"] = 0
        /\ Ahead("names") => DOMAIN backing \cap {"REG_KEY", "LOADED_MODULE"} = {}

\* What is held is what the finally block will give back.
Owned ==
    Running =>
        /\ Is({"process_create"}) => held["pin"] = 0 /\ DOMAIN backing \subseteq {"PI"}
        /\ ~Is({"process_create"}) /\ "probe" \notin failed =>
            held["PI"] = IF "PI" \in found /\ held["pin"] = 0 THEN 1 ELSE 0
        /\ ~Is({"process_create", "thread", "image", "object"}) => held["PI"] = 0
        /\ "probe" \notin failed =>
            held["TPI"] = IF "TPI" \in found /\ held["tpin"] = 0 THEN 1 ELSE 0
        /\ Ahead("names") => "memory" \notin failed
        /\ "LOADED_MODULE" \notin DOMAIN backing => held["OBINFO"] = 0
        /\ "LOADED_MODULE" \in DOMAIN backing =>
            "memory" \notin failed /\ held["OBINFO"] = 1 - held["IMAGE"]
        /\ "value" \notin failed =>
            held["KEY"] = IF "REG_KEY" \in DOMAIN backing /\ Class(KeyNamed)
                          THEN 1 ELSE 0

\* Every field is backed, but for the two exceptions.
Backed ==
    Collecting => \A f \in DOMAIN backing :
        \/ backing[f] = "caller"
        \/ backing[f] \in Resources /\ held[backing[f]] > 0
        \/ f \in CASE Is({"file_create", "file_set"}) -> FileParts
                   [] Is({"process_create"}) -> {"PI"}
                   [] OTHER -> {}

\* The status until the verdict and after it, and what was reported of it.
StatusInv ==
    /\ pc \in {"gate", "acting", "refer", "target", "names", "inspect"} =>
        status = "success" \/ (status = "failed" /\ Is({"registry"}) /\ ~Ahead("names"))
    /\ pc \in {"header", "details", "end"} =>
        /\ status \in {"success", "denied"}
        /\ status = "denied" =>
            ~skip /\ Is({"process_create", "registry", "file_create", "file_set"})
    /\ pc = "details" => \A i \in 1..(next - 1) :
            DetailsOf[i] = "CREATION_STATUS" => reported.status = status
    /\ pc = "end" /\ status = "denied" => reported.status = "denied"
    /\ pc \in {"finally", "done"} /\ ~Faulted =>
        \/ status = "success"
        \/ status = "no memory" /\ log = <<>>
        \/ status = "denied" /\ reported.status = "denied"

\* The rights of a handle, from the gate to the log.
AccessInv ==
    Is({"object"}) =>
        /\ access \subseteq call.access
        /\ pc = "gate" => access = call.access
        /\ pc # "gate" /\ ~Faulted /\ pc # "bugcheck" =>
            /\ \/ call.client = "kernel"
               \/ call.client = "user" /\ call.resist
               => access = {}
        /\ pc \in {"target", "acting", "inspect", "header", "details", "end"} =>
            desired = access
        /\ pc = "details" => \A i \in 1..(next - 1) :
            DetailsOf[i] = "PHDESIRED_ACCESS" => reported.access = access
        /\ pc = "end" => reported.access = access
        /\ pc \in {"finally", "done"} /\ "EVENT_END" \in Entries =>
            reported.access = access

\* The event as far as it is written.
LogInv ==
    /\ pc \in {"gate", "acting", "refer", "target", "names", "inspect", "header",
               "asleep"} => log = <<>> /\ next = 1
    /\ pc \in {"details", "end"} =>
        /\ ~skip \/ call.keep
        /\ next \in 1..(Len(DetailsOf) + 1)
        /\ pc = "details" => next <= Len(DetailsOf)
        /\ pc = "end" => next = Len(DetailsOf) + 1
        /\ Len(log) >= 3
        /\ log[1] = "MATCH_ID" /\ log[2] = "EVENT_TYPE" /\ log[3] = "PID"
        /\ \A m \in 4..Len(log) : \E i \in 1..(next - 1) : log[m] = DetailsOf[i]
        /\ \A m, n \in 1..Len(log) : m < n => log[m] # log[n]
    /\ pc = "finally" /\ ~Faulted /\ Entries \ {"EVENT_END"} # {} =>
        log[Len(log)] = "EVENT_END"

IInv ==
    /\ TypeOK
    /\ PcInv
    /\ GateInv
    /\ Untaken
    /\ Owned
    /\ Backed
    /\ StatusInv
    /\ AccessInv
    /\ LogInv
    /\ Balanced
    /\ HeldWhenRead
    /\ WellFramed
    /\ DenialLogged
    /\ AccessShrinks

=============================================================================
