---------------------------- MODULE PolicyBundle ----------------------------
(***************************************************************************)
(* The life of a policy bundle: fetched from the control plane, activated, *)
(* persisted for the next start, refreshed, and consulted for every tool   *)
(* call.  Processes on one host share the persisted file; start() and      *)
(* refresh() of one process are coroutines of one event loop, which is     *)
(* given up only while the fetch is awaited.                               *)
(*                                                                         *)
(* The control plane publishes a document for every version; PolicyRules   *)
(* has what becomes of it.  A file is an inode with a document in it, or   *)
(* with half of one while it is written.                                   *)
(***************************************************************************)
EXTENDS PolicyRules

CONSTANTS
    Procs,         \* processes that share the persist path
    Calls,         \* calls of start() and refresh()
    Home,          \* the process of a call
    MaxVersion,    \* bound: bundles the control plane publishes
    MaxTime,       \* bound: clock
    MinInterval,   \* MIN_REFRESH_INTERVAL_SECONDS
    Published,     \* the document of a version
    Asked,         \* the tool calls evaluate() is asked about
    Credentials    \* the settings a process may find, arguments and variables

Settings == {"control_plane_url", "runtime_token", "KEI_RUNTIME_CONTROL_PLANE_URL",
             "ABAC_URL", "KEI_API_URL", "KEI_RUNTIME_TOKEN"}

ASSUME BundleAssumption ==
    /\ Home \in [Calls -> Procs]
    /\ MaxVersion \in Nat \ {0} /\ MaxTime \in Nat /\ MinInterval \in Nat
    /\ DOMAIN Published = 1 .. MaxVersion
    /\ \A v \in 1 .. MaxVersion : Published[v].version \in {0, v}
    /\ Credentials \subseteq SUBSET Settings

NoBundle == [version |-> 0]
NoFile   == 0
Half     == [version |-> 0]     \* the content of a file that is being written

VARIABLES
    now,                  \* the clock
    newest,               \* the control plane: its newest bundle
    fetched,              \* history: versions it has delivered
    up, cred,             \* a process, and the settings it found
    bundle, loaded,       \* _bundle and _loaded
    last,                 \* _last_refresh_attempt
    unsaved,              \* history: its last activation was not persisted
    files, path, tmp,     \* the inodes, and what the two names stand for
    pc, op, got, fd,      \* a call: its place, kind, bundle and open file
    base                  \* history: the bundle active when it was made

plane   == <<newest, fetched>>
process == <<up, cred>>
state   == <<bundle, loaded>>
disk    == <<files, path, tmp>>
call    == <<pc, op, got, fd, base>>
vars    == <<now, plane, process, state, last, unsaved, disk, call>>

(* The versions that parse, the bundles that were delivered, and the       *)
(* documents a file may hold.                                              *)
Versions  == {v \in 1 .. newest : WireOutcome(Published[v]) = "bundle"}
Bundles   == {FromWire(Published[v]) : v \in fetched}
Persisted == {ToDict(b) : b \in Bundles}

TypeOK ==
    /\ now \in 0 .. MaxTime
    /\ newest \in 1 .. MaxVersion /\ fetched \subseteq Versions
    /\ up \in [Procs -> BOOLEAN]
    /\ cred \in [Procs -> SUBSET Settings]
    /\ bundle \in [Procs -> Bundles \cup {NoBundle}]
    /\ loaded \in [Procs -> BOOLEAN]
    /\ last \in [Procs -> 0 .. now]
    /\ unsaved \in [Procs -> BOOLEAN]
    /\ files \in Seq(Persisted \cup {Half})
    /\ path \in 0 .. Len(files) /\ tmp \in 0 .. Len(files)
    /\ pc \in [Calls -> {"idle", "fetch", "bundle", "failed", "crooked",
                         "write", "rename", "done", "raised"}]
    /\ op \in [Calls -> {"start", "refresh"}]
    /\ got \in [Calls -> Bundles \cup {NoBundle}]
    /\ fd \in [Calls -> 0 .. Len(files)]
    /\ base \in [Calls -> Bundles \cup {NoBundle}]

Init ==
    /\ now = 0 /\ newest = 1 /\ fetched = {}
    /\ up = [p \in Procs |-> FALSE] /\ cred = [p \in Procs |-> {}]
    /\ bundle = [p \in Procs |-> NoBundle] /\ loaded = [p \in Procs |-> FALSE]
    /\ last = [p \in Procs |-> 0]
    /\ unsaved = [p \in Procs |-> FALSE]
    /\ files = <<>> /\ path = NoFile /\ tmp = NoFile
    /\ pc = [c \in Calls |-> "idle"] /\ op = [c \in Calls |-> "start"]
    /\ got = [c \in Calls |-> NoBundle] /\ fd = [c \in Calls |-> NoFile]
    /\ base = [c \in Calls |-> NoBundle]

Finish(c, end) == pc' = [pc EXCEPT ![c] = end]

(* The event loop of a process is not given up between activation and the  *)
(* rename.                                                                 *)
Turn(c) ==
    up[Home[c]] /\ \A d \in Calls \ {c} :
        Home[d] = Home[c] => pc[d] \notin {"write", "rename"}

-----------------------------------------------------------------------------
(* __init__: the credentials are resolved, and with one of the two missing *)
(* the process is local-only.                                              *)
Construct(p, k) ==
    /\ ~up[p]
    /\ up' = [up EXCEPT ![p] = TRUE] /\ cred' = [cred EXCEPT ![p] = k]
    /\ bundle' = [bundle EXCEPT ![p] = NoBundle]
    /\ loaded' = [loaded EXCEPT ![p] = FALSE]
    /\ last' = [last EXCEPT ![p] = 0]
    /\ unsaved' = [unsaved EXCEPT ![p] = FALSE]
    /\ UNCHANGED <<now, plane, disk, call>>

(* The argument counts first, then the variable, then the legacy ones.     *)
HasUrl(k) ==
    k \cap {"control_plane_url", "KEI_RUNTIME_CONTROL_PLANE_URL", "ABAC_URL", "KEI_API_URL"} # {}

HasToken(k) == k \cap {"runtime_token", "KEI_RUNTIME_TOKEN"} # {}

LocalOnly(p) == ~HasUrl(cred[p]) \/ ~HasToken(cred[p])

(* _load_bundle_from_disk: nothing, or half a bundle, is no bundle.        *)
Cached == IF path = NoFile THEN NoBundle
          ELSE IF files[path] = Half THEN NoBundle ELSE FromWire(files[path])

(* The request goes out before the call is suspended.                      *)
Request(c) == pc' = [pc EXCEPT ![c] = "fetch"]

Start(c) ==
    /\ pc[c] = "idle" /\ Turn(c)
    /\ op' = [op EXCEPT ![c] = "start"]
    /\ LET p == Home[c] IN
       IF LocalOnly(p)
         THEN /\ loaded' = [loaded EXCEPT ![p] = TRUE]
              /\ Finish(c, "done")
              /\ UNCHANGED <<bundle, base>>
         ELSE /\ bundle' = [bundle EXCEPT ![p] = IF Cached = NoBundle THEN @
                                                 ELSE Cached]
              /\ base' = [base EXCEPT ![c] = bundle[p]]
              /\ Request(c)
              /\ UNCHANGED loaded
    /\ UNCHANGED <<now, plane, process, last, unsaved, disk, got, fd>>

Refresh(c) ==
    /\ pc[c] = "idle" /\ Turn(c)
    /\ op' = [op EXCEPT ![c] = "refresh"]
    /\ LET p == Home[c] IN
       IF LocalOnly(p) \/ now - last[p] < MinInterval
         THEN Finish(c, "done") /\ UNCHANGED <<last, base>>
         ELSE /\ last' = [last EXCEPT ![p] = now]
              /\ base' = [base EXCEPT ![c] = bundle[p]]
              /\ Request(c)
    /\ UNCHANGED <<now, plane, process, state, unsaved, disk, got, fd>>

(* The control plane delivers its newest bundle, which is parsed; or the   *)
(* fetch fails or times out; or the JSON is no object and from_wire raises *)
(* something other than a PolicyBundleError.                               *)
Answer(c, a) ==
    /\ pc[c] = "fetch"
    /\ a = "bundle" => WireOutcome(Published[newest]) = "bundle"
    /\ pc' = [pc EXCEPT ![c] = a]
    /\ got' = [got EXCEPT ![c] = IF a = "bundle" THEN FromWire(Published[newest])
                                      ELSE NoBundle]
    /\ fetched' = IF a = "bundle" THEN fetched \cup {newest} ELSE fetched
    /\ UNCHANGED <<now, newest, process, state, last, unsaved, disk,
                   op, fd, base>>

-----------------------------------------------------------------------------
(* Activation and _persist_bundle *)

(* Mutant: what was on disk when the call was made is activated.           *)
ActivateCached(c) ==
    /\ bundle' = [bundle EXCEPT ![Home[c]] = IF Cached # NoBundle THEN Cached
                                             ELSE got[c]]
    /\ loaded' = [loaded EXCEPT ![Home[c]] = TRUE]

Activate(c) ==
    /\ bundle' = [bundle EXCEPT ![Home[c]] = got[c]]
    /\ loaded' = [loaded EXCEPT ![Home[c]] = TRUE]

(* Mutant: the bundle is written straight to its path.                     *)
PersistOpenInPlace(c) ==
    /\ pc[c] = "bundle" /\ Turn(c)
    /\ Activate(c)
    /\ IF path = NoFile
         THEN /\ files' = Append(files, Half) /\ path' = Len(files) + 1
              /\ fd' = [fd EXCEPT ![c] = Len(files) + 1]
         ELSE /\ files' = [files EXCEPT ![path] = Half] /\ UNCHANGED path
              /\ fd' = [fd EXCEPT ![c] = path]
    /\ pc' = [pc EXCEPT ![c] = "write"]
    /\ UNCHANGED <<now, plane, process, last, unsaved, tmp, op, got,
                   base>>

(* The temporary file is opened, which empties it when it exists.          *)
PersistOpen(c) ==
    /\ pc[c] = "bundle" /\ Turn(c)
    /\ Activate(c)
    /\ IF tmp = NoFile
         THEN /\ files' = Append(files, Half) /\ tmp' = Len(files) + 1
              /\ fd' = [fd EXCEPT ![c] = Len(files) + 1]
         ELSE /\ files' = [files EXCEPT ![tmp] = Half] /\ UNCHANGED tmp
              /\ fd' = [fd EXCEPT ![c] = tmp]
    /\ pc' = [pc EXCEPT ![c] = "write"]
    /\ UNCHANGED <<now, plane, process, last, unsaved, path, op, got,
                   base>>

PersistWrite(c) ==
    /\ pc[c] = "write" /\ Turn(c)
    /\ files' = [files EXCEPT ![fd[c]] = ToDict(got[c])]
    /\ pc' = [pc EXCEPT ![c] = "rename"]
    /\ UNCHANGED <<now, plane, process, state, last, unsaved, path, tmp,
                   op, got, fd, base>>

(* Whatever the temporary name stands for by now becomes the bundle.       *)
PersistRename(c) ==
    /\ pc[c] = "rename" /\ Turn(c) /\ tmp # NoFile
    /\ path' = tmp /\ tmp' = NoFile
    /\ unsaved' = [unsaved EXCEPT ![Home[c]] = FALSE]
    /\ Finish(c, "done")
    /\ UNCHANGED <<now, plane, process, state, last, files, op, got, fd,
                   base>>

(* An OSError (no directory, a full disk, a rename refused, a name that is *)
(* gone) is no PolicyBundleError: it leaves the call after the bundle was  *)
(* activated.                                                              *)
PersistFails(c) ==
    /\ pc[c] \in {"bundle", "write", "rename"} /\ Turn(c)
    /\ IF pc[c] = "bundle" THEN Activate(c) ELSE UNCHANGED state
    /\ unsaved' = [unsaved EXCEPT ![Home[c]] = TRUE]
    /\ Finish(c, "raised")
    /\ UNCHANGED <<now, plane, process, last, disk, op, got, fd, base>>

-----------------------------------------------------------------------------
(* Mutant: a failed refresh drops the bundle.                              *)
FetchFailedDrops(c) ==
    /\ pc[c] = "failed" /\ Turn(c)
    /\ bundle' = [bundle EXCEPT ![Home[c]] = NoBundle]
    /\ loaded' = [loaded EXCEPT ![Home[c]] = FALSE]
    /\ Finish(c, "done")
    /\ UNCHANGED <<now, plane, process, last, unsaved, disk, op, got, fd,
                   base>>

(* A PolicyBundleError: start() falls back to the cached bundle.           *)
FetchFailed(c) ==
    /\ pc[c] = "failed" /\ Turn(c)
    /\ LET p == Home[c] IN
       loaded' = [loaded EXCEPT ![p] = @ \/ (op[c] = "start" /\ bundle[p] # NoBundle)]
    /\ Finish(c, "done")
    /\ UNCHANGED <<now, plane, process, bundle, last, unsaved, disk, op,
                   got, fd, base>>

(* Any other error leaves the call.                                        *)
FetchCrooked(c) ==
    /\ pc[c] = "crooked" /\ Turn(c)
    /\ Finish(c, "raised")
    /\ UNCHANGED <<now, plane, process, state, last, unsaved, disk, op,
                   got, fd, base>>

-----------------------------------------------------------------------------
Crash(p) ==
    /\ up[p]
    /\ up' = [up EXCEPT ![p] = FALSE]
    /\ pc' = [c \in Calls |-> IF Home[c] = p /\ pc[c] # "idle" THEN "done"
                              ELSE pc[c]]
    /\ UNCHANGED <<now, plane, cred, state, last, unsaved, disk, op, got,
                   fd, base>>

Publish ==
    /\ newest < MaxVersion
    /\ newest' = newest + 1
    /\ UNCHANGED <<now, fetched, process, state, last, unsaved, disk, call>>

Tick ==
    /\ now < MaxTime
    /\ now' = now + 1
    /\ UNCHANGED <<plane, process, state, last, unsaved, disk, call>>

Next ==
    \/ \E p \in Procs : Crash(p) \/ \E k \in Credentials : Construct(p, k)
    \/ \E c \in Calls : \/ Start(c) \/ Refresh(c)
                        \/ \E a \in {"bundle", "failed", "crooked"} : Answer(c, a)
                        \/ PersistOpen(c) \/ PersistWrite(c) \/ PersistRename(c)
                        \/ PersistFails(c) \/ FetchFailed(c) \/ FetchCrooked(c)
    \/ Publish \/ Tick

Spec == Init /\ [][Next]_vars

-----------------------------------------------------------------------------
(* evaluate *)

Expired(b) == b.expires # 0 /\ now >= b.expires

(* Mutant: a bundle stays in force after it has expired.                   *)
EvaluateExpired(p, q) ==
    IF ~loaded[p] \/ bundle[p] = NoBundle
    THEN IF LocalOnly(p) THEN "allow" ELSE "deny"
    ELSE Decide(bundle[p], q)

(* is_expired compares the local time with expires_at, and Python raises a *)
(* TypeError when only one of the two has a time zone.                     *)
Evaluate(p, q) ==
    IF ~loaded[p] \/ bundle[p] = NoBundle
    THEN IF LocalOnly(p) THEN "allow" ELSE "deny"
    ELSE IF bundle[p].expires # 0 /\ bundle[p].aware THEN "type_error"
    ELSE IF Expired(bundle[p]) THEN "deny"
    ELSE Decide(bundle[p], q)

-----------------------------------------------------------------------------
(* Properties *)

(* With a control plane configured a tool call is allowed only by a bundle *)
(* that the control plane has delivered, to this process or an earlier     *)
(* one, that is still in force, and whose published rules allow it, also   *)
(* after the bundle went through the file.                                 *)
AllowedByBundle ==
    \A p \in Procs, q \in Asked :
        up[p] /\ ~LocalOnly(p) /\ Evaluate(p, q) = "allow" =>
            /\ bundle[p].version \in fetched /\ ~Expired(bundle[p])
            /\ Decide(FromWire(Published[bundle[p].version]), q) = "allow"

(* Once loaded, a process keeps a bundle: a refresh that fails, is cut     *)
(* short or overlaps another never reopens the deny-everything gate.       *)
StaysLoaded ==
    [][\A p \in Procs : up[p] /\ up'[p] /\ loaded[p] =>
           loaded'[p] /\ (bundle[p] # NoBundle => bundle'[p] # NoBundle)]_vars

(* A live process is set back to an older bundle in two ways only.  A      *)
(* start() reads the file again after the last activation could not be     *)
(* saved, or where another process writes the file too.  Or a call         *)
(* activates an answer that another call has overtaken: a newer bundle     *)
(* became active after the call was made, and the answer is not older than *)
(* what was active then.                                                   *)
OneProcess == \A p, q \in Procs : p = q

ReadsStaleFile(c) ==
    /\ pc[c] = "idle" /\ pc'[c] = "fetch" /\ op'[c] = "start"
    /\ unsaved[Home[c]] \/ ~OneProcess

IsOvertaken(c) ==
    /\ pc[c] = "bundle" /\ pc'[c] \in {"write", "raised"}
    /\ base[c].version <= got[c].version
    /\ base[c].version < bundle[Home[c]].version

SetBackIsStale ==
    [][\A p \in Procs :
          up[p] /\ up'[p] /\ bundle'[p].version < bundle[p].version =>
              \E c \in Calls : Home[c] = p /\ (ReadsStaleFile(c) \/ IsOvertaken(c))]_vars

(* The file a start reads is never half written, whenever the process is   *)
(* killed: _persist_bundle writes "a bundle to disk atomically".           *)
PathIsWhole == path # NoFile => files[path] # Half

(* Between calls the persisted bundle is the active one, so a restart      *)
(* without the control plane resumes with the policy it had.               *)
SavedIsActive ==
    \A p \in Procs :
        /\ up[p] /\ loaded[p] /\ bundle[p] # NoBundle /\ ~unsaved[p]
        /\ \A c \in Calls : Home[c] = p => pc[c] \notin {"write", "rename"}
        => Cached = bundle[p]

(* What these rest on.  A call between fetch and rename belongs to a live  *)
(* process, and one call of a process at a time persists what it has just  *)
(* activated, which is what it got after it was made.                      *)
Persisting == {"write", "rename"}

CallOK(c) ==
    /\ pc[c] \notin {"idle", "done", "raised"} => up[Home[c]]
    /\ pc[c] \in {"bundle"} \cup Persisting =>
          got[c] \in Bundles /\ got[c].version >= base[c].version
    /\ pc[c] \in Persisting =>
          /\ fd[c] # NoFile /\ bundle[Home[c]] = got[c]
          /\ \A d \in Calls \ {c} : Home[d] = Home[c] => pc[d] \notin Persisting

CallInv == \A c \in Calls : CallOK(c)

(* With the path to itself, a process writes to the temporary file only,   *)
(* renames it when it is whole, and from then on has it as its bundle.     *)
WriteOK(c) ==
    /\ pc[c] \in Persisting => fd[c] = tmp
    /\ pc[c] = "rename" => files[tmp] = ToDict(got[c])

SavedOK(p) ==
    /\ up[p] /\ bundle[p] # NoBundle /\ ~unsaved[p]
    /\ \A c \in Calls : Home[c] = p => pc[c] \notin Persisting
    => Cached = bundle[p]

FileInv ==
    /\ path # NoFile => files[path] # Half /\ tmp # path
    /\ \A c \in Calls : WriteOK(c)
    /\ \A p \in Procs : SavedOK(p)

=============================================================================
