---------------------------- MODULE RuntimeSocket ----------------------------
(***************************************************************************)
(* The Python client of the `kei-proxy serve' daemon: the cache of one     *)
(* session per identity, shared by every call in progress, and the single  *)
(* reopening of a session the daemon no longer knows.                      *)
(*                                                                         *)
(* A step is what a call does between two points where another call can    *)
(* run.  On one event loop those are the awaits.  The synchronous adapter  *)
(* runs every call on a loop and a thread of its own, and then they are    *)
(* the accesses to the shared dictionary: Threaded tells the two apart.    *)
(* The daemon (its table of sessions, what it answers) is external.        *)
(***************************************************************************)
EXTENDS Integers, Sequences

CONSTANTS
    Calls,         \* the calls made on the client
    Identities,    \* the (source, external_id) pairs
    Operations,    \* what the harness runs in a session
    MaxSessions,   \* bound: sessions the daemon opens
    Threaded       \* calls run in threads, not as tasks of one loop

ASSUME SocketAssumption ==
    /\ Operations \subseteq {"decide", "chat", "stream", "close"}
    /\ MaxSessions \in Nat
    /\ Threaded \in BOOLEAN
    /\ "nobody" \notin Identities

NoSession == 0
Nobody    == "nobody"

(* authorize and release_credential run the same loop, and are "decide".   *)
Kinds     == Operations \cup {"open"}
Reopeners == {"decide", "chat", "stream"}

VARIABLES
    cache,      \* _sessions
    owner,      \* the daemon: the identity each session was opened for
    live,       \* the daemon: the sessions it still knows
    stage,      \* where a call is
    kind, who,  \* its operation and its identity
    sid,        \* the session it runs in
    attempt,    \* the loop variable of its operation
    reply,      \* the daemon's answer, not yet read
    result,     \* what the call returned or raised
    missed,     \* history: the session of its first session_not_found
    ran         \* history: how often the daemon carried the operation out

daemon == <<owner, live>>
local  == <<kind, who, attempt, missed, ran>>
socketVars == <<cache, daemon, stage, local, sid, reply, result>>

Sessions == 1 .. Len(owner)

Places  == {"idle", "lookup", "put", "stored", "send", "sent", "answered",
            "forget", "delete", "done"}
Replies == {"none", "ok", "malformed", "refused", "miss_error", "miss_deny"}
Results == {"none", "session", "ok", "partial", "missing", "error",
            "key_error"}

SocketTypeOK ==
    /\ owner \in Seq(Identities)
    /\ live \subseteq Sessions
    /\ cache \in [Identities -> Sessions \cup {NoSession}]
    /\ stage \in [Calls -> Places]
    /\ kind \in [Calls -> Kinds]
    /\ who \in [Calls -> Identities \cup {Nobody}]
    /\ sid \in [Calls -> Sessions \cup {NoSession}]
    /\ attempt \in [Calls -> 0 .. 1]
    /\ reply \in [Calls -> Replies]
    /\ result \in [Calls -> Results]
    /\ missed \in [Calls -> Sessions \cup {NoSession}]
    /\ ran \in [Calls -> Nat]

SocketInit ==
    /\ cache = [i \in Identities |-> NoSession]
    /\ owner = <<>> /\ live = {}
    /\ stage = [c \in Calls |-> "idle"]
    /\ kind = [c \in Calls |-> "open"]
    /\ who = [c \in Calls |-> Nobody]
    /\ sid = [c \in Calls |-> NoSession]
    /\ attempt = [c \in Calls |-> 0]
    /\ reply = [c \in Calls |-> "none"]
    /\ result = [c \in Calls |-> "none"]
    /\ missed = [c \in Calls |-> NoSession]
    /\ ran = [c \in Calls |-> 0]

(* On one event loop nothing runs between two accesses to the dictionary   *)
(* that no await separates.                                                *)
Turn(c) == Threaded \/ \A d \in Calls \ {c} :
                           stage[d] \notin {"lookup", "forget", "delete"}

Goto(c, place) == stage' = [stage EXCEPT ![c] = place]

(* The call is over, and what was local to it is gone.                     *)
Finish(c, r, s) ==
    /\ Goto(c, "done")
    /\ result' = [result EXCEPT ![c] = r]
    /\ sid' = [sid EXCEPT ![c] = s]
    /\ kind' = [kind EXCEPT ![c] = "open"]
    /\ who' = [who EXCEPT ![c] = Nobody]
    /\ attempt' = [attempt EXCEPT ![c] = 0]
    /\ missed' = [missed EXCEPT ![c] = NoSession]
    /\ ran' = [ran EXCEPT ![c] = 0]

GoOn(c, place) == Goto(c, place) /\ UNCHANGED <<local, result>>

-----------------------------------------------------------------------------
(* Starting a call *)

(* The harness opens the session of an identity, for its own sake or, as   *)
(* the adapter does, to run an operation in it.                            *)
Begin(c, k, i) ==
    /\ stage[c] = "idle" /\ Turn(c)
    /\ kind' = [kind EXCEPT ![c] = k]
    /\ who' = [who EXCEPT ![c] = i]
    /\ Goto(c, "lookup")
    /\ UNCHANGED <<cache, daemon, sid, attempt, reply, result, missed, ran>>

(* The harness runs an operation in a session open_session has given it,   *)
(* which may have been closed, replaced or lost since.                     *)
Use(c, k, s) ==
    /\ stage[c] = "idle" /\ Turn(c)
    /\ \E d \in Calls : result[d] = "session" /\ sid[d] = s
    /\ kind' = [kind EXCEPT ![c] = k]
    /\ who' = [who EXCEPT ![c] = owner[s]]
    /\ sid' = [sid EXCEPT ![c] = s]
    /\ Goto(c, IF k = "close" THEN "forget" ELSE "send")
    /\ UNCHANGED <<cache, daemon, attempt, reply, result, missed, ran>>

(* forget_session: one dictionary operation.                               *)
ForgetSession(i) ==
    /\ Threaded \/ \A d \in Calls : stage[d] \notin {"lookup", "forget", "delete"}
    /\ cache[i] # NoSession
    /\ cache' = [cache EXCEPT ![i] = NoSession]
    /\ UNCHANGED <<daemon, stage, local, sid, reply, result>>

-----------------------------------------------------------------------------
(* open_session *)

(* With a session in hand the call goes on to its operation.               *)
Opened(c, s) ==
    IF kind[c] = "open" THEN Finish(c, "session", s)
    ELSE /\ GoOn(c, IF kind[c] = "close" THEN "forget" ELSE "send")
         /\ sid' = [sid EXCEPT ![c] = s]

(* A cached session is returned, otherwise the request goes out.           *)
Lookup(c) ==
    /\ stage[c] = "lookup" /\ Turn(c)
    /\ IF cache[who[c]] # NoSession
         THEN Opened(c, cache[who[c]])
         ELSE GoOn(c, "put") /\ UNCHANGED sid
    /\ UNCHANGED <<cache, daemon, reply>>

DaemonPut(c) ==
    /\ stage[c] = "put" /\ Len(owner) < MaxSessions
    /\ owner' = Append(owner, who[c])
    /\ live' = live \cup {Len(owner) + 1}
    /\ sid' = [sid EXCEPT ![c] = Len(owner) + 1]
    /\ GoOn(c, "stored")
    /\ UNCHANGED <<cache, reply>>

(* Mutant: the session is cached for whichever identity asked first.       *)
StoreShared(c) ==
    /\ stage[c] = "stored" /\ Turn(c)
    /\ cache' = [i \in Identities |-> IF cache[i] = NoSession THEN sid[c]
                                      ELSE cache[i]]
    /\ Opened(c, sid[c])
    /\ UNCHANGED <<daemon, reply>>

(* The answer is read and cached, over whatever another call has cached    *)
(* meanwhile.                                                              *)
Store(c) ==
    /\ stage[c] = "stored" /\ Turn(c)
    /\ cache' = [cache EXCEPT ![who[c]] = sid[c]]
    /\ Opened(c, sid[c])
    /\ UNCHANGED <<daemon, reply>>

-----------------------------------------------------------------------------
(* The operation *)

(* _send: the session id goes out in the header.                           *)
Send(c) ==
    /\ stage[c] = "send" /\ Turn(c)
    /\ GoOn(c, "sent")
    /\ UNCHANGED <<cache, daemon, sid, reply>>

(* The daemon carries the operation out (and its answer may be no JSON     *)
(* object of the schema), or refuses it, or does not know the session: a   *)
(* decision then comes as a deny or as an error.                           *)
Answers(k, s) ==
    IF s \in live THEN {"ok", "refused"} \cup
                       (IF k \in {"decide", "chat"} THEN {"malformed"} ELSE {})
    ELSE {"miss_error"} \cup (IF k = "decide" THEN {"miss_deny"} ELSE {})

DaemonAnswer(c) ==
    /\ stage[c] = "sent"
    /\ \E r \in Answers(kind[c], sid[c]) :
         /\ reply' = [reply EXCEPT ![c] = r]
         /\ ran' = [ran EXCEPT ![c] = @ + IF r \in {"ok", "malformed"} THEN 1 ELSE 0]
         /\ live' = IF kind[c] = "close" /\ r = "ok" THEN live \ {sid[c]} ELSE live
    /\ Goto(c, "answered")
    /\ UNCHANGED <<cache, owner, kind, who, attempt, missed, sid, result>>

(* Whether the answer asks for the one reopening.                          *)
Reopens(c) == attempt[c] = 0 /\ kind[c] \in Reopeners
                             /\ reply[c] \in {"miss_error", "miss_deny"}

(* Mutant: any answer that is not usable is tried again.                   *)
ReceiveRetries(c) ==
    /\ stage[c] = "answered" /\ Turn(c)
    /\ attempt[c] = 0 /\ kind[c] \in Reopeners
    /\ attempt' = [attempt EXCEPT ![c] = @ + 1]
    /\ missed' = [missed EXCEPT ![c] = sid[c]]
    /\ reply' = [reply EXCEPT ![c] = "none"]
    /\ Goto(c, "forget")
    /\ UNCHANGED <<cache, daemon, kind, who, sid, result, ran>>

Receive(c) ==
    /\ stage[c] = "answered" /\ Turn(c) /\ Reopens(c)
    /\ attempt' = [attempt EXCEPT ![c] = @ + 1]
    /\ missed' = [missed EXCEPT ![c] = sid[c]]
    /\ reply' = [reply EXCEPT ![c] = "none"]
    /\ Goto(c, "forget")
    /\ UNCHANGED <<cache, daemon, kind, who, sid, result, ran>>

(* Every other answer ends the call.  A session the daemon has already     *)
(* ended is closed; a stream may break off after some of its lines.        *)
Return(c) ==
    /\ stage[c] = "answered" /\ Turn(c) /\ ~Reopens(c)
    /\ \E r \in IF reply[c] = "ok" /\ kind[c] = "stream" THEN {"ok", "partial"}
                ELSE IF reply[c] = "ok" THEN {"ok"}
                ELSE IF reply[c] \in {"miss_error", "miss_deny"}
                     THEN {IF kind[c] = "close" THEN "ok" ELSE "missing"}
                ELSE {"error"} :
         Finish(c, r, NoSession)
    /\ reply' = [reply EXCEPT ![c] = "none"]
    /\ UNCHANGED <<cache, daemon>>

(* Mutant: a request that gets no answer is sent again.                    *)
FailResends(c) ==
    /\ stage[c] = "sent" /\ Turn(c)
    /\ GoOn(c, "send")
    /\ UNCHANGED <<cache, daemon, sid, reply>>

(* A timeout, an unreachable daemon, a missing token or a malformed        *)
(* session: whether or not the daemon has acted, the call fails.           *)
Fail(c) ==
    /\ stage[c] \in {"put", "stored", "send", "sent", "answered"} /\ Turn(c)
    /\ Finish(c, "error", NoSession)
    /\ reply' = [reply EXCEPT ![c] = "none"]
    /\ UNCHANGED <<cache, daemon>>

-----------------------------------------------------------------------------
(* _forget: the entry is read, compared, and deleted.                      *)

Forgotten(c) ==
    /\ GoOn(c, IF kind[c] = "close" THEN "send" ELSE "lookup")
    /\ UNCHANGED sid

(* Mutant: the stale session stays in the cache.                           *)
ForgetNothing(c) ==
    /\ stage[c] = "forget" /\ Turn(c)
    /\ Forgotten(c)
    /\ UNCHANGED <<cache, daemon, reply>>

Forget(c) ==
    /\ stage[c] = "forget" /\ Turn(c)
    /\ IF cache[who[c]] = sid[c]
         THEN GoOn(c, "delete") /\ UNCHANGED sid
         ELSE Forgotten(c)
    /\ UNCHANGED <<cache, daemon, reply>>

(* `del' of a key that is gone raises KeyError.                            *)
Delete(c) ==
    /\ stage[c] = "delete" /\ Turn(c)
    /\ IF cache[who[c]] = NoSession
         THEN Finish(c, "key_error", NoSession) /\ UNCHANGED cache
         ELSE /\ cache' = [cache EXCEPT ![who[c]] = NoSession]
              /\ Forgotten(c)
    /\ UNCHANGED <<daemon, reply>>

-----------------------------------------------------------------------------
(* The daemon ends a session on its own: it expires or the daemon restarts. *)
Expire(s) ==
    /\ s \in live
    /\ live' = live \ {s}
    /\ UNCHANGED <<cache, owner, stage, local, sid, reply, result>>

CallStep(c) == Lookup(c) \/ Store(c) \/ Send(c) \/ Receive(c) \/ Return(c)
               \/ Fail(c) \/ Forget(c) \/ Delete(c)

SocketNext ==
    \/ \E c \in Calls : \/ \E k \in Kinds, i \in Identities : Begin(c, k, i)
                        \/ \E k \in Operations, s \in Sessions : Use(c, k, s)
                        \/ CallStep(c) \/ DaemonPut(c) \/ DaemonAnswer(c)
    \/ \E i \in Identities : ForgetSession(i)
    \/ \E s \in live : Expire(s)

SocketSpec == SocketInit /\ [][SocketNext]_socketVars

(* The event loop runs every task that is ready, and a request that gets   *)
(* no answer times out.                                                    *)
SocketFairSpec == SocketSpec /\ \A c \in Calls : WF_socketVars(CallStep(c))

-----------------------------------------------------------------------------
(* Properties *)

(* A call runs in a session that was opened for its own identity, and the  *)
(* cache never hands out the session of somebody else.                     *)
OwnSession ==
    /\ \A i \in Identities : cache[i] # NoSession => owner[cache[i]] = i
    /\ \A c \in Calls : stage[c] \in {"send", "sent"} => owner[sid[c]] = who[c]

(* The retry never meets the session it was made to replace: a call that   *)
(* fails with session_not_found has found two sessions gone, so it was the *)
(* daemon that lost them and not the client that kept a stale one.         *)
RetriesAnotherSession ==
    \A c \in Calls : attempt[c] = 1 /\ stage[c] \in {"send", "sent", "answered"}
                     => sid[c] # missed[c]

(* An operation is sent again only after the daemon has not carried it     *)
(* out: one call is never two completions or two released credentials.     *)
CarriedOutOnce == \A c \in Calls : ran[c] <= 1

(* A session whose close_session has dropped it is not handed out again.   *)
ClosedIsNotCached ==
    \A c \in Calls : kind[c] = "close" /\ stage[c] \in {"send", "sent", "answered"}
                     => cache[who[c]] # sid[c]

(* _forget drops an entry "unless it was already replaced": the entry that *)
(* a call deletes is the one of the session it means to forget.            *)
ReplacementIsKept ==
    [][\A c \in Calls : Delete(c) => cache[who[c]] \in {sid[c], NoSession}]_socketVars

(* What the safety properties rest on.  A session that the daemon has just *)
(* issued is known to one call only, so no late answer brings back a       *)
(* session that another call has dropped from the cache.                   *)
InSession == {"stored", "send", "sent", "answered", "forget", "delete"}

Cached == \A i \in Identities : cache[i] # NoSession => owner[cache[i]] = i

Idle(c) == stage[c] \in {"idle", "done"} => attempt[c] = 0

Owns(c) ==
    /\ stage[c] \notin {"idle", "done"} => who[c] \in Identities
    /\ stage[c] \in InSession => sid[c] \in Sessions /\ owner[sid[c]] = who[c]
    /\ result[c] # "none" => stage[c] = "done"
    /\ result[c] = "session" => sid[c] \in Sessions

Issued(c) ==
    stage[c] = "stored" =>
        /\ \A i \in Identities : cache[i] # sid[c]
        /\ \A d \in Calls : missed[d] # sid[c] /\ (d # c => sid[d] # sid[c])

Retried(c) ==
    attempt[c] = 1 =>
        /\ kind[c] # "close" /\ missed[c] \in Sessions
        /\ stage[c] \in {"forget", "delete"} => missed[c] = sid[c]
        /\ stage[c] = "lookup" => cache[who[c]] # missed[c]
        /\ stage[c] \in {"send", "sent", "answered"} => sid[c] # missed[c]

Closing(c) ==
    kind[c] = "close" /\ stage[c] \in {"send", "sent", "answered"}
        => cache[who[c]] # sid[c]

Ran(c) == ran[c] = IF stage[c] = "answered" /\ reply[c] \in {"ok", "malformed"}
                   THEN 1 ELSE 0

SocketInv ==
    Cached /\ \A c \in Calls : /\ Idle(c) /\ Owns(c) /\ Issued(c)
                              /\ Retried(c) /\ Closing(c) /\ Ran(c)

(* Every call comes back, whatever the daemon loses or leaves unanswered.  *)
CallReturns == \A c \in Calls : stage[c] # "idle" ~> stage[c] = "done"

=============================================================================
