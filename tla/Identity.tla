------------------------------- MODULE Identity -------------------------------
(***************************************************************************)
(* JWTIdentityProvider.resolve, on the threads of a server that share one  *)
(* provider: the cached keys of the issuer, refetched for a key id it does *)
(* not know, and the revocation feed, polled or read from a file.          *)
(*                                                                         *)
(* The objects have no lock: each step is one read or write of a shared    *)
(* field, or one look at the source.  A credential whose signature, type,  *)
(* audience and window are in order is a credential here, with the id of   *)
(* the key that signed it; every event names one credential.  Times are    *)
(* moments of one clock, None is NoTime.                                   *)
(***************************************************************************)
EXTENDS Integers, FiniteSets

CONSTANTS
    Threads, Credentials, Kids,
    KidOf,            \* the key that signed a credential
    Setups,           \* where the keys and the revocations of a provider come from
    MaxStaleness,     \* max_staleness
    PollInterval,     \* poll_interval
    MinRefresh,       \* jwks_min_refresh_interval
    Slowness,         \* http_timeout: no look at a source takes longer
    LastMoment,       \* bound: the last moment
    NoCredential

NoTime == -1
Moments == 0..LastMoment

ASSUME IdentityConstants ==
    /\ KidOf \in [Credentials -> Kids] /\ NoCredential \notin Credentials
    /\ Setups \subseteq [keys : {"static", "jwks"}, feed : {"none", "poll", "file"}]
    /\ MaxStaleness \in Nat \ {0} /\ PollInterval \in Nat \ {0}
    /\ MinRefresh \in Nat /\ Slowness \in Nat /\ LastMoment \in Nat

VARIABLES
    setup,    \* what this provider was constructed with
    issuer,   \* since when the issuer publishes a key
    source,   \* the file, or the endpoint that answers a poll or a fetch
    cache,    \* _keys and _fetched_at
    feed,     \* _revocations, _read_at, _polled_at and _mtime
    threads,  \* the local state of each call of resolve
    clock

identityVars == <<setup, issuer, source, cache, feed, threads, clock>>

Rejections == {"unknown", "outdated", "revoked"}
Resolved == {"new", "admitted"} \cup Rejections

(* then: what the refresh of the feed was called for.  since: history, when the   *)
(* call arrived and, after that, when it found the feed not to be stale.          *)
NewThread == [pc |-> "new", cred |-> NoCredential, since |-> NoTime, at |-> NoTime,
              stat |-> NoTime, doc |-> {}, then |-> "stale"]

(* A file feed reads once as it is made. *)
IdentityInit ==
    /\ setup \in Setups
    /\ issuer \in [Kids -> {NoTime, 0}]
    /\ \E up \in BOOLEAN :
          /\ source = [revoked |-> [c \in Credentials |-> NoTime], listed |-> {},
                       mtime |-> 0, up |-> up, downAt |-> IF up THEN NoTime ELSE 0]
          /\ LET read == IF up /\ setup.feed = "file" THEN 0 ELSE NoTime
             IN feed = [revoked |-> {}, readAt |-> read, mtime |-> read, polledAt |-> NoTime]
    /\ cache = [keys |-> {}, fetchedAt |-> NoTime]
    /\ threads = [t \in Threads |-> NewThread]
    /\ clock = 0

In(t, pc) == threads[t].pc = pc
Cred(t) == threads[t].cred

(* A call that is resolved leaves nothing behind. *)
After(t, pc) ==
    IF pc \in Resolved THEN [NewThread EXCEPT !.pc = pc] ELSE [threads[t] EXCEPT !.pc = pc]

Turn(t, pc) == threads' = [threads EXCEPT ![t] = After(t, pc)]

(* The look at a source is over, and what it was for goes on. *)
Leave(t, pc) == threads' = [threads EXCEPT ![t] =
    [After(t, pc) EXCEPT !.at = NoTime, !.stat = NoTime, !.doc = {}]]

(* Since less than the interval. *)
Recent(moment, interval) == moment # NoTime /\ clock - moment < interval

Present(t, c) ==
    /\ threads[t].pc \in Resolved
    /\ threads' = [threads EXCEPT ![t] =
           [NewThread EXCEPT !.pc = "key", !.cred = c, !.since = clock]]
    /\ UNCHANGED <<setup, issuer, source, cache, feed, clock>>

-----------------------------------------------------------------------------
(* _key_for and _refresh: the key set, fetched for an id that is not in it *)

(* Defect: a feed is asked whether it is stale before it is asked to refresh. *)
VerifiedStaleFirst == IF setup.feed = "none" THEN "admitted" ELSE "stale"

(* _check_revocation: refresh first, then ask whether the feed is stale. *)
Verified == IF setup.feed = "none" THEN "admitted" ELSE "look"

Known(t) == setup.keys = "static" \/ KidOf[Cred(t)] \in cache.keys

FindKey(t) ==
    /\ In(t, "key")
    /\ Turn(t, IF Known(t) THEN Verified ELSE "due")
    /\ UNCHANGED <<setup, issuer, source, cache, feed, clock>>

(* A stream of unknown ids causes one fetch per interval. *)
DueFetch(t) ==
    /\ In(t, "due")
    /\ threads' = [threads EXCEPT ![t].pc = IF Recent(cache.fetchedAt, MinRefresh)
                                            THEN "again" ELSE "mark",
                                  ![t].at = clock]
    /\ UNCHANGED <<setup, issuer, source, cache, feed, clock>>

MarkFetched(t) ==
    /\ In(t, "mark")
    /\ cache' = [cache EXCEPT !.fetchedAt = threads[t].at]
    /\ Turn(t, "fetch")
    /\ UNCHANGED <<setup, issuer, source, feed, clock>>

(* A failed fetch refuses this call, and leaves the keys as they were. *)
Fetch(t) ==
    /\ In(t, "fetch")
    /\ \/ /\ source.up
          /\ threads' = [threads EXCEPT ![t].pc = "install",
                                        ![t].doc = {k \in Kids : issuer[k] # NoTime}]
       \/ ~source.up /\ Leave(t, "unknown")
    /\ UNCHANGED <<setup, issuer, source, cache, feed, clock>>

(* The set is replaced, by whichever fetch comes back last. *)
Install(t) ==
    /\ In(t, "install")
    /\ cache' = [cache EXCEPT !.keys = threads[t].doc]
    /\ Turn(t, "again")
    /\ UNCHANGED <<setup, issuer, source, feed, clock>>

FindAgain(t) ==
    /\ In(t, "again")
    /\ Leave(t, IF Known(t) THEN Verified ELSE "unknown")
    /\ UNCHANGED <<setup, issuer, source, cache, feed, clock>>

-----------------------------------------------------------------------------
(* refresh of a feed: at the start of the check, and again inside revoked *)

(* PollingRevocationFeed: not again within the interval. *)
LookAtInterval(t) ==
    /\ In(t, "look") /\ setup.feed = "poll"
    /\ \/ Recent(feed.polledAt, PollInterval) /\ Leave(t, threads[t].then)
       \/ /\ ~Recent(feed.polledAt, PollInterval)
          /\ threads' = [threads EXCEPT ![t].pc = "polled", ![t].at = clock]
    /\ UNCHANGED <<setup, issuer, source, cache, feed, clock>>

MarkPolled(t) ==
    /\ In(t, "polled")
    /\ feed' = [feed EXCEPT !.polledAt = threads[t].at]
    /\ Turn(t, "ask")
    /\ UNCHANGED <<setup, issuer, source, cache, clock>>

(* FileRevocationFeed: again when the modification time has moved. *)
Moved == source.up /\ source.mtime # feed.mtime

LookAtFile(t) ==
    /\ In(t, "look") /\ setup.feed = "file"
    /\ \/ ~Moved /\ Leave(t, threads[t].then)
       \/ /\ Moved
          /\ threads' = [threads EXCEPT ![t].pc = "ask", ![t].at = clock,
                                        ![t].stat = source.mtime]
    /\ UNCHANGED <<setup, issuer, source, cache, feed, clock>>

(* Defect: a source that did not answer counts as read. *)
AskCountingFailure(t) ==
    /\ In(t, "ask")
    /\ threads' = [threads EXCEPT
           ![t].pc = IF setup.feed = "file" THEN "moved" ELSE "consume",
           ![t].doc = IF source.up THEN source.listed ELSE {}]
    /\ UNCHANGED <<setup, issuer, source, cache, feed, clock>>

(* The poll, or the read of the text; where it fails _read_at stays where it was. *)
Ask(t) ==
    /\ In(t, "ask")
    /\ \/ /\ source.up
          /\ threads' = [threads EXCEPT
                 ![t].pc = IF setup.feed = "file" THEN "moved" ELSE "consume",
                 ![t].doc = source.listed]
       \/ ~source.up /\ Leave(t, threads[t].then)
    /\ UNCHANGED <<setup, issuer, source, cache, feed, clock>>

(* _mtime is set to what was seen before the text was read, and before it is consumed. *)
MarkMoved(t) ==
    /\ In(t, "moved")
    /\ feed' = [feed EXCEPT !.mtime = threads[t].stat]
    /\ Turn(t, "consume")
    /\ UNCHANGED <<setup, issuer, source, cache, clock>>

(* One event; nothing is ever taken out again. *)
Consume(t, c) ==
    /\ In(t, "consume") /\ c \in threads[t].doc
    /\ feed' = [feed EXCEPT !.revoked = feed.revoked \cup {c}]
    /\ threads' = [threads EXCEPT ![t].doc = threads[t].doc \ {c}]
    /\ UNCHANGED <<setup, issuer, source, cache, clock>>

(* _read_at: a poll is dated by its beginning, a file by its end. *)
Stamp(t) ==
    /\ In(t, "consume") /\ threads[t].doc = {}
    /\ feed' = [feed EXCEPT !.readAt = IF setup.feed = "file" THEN clock ELSE threads[t].at]
    /\ Leave(t, threads[t].then)
    /\ UNCHANGED <<setup, issuer, source, cache, clock>>

(* stale: never read is stale too. *)
Stale == feed.readAt = NoTime \/ clock - feed.readAt > MaxStaleness

CheckStale(t) ==
    /\ In(t, "stale")
    /\ \/ Stale /\ Turn(t, "outdated")
       \/ /\ ~Stale
          /\ threads' = [threads EXCEPT ![t].pc = "look", ![t].then = "lookup",
                                        ![t].since = clock]
    /\ UNCHANGED <<setup, issuer, source, cache, feed, clock>>

LookUp(t) ==
    /\ In(t, "lookup")
    /\ Turn(t, IF Cred(t) \in feed.revoked THEN "revoked" ELSE "admitted")
    /\ UNCHANGED <<setup, issuer, source, cache, feed, clock>>

-----------------------------------------------------------------------------
(* The issuer, its transmitter, and time *)

Rotates(k) ==
    /\ issuer' = [issuer EXCEPT ![k] = IF issuer[k] = NoTime THEN clock ELSE NoTime]
    /\ UNCHANGED <<setup, source, cache, feed, threads, clock>>

(* The modification time, which only a file has. *)
Written == IF setup.feed = "file" THEN clock ELSE source.mtime

RevokesCredential(c) ==
    /\ source.revoked[c] = NoTime
    /\ source' = [source EXCEPT !.revoked[c] = clock, !.listed = source.listed \cup {c},
                                !.mtime = Written]
    /\ UNCHANGED <<setup, issuer, cache, feed, threads, clock>>

(* What was delivered may be dropped from the source, or sent once more. *)
RewritesSource ==
    /\ \E old \in SUBSET feed.revoked :
          source' = [source EXCEPT !.listed = source.listed \ old, !.mtime = Written]
    /\ UNCHANGED <<setup, issuer, cache, feed, threads, clock>>

GoesDownOrUp ==
    /\ source' = [source EXCEPT !.up = ~source.up, !.downAt = clock]
    /\ UNCHANGED <<setup, issuer, cache, feed, threads, clock>>

ClockTicks ==
    /\ clock < LastMoment
    /\ \A t \in Threads : threads[t].at # NoTime => clock - threads[t].at < Slowness
    /\ clock' = clock + 1
    /\ UNCHANGED <<setup, issuer, source, cache, feed, threads>>

Resolves(t) ==
    \/ FindKey(t) \/ DueFetch(t) \/ MarkFetched(t) \/ Fetch(t) \/ Install(t) \/ FindAgain(t)
    \/ LookAtInterval(t) \/ MarkPolled(t) \/ LookAtFile(t) \/ Ask(t) \/ MarkMoved(t)
    \/ \E c \in Credentials : Consume(t, c)
    \/ Stamp(t) \/ CheckStale(t) \/ LookUp(t)

IdentityNext ==
    \/ \E t \in Threads, c \in Credentials : Present(t, c)
    \/ \E t \in Threads : Resolves(t)
    \/ \E k \in Kids : Rotates(k)
    \/ \E c \in Credentials : RevokesCredential(c)
    \/ RewritesSource \/ GoesDownOrUp \/ ClockTicks

IdentitySpec == IdentityInit /\ [][IdentityNext]_identityVars

-----------------------------------------------------------------------------
(* Properties *)

(* No credential is admitted once its revocation has stood in the source for      *)
(* longer than the bound, whatever failed, was rewritten in the same moment, was  *)
(* overtaken or half consumed by another thread (_check_revocation, SPEC-v0.8     *)
(* 6.5).  A file is dated after it was read, so there the read itself adds to it. *)
Slack == IF setup.feed = "file" THEN Slowness ELSE 0

BlindnessIsBounded ==
    [][\A t \in Threads : In(t, "lookup") /\ In(t, "admitted")' =>
          LET written == source.revoked[Cred(t)] IN
          written # NoTime => written >= threads[t].since - MaxStaleness - Slack]_identityVars

(* A call that is not itself slow is turned away, its credential being good, only *)
(* for a cause: the source was down within the interval that limits the asking,   *)
(* another thread is asking just then, the key is no older than that interval and *)
(* a fetch (whose older answer may have come last), or the file, when the call    *)
(* arrived, had not been written for as long as the bound.  So a feed recovers,   *)
(* and a stream of unknown ids does not lock out a new key (_check_revocation,    *)
(* _refresh).                                                                     *)
Troubled(t, interval) ==
    \/ ~source.up
    \/ source.downAt # NoTime /\ source.downAt >= threads[t].since - interval
    \/ \E u \in Threads \ {t} : threads[u].at # NoTime

(* A poll that is slow and ends last dates the feed by its own beginning: the bound *)
(* has to leave room for it and for a call as slow, beside the interval.           *)
Patient == MaxStaleness + 1 >= PollInterval + 2 * Slowness

TurnedAwayForCause ==
    [][\A t \in Threads : clock - threads[t].since <= Slowness =>
          /\ Patient /\ In(t, "stale") /\ In(t, "outdated")' =>
                \/ Troubled(t, PollInterval)
                \/ /\ setup.feed = "file"
                   /\ source.mtime >= threads[t].since \/ clock - source.mtime >= MaxStaleness
          /\ ~In(t, "unknown") /\ In(t, "unknown")' =>
                \/ Troubled(t, MinRefresh)
                \/ issuer[KidOf[Cred(t)]] = NoTime
                \/ issuer[KidOf[Cred(t)]] >= threads[t].since - MinRefresh - Slowness]_identityVars
=============================================================================
