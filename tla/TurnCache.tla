----------------------------- MODULE TurnCache -----------------------------
(***************************************************************************)
(* GET /api/turn-credentials of the signaling server: one cached set of    *)
(* credentials, shared by handlers that overlap, since each awaits the     *)
(* provider's answer between reading the clock and storing the result.     *)
(* Time is in hours or any other unit that makes the constants integers.   *)
(***************************************************************************)
EXTENDS Naturals

CONSTANTS
  Requests,   (* overlapping requests                                      *)
  Ttl,        (* TURN_TTL_SECONDS                                          *)
  Threshold,  (* REFRESH_THRESHOLD_MS                                      *)
  FetchMax,   (* the HTTP client gives up on an answer after this long     *)
  MaxTime     (* bound on the clock                                        *)

ASSUME TtlAssumption ==
  /\ {Ttl, Threshold, FetchMax, MaxTime} \subseteq Nat
  /\ FetchMax < Ttl

VARIABLES
  clock,   (* Date.now()                                                   *)
  cache,   (* cachedIceServers with cacheExpiryTime: when the credentials  *)
           (* stop working (real), and when the server thinks they do      *)
  req,     (* a handler: idle, or waiting with the time it read, and the   *)
           (* credentials the provider has made for it meanwhile           *)
  served   (* the last answer: when, and with which credentials            *)

turnVars == <<clock, cache, req, served>>

None == [real |-> 0, expires |-> 0]
Idle == [asked |-> 0, minted |-> 0, waits |-> FALSE]

TurnInit ==
  /\ clock  = 0
  /\ cache  = None
  /\ req    = [r \in Requests |-> Idle]
  /\ served = [when |-> 0, creds |-> [real |-> 1, expires |-> 1]]

Answer(creds) == served' = [when |-> clock, creds |-> creds]

Fresh == cache # None /\ cache.expires > clock + Threshold

CacheHit(r) ==
  /\ ~req[r].waits /\ Fresh
  /\ Answer(cache)
  /\ UNCHANGED <<clock, cache, req>>

(* Nothing fresh: `now` was read, the request goes out. *)
Ask(r) ==
  /\ ~req[r].waits /\ ~Fresh
  /\ req' = [req EXCEPT ![r] = [asked |-> clock, minted |-> 0, waits |-> TRUE]]
  /\ UNCHANGED <<clock, cache, served>>

(* The provider makes credentials for a Ttl from now. *)
Mint(r) ==
  /\ req[r].waits /\ req[r].minted = 0
  /\ req' = [req EXCEPT ![r].minted = clock + Ttl]
  /\ UNCHANGED <<clock, cache, served>>

Fetched_DatedOnArrival(r) == [real |-> req[r].minted, expires |-> clock + Ttl]
Fetched(r) == [real |-> req[r].minted, expires |-> req[r].asked + Ttl]

Store(r) ==
  /\ req[r].waits /\ req[r].minted # 0
  /\ cache' = Fetched(r)
  /\ Answer(Fetched(r))
  /\ req'   = [req EXCEPT ![r] = Idle]
  /\ UNCHANGED clock

(* The provider failed: what is cached by now, if it still works. *)
Usable == cache # None /\ cache.expires > clock

Fallback(r) ==
  /\ req[r].waits
  /\ \/ Usable /\ Answer(cache)
     \/ ~Usable /\ UNCHANGED served
  /\ req' = [req EXCEPT ![r] = Idle]
  /\ UNCHANGED <<clock, cache>>

Pass ==
  /\ clock < MaxTime
  /\ \A r \in Requests : req[r].waits => clock < req[r].asked + FetchMax
  /\ clock' = clock + 1
  /\ UNCHANGED <<cache, req, served>>

TurnNext ==
  \/ Pass
  \/ \E r \in Requests : CacheHit(r) \/ Ask(r) \/ Mint(r) \/ Store(r) \/ Fallback(r)

-----------------------------------------------------------------------------
TurnTypeOK ==
  /\ clock \in 0 .. MaxTime
  /\ cache \in [real : Nat, expires : Nat]
  /\ req   \in [Requests -> [asked : Nat, minted : Nat, waits : BOOLEAN]]
  /\ served \in [when : Nat, creds : [real : Nat, expires : Nat]]

(* What was served works when it is served, and no longer than the reply's  *)
(* expiresAt promises less: however long the provider took, whoever stored  *)
(* what in between.  (server.js:293, 321, 329)                              *)
ServedWork ==
  /\ served.creds.real > served.when
  /\ served.creds.expires <= served.creds.real
=============================================================================
