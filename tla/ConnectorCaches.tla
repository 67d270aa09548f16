-------------------------- MODULE ConnectorCaches --------------------------
(***************************************************************************)
(* What a connector keeps between calls (internal/provider): the token it  *)
(* minted for a credential that cannot be presented itself (Qoder job      *)
(* token, Google service account), the account behind a token, and, per    *)
(* account, the model configurations Qoder lists and the names it does     *)
(* not.  Reads and writes are under a lock, the calls between them are     *)
(* not, except that one catalogue read per account answers everybody.      *)
(*                                                                         *)
(* A call looks its model up, reads the catalogue or joins who reads it,   *)
(* then signs its own chat request.  One account's vendor list changes     *)
(* while it runs.  Times are ticks; steps that wait for nobody take none.  *)
(***************************************************************************)
EXTENDS Integers, Sequences, FiniteSets

CONSTANTS
  Callers, NoCaller,
  Accounts,     \* endpoints; the vendor's answers differ per account
  Personal,     \* those whose secret is exchanged before it signs anything
  Models,
  Service,      \* service accounts: their calls need the token and nothing else
  FirstListed,  \* what the vendor lists for each account at first
  Lives,        \* the lifetimes vendors state, as [by, ticks]; by "nothing" is the default
  Buffer,       \* how long before its end a token is no longer reused
  ExchangeMax,  \* the bound of one exchange or identity read
  IdentityTTL, CatalogTTL, MissTTL,
  FetchMax,     \* the bound of one catalogue read, its signing included
  MaxMisses,    \* how many refused names are remembered
  MaxNow, MaxAsks, MaxFlips, MaxFaults

ConnectorCachesAssumption ==
  /\ NoCaller \notin Callers /\ Service \subseteq Personal /\ Personal \subseteq Accounts
  /\ \A life \in Lives : life.by \in {"at", "in", "nothing"} /\ life.ticks \in Nat
  /\ {Buffer, ExchangeMax, IdentityTTL, CatalogTTL, MissTTL, FetchMax, MaxNow, MaxAsks, MaxFlips, MaxFaults}
       \subseteq Nat
  /\ FirstListed \in [Accounts -> SUBSET Models] /\ MaxMisses \in Nat \ {0}

VARIABLES
  clock,
  minted,    \* per account the token kept: [born, dies, until], until already less the buffer
  known,     \* per account the token whose owner was read, when, and whether one was named
  configs,   \* <<scope, model>> -> when the configuration was stored
  misses,    \* <<scope, model>> -> when the refused call began
  reading,   \* scope -> the caller whose read is in flight
  call,
  listed,    \* what the vendor lists for an account now
  seen,      \* per account and model, when it was last listed, and last not: the vendor did not
             \* list it, or answered a body it could not be read from
  flips,
  asks,      \* calls made
  misfortunes \* vendors that failed, clients that left

cacheVars == <<clock, minted, known, configs, misses, reading, call, listed, seen, flips, asks, misfortunes>>

Nothing == -1
NoModel == "token"
Never == -1 - (IdentityTTL + CatalogTTL + MissTTL + FetchMax)   \* longer ago than any of them
Keys == Accounts \X Models
\* The host follows the kind of credential, the scope is the account on that host.
Scope(a) == [host |-> IF a \in Personal THEN "job" ELSE "device", account |-> a]
Scopes == {Scope(a) : a \in Accounts}
NoToken == [born |-> Nothing, dies |-> Nothing, until |-> Nothing]
Idle == [at |-> "idle", account |-> "", model |-> NoModel, goal |-> "chat", read |-> NoCaller,
         began |-> 0, since |-> 0, stamp |-> 0, ok |-> FALSE, list |-> {}, token |-> NoToken,
         reused |-> FALSE, true |-> TRUE]

Init ==
  /\ clock = 0 /\ flips = 0 /\ asks = 0 /\ misfortunes = 0
  /\ minted = [a \in Accounts |-> NoToken]
  /\ known = [a \in Accounts |-> [born |-> Nothing, at |-> Never, named |-> FALSE]]
  /\ configs = [k \in Scopes \X Models |-> Never] /\ misses = [k \in Scopes \X Models |-> Never]
  /\ reading = [s \in Scopes |-> NoCaller]
  /\ call = [c \in Callers |-> Idle]
  /\ listed = FirstListed
  /\ seen = [k \in Keys |-> [listed |-> IF k[2] \in listed[k[1]] THEN 0 ELSE Never,
                             missing |-> IF k[2] \in listed[k[1]] THEN Never ELSE 0]]

Move(c, next) == call' = [call EXCEPT ![c] = next]
KeyOf(r) == <<Scope(r.account), r.model>>
\* What a call is told of its model, and whether that was so not longer ago than this.
WasSo(r, what, age) == clock - seen[<<r.account, r.model>>][what] <= age
Fault == misfortunes < MaxFaults /\ misfortunes' = misfortunes + 1
Over(truth) == [Idle EXCEPT !.true = truth]

-----------------------------------------------------------------------------
(* Signing: the token, and the account the token belongs to.  Each of      *)
(* these answers what the call r is next.                                  *)

\* A failure while signing the catalogue read is that read's failure.
Failed(r) == IF r.goal = "list" THEN [r EXCEPT !.at = "publish", !.token = NoToken, !.since = 0]
                                ELSE Over(TRUE)
\* A token taken from the cache outlives the request it signs by what the buffer leaves.
Lasts(token, reused) == reused => token.dies - clock > Buffer - (2 * ExchangeMax)
Signed(r, token, reused) ==
  IF r.goal = "list" THEN [r EXCEPT !.at = "list", !.token = NoToken, !.since = 0]
                     ELSE Over(r.true /\ Lasts(token, reused))

\* Only Qoder signs as an account; what it reads is kept by token, an answer that names
\* nobody like any other, and nothing is signed with that.
Remembered(a, token) == known[a].born = token.born /\ clock - known[a].at < IdentityTTL
Identified(r, token, reused) ==
  IF r.model = NoModel THEN Signed(r, token, reused)
  ELSE IF Remembered(r.account, token)
  THEN IF known[r.account].named THEN Signed(r, token, reused) ELSE Failed(r)
  ELSE [r EXCEPT !.at = "whoami", !.since = clock, !.token = token, !.reused = reused]

Usable(token) == clock < token.until
Signing(r) ==
  IF r.account \notin Personal THEN Signed(r, NoToken, FALSE)
  ELSE IF Usable(minted[r.account]) THEN Identified(r, minted[r.account], TRUE)
  ELSE [r EXCEPT !.at = "exchange", !.since = clock]

\* A stated end is exact; a stated lifetime is counted from the answer, not from the minting.
ValidUntil(life, born) == (IF life.by = "at" THEN born ELSE clock) + life.ticks - Buffer
Exchange(c) ==
  /\ call[c].at = "exchange"
  /\ \/ /\ Fault /\ Move(c, Failed(call[c]))
        /\ UNCHANGED minted
     \/ \E life \in Lives :
          LET born == call[c].since
              token == [born |-> born, dies |-> born + life.ticks, until |-> ValidUntil(life, born)]
          IN /\ minted' = [minted EXCEPT ![call[c].account] = token]
             /\ Move(c, Identified(call[c], token, FALSE))
             /\ UNCHANGED misfortunes
  /\ UNCHANGED <<clock, known, configs, misses, reading, listed, seen, flips, asks>>
FetchAccount(c) ==
  /\ call[c].at = "whoami"
  /\ \/ /\ Fault /\ Move(c, Failed(call[c]))
        /\ UNCHANGED known
     \/ \E named \in BOOLEAN :
          /\ known' = [known EXCEPT ![call[c].account] =
                         [born |-> call[c].token.born, at |-> clock, named |-> named]]
          /\ Move(c, IF named THEN Signed(call[c], call[c].token, call[c].reused) ELSE Failed(call[c]))
          /\ IF named THEN UNCHANGED misfortunes ELSE Fault
  /\ UNCHANGED <<clock, minted, configs, misses, reading, listed, seen, flips, asks>>

-----------------------------------------------------------------------------
(* The lookup: a stored configuration, a remembered refusal, or a read.    *)

Fresh(stored, ttl) == clock - stored <= ttl
\* The chat request is signed once its model is configured.
Configured(r) ==
  Signing([r EXCEPT !.goal = "chat", !.read = NoCaller, !.began = 0, !.stamp = 0,
                    !.ok = FALSE, !.list = {}, !.true = WasSo(r, "listed", CatalogTTL + FetchMax)])
Refused(r) == Over(WasSo(r, "missing", MissTTL + FetchMax))

Wanted(a) == IF a \in Service THEN {NoModel} ELSE Models

\* The refusal that aged out is dropped by the call that finds it.
Ask(c, a, m) ==
  LET r == [Idle EXCEPT !.account = a, !.model = m] IN
  /\ call[c].at = "idle" /\ asks < MaxAsks /\ asks' = asks + 1
  /\ IF m = NoModel THEN Move(c, Signing(r)) /\ UNCHANGED misses
     ELSE IF Fresh(configs[KeyOf(r)], CatalogTTL) THEN Move(c, Configured(r)) /\ UNCHANGED misses
     ELSE IF Fresh(misses[KeyOf(r)], MissTTL) THEN Move(c, Refused(r)) /\ UNCHANGED misses
     ELSE /\ Move(c, [r EXCEPT !.at = "begin", !.stamp = clock])
          /\ misses' = [misses EXCEPT ![KeyOf(r)] = Never]
  /\ UNCHANGED <<clock, minted, known, configs, reading, listed, seen, flips, misfortunes>>

\* Whoever finds a read of this account in flight joins it.
BeginFetch(c) ==
  LET scope == Scope(call[c].account) IN
  /\ call[c].at = "begin"
  /\ IF reading[scope] # NoCaller
     THEN /\ Move(c, [call[c] EXCEPT !.at = "wait", !.read = reading[scope]])
          /\ UNCHANGED reading
     ELSE /\ reading' = [reading EXCEPT ![scope] = c]
          /\ Move(c, Signing([call[c] EXCEPT !.goal = "list", !.read = c, !.began = clock]))
  /\ UNCHANGED <<clock, minted, known, configs, misses, listed, seen, flips, asks, misfortunes>>

-----------------------------------------------------------------------------
(* The catalogue read of the one who leads, and what it leaves the others. *)

\* The list is the vendor's as it answers, but any body of a 200 is taken for one: of an
\* error document, or of a list cut at the limit, nothing can be read, and of groups and
\* entries of another shape a part.  A read may fail, or panic.
LeftOut(a, list) ==
  [k \in Keys |-> IF k[1] = a /\ k[2] \notin list THEN [seen[k] EXCEPT !.missing = clock] ELSE seen[k]]
FetchCatalog(c) ==
  LET done == [call[c] EXCEPT !.at = "publish"]
      a    == call[c].account
  IN
  /\ call[c].at = "list"
  /\ \/ /\ Move(c, [done EXCEPT !.ok = TRUE, !.list = listed[a]])
        /\ UNCHANGED <<misfortunes, seen>>
     \/ \E part \in SUBSET listed[a] :
          /\ Fault /\ Move(c, [done EXCEPT !.ok = TRUE, !.list = part])
          /\ seen' = LeftOut(a, part)
     \/ Fault /\ Move(c, done) /\ UNCHANGED seen
     \/ Fault /\ Move(c, [done EXCEPT !.goal = "panic"]) /\ UNCHANGED seen
  /\ UNCHANGED <<clock, minted, known, configs, misses, reading, listed, flips, asks>>

\* The read leaves the table before it is published, so nobody joins a finished one; one that
\* panicked is published like any other before the panic travels on.
PublishesAnswers(c) == call[c].goal # "panic"
Publishes(c) == TRUE
Judging(r, read) == [r EXCEPT !.at = "judge", !.read = NoCaller, !.goal = "chat", !.began = 0,
                              !.ok = read.ok, !.list = read.list]
Awaits(d, c) == call[d].at = "wait" /\ call[d].read = c
CompleteFetch(c) ==
  LET scope == Scope(call[c].account)
      own == IF call[c].goal = "panic" THEN Over(TRUE) ELSE Judging(call[c], call[c])
  IN /\ call[c].at = "publish"
     /\ IF ~Publishes(c) THEN Move(c, own) /\ UNCHANGED reading
        ELSE IF reading[scope] = c
        THEN /\ reading' = [reading EXCEPT ![scope] = NoCaller]
             /\ UNCHANGED call
        ELSE /\ call' = [d \in Callers |-> IF d = c THEN own
                                          ELSE IF Awaits(d, c) THEN Judging(call[d], call[c])
                                          ELSE call[d]]
             /\ UNCHANGED reading
     /\ UNCHANGED <<clock, minted, known, configs, misses, listed, seen, flips, asks, misfortunes>>

\* A waiter's own client may leave; the read goes on without it.
Leave(c) ==
  /\ call[c].at = "wait"
  /\ Fault /\ Move(c, Over(TRUE))
  /\ UNCHANGED <<clock, minted, known, configs, misses, reading, listed, seen, flips, asks>>

\* A full set of refusals loses what aged out, and everything when nothing did.
Kept(now) ==
  LET held(of) == {k \in DOMAIN of : of[k] # Never}
      swept == [k \in DOMAIN misses |-> IF now - misses[k] > MissTTL THEN Never ELSE misses[k]]
  IN IF Cardinality(held(misses)) < MaxMisses THEN misses
     ELSE IF Cardinality(held(swept)) < MaxMisses THEN swept
     ELSE [k \in DOMAIN misses |-> Never]
Judge(c) ==
  LET r == call[c] IN
  /\ r.at = "judge"
  /\ IF ~r.ok THEN Move(c, Over(TRUE)) /\ UNCHANGED <<configs, misses>>
     ELSE IF r.model \in r.list
     THEN /\ configs' = [configs EXCEPT ![KeyOf(r)] = clock]
          /\ Move(c, Configured(r))
          /\ UNCHANGED misses
     ELSE /\ misses' = [Kept(r.stamp) EXCEPT ![KeyOf(r)] = r.stamp]
          /\ Move(c, Refused(r))
          /\ UNCHANGED configs
  /\ UNCHANGED <<clock, minted, known, reading, listed, seen, flips, asks, misfortunes>>

-----------------------------------------------------------------------------
\* The vendor starts or stops listing a model for one account.
Relist(a, m) ==
  /\ flips < MaxFlips /\ flips' = flips + 1
  /\ listed' = [listed EXCEPT ![a] = (@ \ {m}) \union ({m} \ @)]
  /\ seen' = [seen EXCEPT ![<<a, m>>] = IF m \in listed[a] THEN [@ EXCEPT !.missing = clock]
                                                          ELSE [@ EXCEPT !.listed = clock]]
  /\ UNCHANGED <<clock, minted, known, configs, misses, reading, call, asks, misfortunes>>

\* An exchange is bounded on its own, the catalogue read it signs as a whole.
InTime(c) ==
  \/ call[c].at \in {"idle", "wait"}
  \/ /\ call[c].at \in {"exchange", "whoami", "list"}
     /\ call[c].goal = "list" => clock < call[c].began + FetchMax
     /\ call[c].at # "list" => clock < call[c].since + ExchangeMax
Tick ==
  /\ clock < MaxNow /\ \A c \in Callers : InTime(c)
  /\ clock' = clock + 1
  /\ seen' = [k \in Keys |-> IF k[2] \in listed[k[1]] THEN [seen[k] EXCEPT !.listed = clock + 1]
                                                     ELSE [seen[k] EXCEPT !.missing = clock + 1]]
  /\ UNCHANGED <<minted, known, configs, misses, reading, call, listed, flips, asks, misfortunes>>

Step(c) ==
  \/ BeginFetch(c) \/ Exchange(c) \/ FetchAccount(c) \/ FetchCatalog(c) \/ CompleteFetch(c)
  \/ Leave(c) \/ Judge(c)
Next ==
  \/ \E c \in Callers : Step(c) \/ (\E a \in Accounts : \E m \in Wanted(a) : Ask(c, a, m))
  \/ \E a \in Accounts \ Service, m \in Models : Relist(a, m)
  \/ Tick
Spec == Init /\ [][Next]_cacheVars

-----------------------------------------------------------------------------
\* A caller told that its model is listed was told so of its own account, not longer ago
\* than the copy may live and a read may take; one told that it is not, that the vendor did
\* not list it then, or gave a body it could not be read from; and the token signed with lasts.
ToldTheTruth == \A c \in Callers : call[c].true

\* An account is read once at a time, and whoever waits, waits for a read of its
\* account that somebody runs.
Reads(c) == call[c].goal = "list" /\ call[c].at # "publish"
ReadOnce ==
  /\ \A c, d \in Callers : (c # d /\ Reads(c) /\ Reads(d)) => call[c].account # call[d].account
  /\ \A d \in Callers : call[d].at = "wait" =>
       call[call[d].read].goal # "chat" /\ call[call[d].read].account = call[d].account

\* "Misses carries the model names the vendor refused to that account": a model that is
\* listed all along is never remembered as refused.
MissesAreRefusals ==
  flips = 0 => \A a \in Accounts : \A m \in listed[a] : misses[<<Scope(a), m>>] = Never

CachesSound ==
  /\ ToldTheTruth /\ ReadOnce
  /\ Cardinality({k \in DOMAIN misses : misses[k] # Never}) <= MaxMisses

\* The strengthening of the proof.
Stages == {"idle", "begin", "wait", "exchange", "whoami", "list", "publish", "judge"}
Token == [born : Int, dies : Int, until : Int]
Calling ==
  [at : Stages, account : Accounts \union {""}, model : Models \union {NoModel},
   goal : {"chat", "list", "panic"}, read : Callers \union {NoCaller},
   began : Nat, since : Nat, stamp : Nat, ok : BOOLEAN, list : SUBSET Models, token : Token,
   reused : BOOLEAN, true : BOOLEAN]
Times == [Scopes \X Models -> Int]
TypeOK ==
  /\ clock \in Nat /\ minted \in [Accounts -> Token] /\ known \in [Accounts -> [born : Int, at : Int, named : BOOLEAN]]
  /\ configs \in Times /\ misses \in Times /\ reading \in [Scopes -> Callers \union {NoCaller}]
  /\ call \in [Callers -> Calling] /\ listed \in [Accounts -> SUBSET Models]
  /\ seen \in [Keys -> [listed : Int, missing : Int]]

\* What is listed was last seen listed now, and a copy is no younger than what it copied.
SeenNow ==
  \A k \in Keys :
    /\ Never <= seen[k].listed /\ seen[k].listed <= clock
    /\ Never <= seen[k].missing /\ seen[k].missing <= clock
    /\ IF k[2] \in listed[k[1]] THEN seen[k].listed = clock ELSE seen[k].missing = clock
CopiesTrue ==
  \A a \in Accounts, m \in Models :
    /\ configs[<<Scope(a), m>>] <= seen[<<a, m>>].listed
    /\ misses[<<Scope(a), m>>] <= seen[<<a, m>>].missing
\* The buffer less the exchange that was counted into the lifetime.
Outlives(token, now) == token.dies - now > Buffer - ExchangeMax
TokensLast ==
  \A a \in Accounts :
    minted[a].until <= 0 \/ minted[a].until <= minted[a].dies + ExchangeMax - Buffer
\* A list somebody has in hand is the vendor's of this moment.
Hears(a, list) ==
  \A m \in Models : IF m \in list THEN seen[<<a, m>>].listed = clock ELSE seen[<<a, m>>].missing = clock
Honest(r) ==
  /\ r.true /\ r.stamp <= clock
  /\ r.at # "idle" => r.account \in Accounts
  /\ r.at \in {"begin", "wait", "judge"} => r.goal = "chat" /\ r.model \in Models
  /\ r.at \in {"exchange", "whoami"} => r.goal # "panic" /\ clock <= r.since + ExchangeMax
  /\ r.at = "whoami" /\ r.reused => Outlives(r.token, r.since)
  /\ r.at = "list" => r.goal = "list"
  /\ r.at = "publish" => r.goal # "chat"
  /\ r.at = "idle" => r.goal = "chat"
  /\ r.goal # "chat" => r.model \in Models
  /\ r.ok => r.at \in {"publish", "judge"} /\ Hears(r.account, r.list)
\* Whoever reads is who the table names, and whoever waits, waits for a reader.
Leads(c) == call[c].goal = "list" /\ call[c].at # "publish" => reading[Scope(call[c].account)] = c
Named(s) == reading[s] # NoCaller => call[reading[s]].goal # "chat" /\ Scope(call[reading[s]].account) = s
Waits(c) ==
  call[c].at = "wait" =>
    /\ call[c].read \in Callers /\ call[call[c].read].goal # "chat"
    /\ call[call[c].read].account = call[c].account
Held(of) == {k \in DOMAIN of : of[k] # Never}
CachesInv ==
  /\ TypeOK /\ SeenNow /\ CopiesTrue /\ TokensLast
  /\ \A c \in Callers : Honest(call[c]) /\ Leads(c) /\ Waits(c)
  /\ \A s \in Scopes : Named(s)
  /\ IsFiniteSet(Held(misses)) /\ Cardinality(Held(misses)) <= MaxMisses
=============================================================================
