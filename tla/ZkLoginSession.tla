--------------------------- MODULE ZkLoginSession ---------------------------
(***************************************************************************)
(* ZkSession: a login with an ephemeral key.  A JWT of the provider gives  *)
(* the session its address, a prover's answer the key pair that signs for  *)
(* that address, which is filed with the configuration's active group      *)
(* under its profile in use.  The prover is awaited, so the configuration  *)
(* and the session itself may have changed when its answer arrives.        *)
(*                                                                         *)
(* A session is its nonce.  The provider puts it into the JWT with claims  *)
(* about the user; salt and claim name are data.                           *)
(***************************************************************************)
EXTENDS Configuration

CONSTANTS Sessions, Claims, NoJwt, NoPair

VARIABLES
  jwt,      \* session -> _jwt, that _address_seed and _address were computed from
  pair,     \* session -> _keypair
  requests  \* what the prover has been asked: get_proof() awaits an answer

zkVars == <<jwt, pair, requests>>
vars == <<configVars, zkVars>>

Jwts == [nonce : Sessions, claims : Claims]

\* Both are hashes: the seed of the claims, the address of the seed.
SeedOf(j) == <<"seed", j.claims>>
ZkAddress(seed) == <<"zk", seed>>

Init ==
  /\ ConfigInit
  /\ jwt = [s \in Sessions |-> NoJwt]
  /\ pair = [s \in Sessions |-> NoPair]
  /\ requests = {}

Counted == ops < MaxOps /\ ops' = ops + 1

\* Mutant: the nonce is not compared.
ProcessAnyJwt(s, j) ==
  /\ Counted
  /\ jwt' = [jwt EXCEPT ![s] = j]
  /\ UNCHANGED <<groups, active, file, transient, pair, requests>>

\* A JWT that was made for another session is refused.
ProcessJwt(s, j) ==
  /\ Counted
  /\ j.nonce = s
  /\ jwt' = [jwt EXCEPT ![s] = j]
  /\ UNCHANGED <<groups, active, file, transient, pair, requests>>

AskProof(s) ==
  /\ Counted
  /\ jwt[s] # NoJwt
  /\ requests' = requests \union {[session |-> s, jwt |-> jwt[s]]}
  /\ UNCHANGED <<groups, active, file, transient, jwt, pair>>

\* The proof is of the JWT that was sent, the seed of the one the session has now.
\* Mutant: of the one that was sent.
PairSentWith(r) == [session |-> r.session, proof |-> r.jwt, seed |-> SeedOf(r.jwt)]
PairFor(r) == [session |-> r.session, proof |-> r.jwt, seed |-> SeedOf(jwt[r.session])]

\* Without an active group the session has its key pair and the configuration has not.
ProofArrives(r) ==
  /\ Counted
  /\ requests' = requests \ {r}
  /\ pair' = [pair EXCEPT ![r.session] = PairFor(r)]
  /\ IF active \in Names(groups)
       THEN AddTransient(ZkAddress(SeedOf(jwt[r.session])), PairFor(r))
       ELSE UNCHANGED transient
  /\ UNCHANGED <<groups, active, file, jwt>>

ProofFails(r) ==
  /\ Counted
  /\ requests' = requests \ {r}
  /\ UNCHANGED <<groups, active, file, transient, jwt, pair>>

\* The process ends with its sessions.
Restart ==
  /\ AnyReopen
  /\ jwt' = [s \in Sessions |-> NoJwt]
  /\ pair' = [s \in Sessions |-> NoPair]
  /\ requests' = {}

Next ==
  \/ ops < MaxOps /\ ConfigStep /\ UNCHANGED zkVars
  \/ Restart
  \/ \E s \in Sessions, j \in Jwts : ProcessJwt(s, j)
  \/ \E s \in Sessions : AskProof(s)
  \/ \E r \in requests : ProofArrives(r) \/ ProofFails(r)

Spec == Init /\ [][Next]_vars
------------------------------------------------------------------------------
(***************************************************************************)
(* get_signatures(): the key pair of an address in the active group, one   *)
(* that was filed for it before one of the group's own.                    *)
(***************************************************************************)
Filed(address) ==
  {x \in transient : /\ x.group = active /\ x.profile = Get(active).profile
                     /\ x.address = address}

SignerSeed(address) ==
  IF Filed(address) # {} THEN (CHOOSE x \in Filed(address) : TRUE).keypair.seed
  ELSE Get(active).keys[Index(Get(active).addresses, address)]

Derives(secret, address) == address \in {AddressOf(secret), ZkAddress(secret)}

(***************************************************************************)
(* Whoever can sign signs with the secret the address was derived from,    *)
(* whatever group and JWT came and went while the prover was awaited.      *)
(***************************************************************************)
SignsWithOwnKey ==
  active \in Names(groups) =>
    \A address \in Values(Get(active).addresses) \union {x.address : x \in transient} :
      Filed(address) # {} \/ address \in Values(Get(active).addresses)
        => Derives(SignerSeed(address), address)

(***************************************************************************)
(* A filed key pair holds a proof for its own ephemeral key: it is good    *)
(* for the session it came from, even if two sessions share an address.    *)
(***************************************************************************)
ProofBindsKey == \A x \in transient : x.keypair.proof.nonce = x.keypair.session
=============================================================================
