-------------------------------- MODULE Wire --------------------------------
(***************************************************************************)
(* One message on its way: the browser or another program asks for an      *)
(* operation, the client library builds it (Client), the wallet signs the  *)
(* compiled message, the server reads it to record who did what            *)
(* (backend/src/activity/decode.rs), and the program runs it (Onchain).    *)
(* Each of them reads the same bytes with tables of its own; the           *)
(* properties say that they read the same thing.                           *)
(***************************************************************************)
EXTENDS Onchain

CONSTANTS Senders,     \* who makes messages: "app", "plugin", "other"
          Wallets,     \* addresses that sign, Admin among them
          Mints,       \* Token-2022 mints
          Nonces,      \* nonces of new agreements
          MaxVersion,  \* bound: versions of a policy
          MaxOffers    \* bound: agreements on the ledger

ASSUME WireAssumption ==
    /\ Senders \subseteq {"app", "plugin", "other"}
    /\ Admin \in Wallets /\ MaxVersion \in Nat /\ MaxOffers \in Nat
    /\ \A w \in Wallets : w[1] = "wallet"
    /\ \A m \in Mints : m[1] = "mint" /\ m # Usdc

VARIABLES ledger,    \* the program's accounts: address -> bytes
          seen,      \* the agreement the browser fetched last: [key, bytes], or None
          request,   \* what was asked for: [op, actor, input, by], or None
          message,   \* the compiled message, or None
          intent,    \* what the server made of it
          ran        \* what the ledger made of the last message

wireVars == <<ledger, seen, request, message, intent, ran>>

Unread == [kind |-> "unread"]
Refused == [kind |-> "refused"]
NotOurs == [kind |-> "not ours"]
Idle == [kind |-> "idle"]
Unlisted == "unlisted"    \* an instruction that has no operation in the server

(***************************************************************************)
(* Requests: the accounts and arguments the app gives for an operation.    *)
(***************************************************************************)
Terms(side, designated, nonce) ==
    [ nonce |-> nonce, side |-> side, designatedCounterparty |-> designated,
      quantityRaw |-> 3, payout |-> 5, premium |-> 2, acceptBefore |-> 7, expiresAt |-> 9 ]

CreateInput(actor, mint, terms) ==
    [ creator |-> actor, creatorUsdc |-> TokenAccount(actor, Usdc), underlyingMint |-> mint, usdcMint |-> Usdc ]
      ++ terms ++ ProtocolAddresses(mint, actor, terms.nonce)

\* fetchAgreement: nothing is built on bytes that do not decode.
Fetched == DecodeAccount(seen.bytes)
SeenAddresses ==
    LET g == Fetched.value IN ProtocolAddresses(g.underlyingMint, g.creator, g.nonce)

UsesSeen(op, actor) ==
    LET g == Fetched.value
        is(status) == g.status = AgreementStatus[status]
        refund == IF op = "cancelOffer" \/ is("Cancelled") THEN Some(g.creator) ELSE g.writer
        invited == /\ is("Open") /\ g.creator # actor
                   /\ g.designatedCounterparty \in {None, Some(actor)}
    IN  CASE op = "activate" -> invited /\ g.side = OfferSide.Writer
          [] op = "acceptRequest" -> invited /\ g.side = OfferSide.Holder
          [] op = "exercise" -> is("Active") /\ g.holder = Some(actor)
          [] op = "cancelOffer" -> is("Open") /\ refund = Some(actor)
          [] op = "reclaimExpired" -> is("Active") /\ refund = Some(actor)
          [] op = "cleanupTerminal" -> /\ is("Exercised") \/ is("Cancelled") \/ is("Expired")
                                       /\ refund = Some(actor)
          [] OTHER -> FALSE

\* The accounts of each builder's input, by the role the actor has in it.
SeenInput(op, actor) ==
    LET g == Fetched.value
        mine == TokenAccount(actor, Usdc)
        common == [usdcMint |-> Usdc, underlyingMint |-> g.underlyingMint] ++ SeenAddresses
    IN  CASE op = "activate" ->
               [holder |-> actor, holderUsdc |-> mine, writerUsdc |-> TokenAccount(g.writer[1], Usdc)] ++ common
          [] op = "acceptRequest" -> [writer |-> actor, writerUsdc |-> mine] ++ common
          [] op = "exercise" ->
               [holder |-> actor, holderUsdc |-> mine,
                holderUnderlying |-> TokenAccount(actor, g.underlyingMint)] ++ common
          [] OTHER -> [actor |-> actor, actorUsdc |-> mine] ++ common

PolicyTerms(enabled) == [enabled |-> enabled, reviewedUntil |-> 8, maxExpiry |-> 9]

AdminInput(op, mint) ==
    IF op = "initialize"
    THEN [authority |-> Admin, usdcMint |-> Usdc, programData |-> ProgramDataPda, config |-> ConfigPda]
    ELSE [authority |-> Admin, mint |-> mint, config |-> ConfigPda, policy |-> PolicyPda(mint)]
           ++ PolicyTerms(op = "createAssetPolicy")

Offers == {k \in DOMAIN ledger : Holds(ledger, k, "Agreement")}

Requests ==
    LET creates == IF Holds(ledger, ConfigPda, "ProtocolConfig")
                   THEN { [op |-> "createOffer", actor |-> w, input |-> CreateInput(w, m, Terms(side, d, n))] :
                            w \in Wallets, m \in {k \in Mints : PolicyPda(k) \in DOMAIN ledger},
                            side \in {OfferSide.Writer, OfferSide.Holder}, n \in Nonces,
                            d \in {None} \cup {Some(v) : v \in Wallets} }
                   ELSE {}
        others == IF seen = None \/ ~Fetched.ok THEN {}
                  ELSE { [op |-> p[1], actor |-> p[2], input |-> SeenInput(p[1], p[2])] :
                           p \in {q \in Operations \X Wallets : UsesSeen(q[1], q[2])} }
        admin == { [op |-> op, actor |-> Admin, input |-> AdminInput(op, m)] :
                     op \in IF ConfigPda \in DOMAIN ledger THEN {"createAssetPolicy", "updateAssetPolicy"}
                            ELSE {"initialize"},
                     m \in Mints }
    IN  { r \in creates : /\ r.input.designatedCounterparty # Some(r.actor)
                          /\ Cardinality(Offers \cup {r.input.agreement}) <= MaxOffers } \cup others
        \cup { r \in admin : r.op = "updateAssetPolicy" =>
                 /\ PolicyPda(r.input.mint) \in DOMAIN ledger
                 /\ Load(ledger, r.input.policy, "AssetPolicy").version < MaxVersion }

\* The names a plugin's caller may leave to the builder.
Derivable(op) ==
    CASE op = "createOffer" -> {"config", "policy", "reserve", "settlement"}
      [] op \in {"createAssetPolicy", "updateAssetPolicy"} -> {"config", "policy"}
      [] op = "initialize" -> {"programData", "config"}
      [] op \in {"exercise", "cleanupTerminal"} -> {"reserve", "settlement"}
      [] op \in {"activate", "acceptRequest", "cancelOffer", "reclaimExpired"} -> {"reserve"}
Given(input, left) == [n \in DOMAIN input \ left |-> input[n]]

(***************************************************************************)
(* A legacy message: each account once, with every right any mention of it *)
(* has; the fee payer first, a signer and writable.                        *)
(***************************************************************************)
Compile(payer, ixs) ==
    LET metas == UNION { {ixs[i].accounts[j] : j \in 1..Len(ixs[i].accounts)} : i \in 1..Len(ixs) }
    IN  [ payer    |-> payer,
          signers  |-> {payer} \cup {x.key : x \in {y \in metas : y.signer}},
          writable |-> {payer} \cup {x.key : x \in {y \in metas : y.writable}},
          ixs      |-> [i \in 1..Len(ixs) |->
                         [program |-> ixs[i].program,
                          accounts |-> [j \in 1..Len(ixs[i].accounts) |-> ixs[i].accounts[j].key],
                          data |-> ixs[i].data]] ]

(***************************************************************************)
(* The server's reading of a message it is asked to relay.                 *)
(***************************************************************************)
Operation(op) ==
    CASE op = "createOffer" -> "Create"
      [] op \in {"activate", "acceptRequest"} -> "Activate"
      [] op = "exercise" -> "Exercise"
      [] op = "cancelOffer" -> "Cancel"
      [] op = "reclaimExpired" -> "Reclaim"
      [] op = "cleanupTerminal" -> "Cleanup"
      [] OTHER -> Unlisted

\* Only createOffer carries arguments: any other data is its discriminator and nothing more.
ReadOperation(ix) ==
    IF ~Known(ix) \/ (OpOf(ix) # "createOffer" /\ Len(ix.data) # 1) THEN Unlisted ELSE Operation(OpOf(ix))

\* try_from_slice reads every byte, or refuses.
WholeTerms(ix) ==
    IF Len(ix.data) = Len(OfferTermsData) + 1 THEN Decode(OfferTermsData, ix.data) ELSE Unreadable

SlipPosition(operation) == IF operation = "Create" THEN 7 ELSE 3
Position(operation) == IF operation = "Create" THEN 7 ELSE 2

\* Dates before the epoch are refused.
Undated(terms) == terms.acceptBefore < 0 \/ terms.expiresAt < 0

ReadIntent(payer, ix) ==
    LET operation == ReadOperation(ix)
        terms == WholeTerms(ix)
        agreement == ix.accounts[Position(operation)]
    IN  IF \/ operation = Unlisted
           \/ Len(ix.accounts) < Position(operation)
           \/ /\ operation = "Create"
              /\ \/ ~terms.ok
                 \/ agreement # AgreementPda(payer, terms.value.nonce) \/ Undated(terms.value)
        THEN Refused
        ELSE [ kind |-> "recorded", operation |-> operation, owner |-> payer, agreement |-> agreement,
               role |-> CASE OpOf(ix) = "activate" -> "holder"
                          [] OpOf(ix) = "acceptRequest" -> "writer"
                          [] OTHER -> "none",
               terms |-> IF operation = "Create"
                         THEN terms.value ++ [underlyingMint |-> ix.accounts[4]] ELSE None ]

SlipDecodeMessage(m) ==
    LET ours == {i \in 1..Len(m.ixs) : m.ixs[i].program = Program("volaryn")}
    IN  IF ours = {} THEN NotOurs
        ELSE LET ix == m.ixs[CHOOSE i \in ours : TRUE] IN ReadIntent(m.payer, ix)

DecodeMessage(m) ==
    LET ours == {i \in 1..Len(m.ixs) : m.ixs[i].program = Program("volaryn")}
    IN  IF ours = {} THEN NotOurs
        ELSE IF \/ Len(m.ixs) # 1 \/ m.signers # {m.payer}
                \/ m.ixs[1].accounts = <<>> \/ m.ixs[1].accounts[1] # m.payer
             THEN Refused
             ELSE ReadIntent(m.payer, m.ixs[1])

(***************************************************************************)
(* Actions.                                                                *)
(***************************************************************************)
WireInit ==
    /\ ledger = [k \in {} |-> <<>>]
    /\ seen = None /\ request = None /\ message = None
    /\ intent = Unread /\ ran = Idle

\* fetchAgreement of the app, whenever it looks.
Fetch(key) ==
    /\ request = None
    /\ seen' = [key |-> key, bytes |-> ledger[key]]
    /\ UNCHANGED <<ledger, request, message, intent, ran>>

Send(by, r, m) ==
    /\ by \in Senders /\ request = None
    /\ request' = [op |-> r.op, actor |-> r.actor, input |-> r.input, by |-> by]
    /\ message' = m
    /\ UNCHANGED <<ledger, seen, intent, ran>>

\* buildAction and the deployment tools: every address is given, the actor pays.
AppSigns(r) == Send("app", r, Compile(r.actor, <<Called(r.op, r.input)>>))

\* The library's plugin: what its caller leaves out is derived.
PluginSigns(r, left) ==
    Send("plugin", r, Compile(r.actor, <<VolarynPlugin(r.op, Given(r.input, left))>>))

\* A message that other software made: another payer, another instruction
\* beside it, accounts in another order or missing, bytes after the data, or a
\* date before the epoch.
Swap(s, i) == [s EXCEPT ![i] = s[i + 1], ![i + 1] = s[i]]
Elsewhere == [program |-> Program("other"), accounts |-> <<>>, data |-> <<>>]
Variants(m) ==
    LET ix == m.ixs[1]
        with(x) == [m EXCEPT !.ixs[1] = x]
    IN  { [m EXCEPT !.payer = w, !.signers = @ \cup {w}, !.writable = @ \cup {w}] : w \in Wallets }
        \cup { [m EXCEPT !.ixs = <<Elsewhere>> \o @], [m EXCEPT !.ixs = <<Elsewhere>>] }
        \cup { with([ix EXCEPT !.accounts = Swap(@, i)]) : i \in 1..(Len(ix.accounts) - 1) }
        \cup { with([ix EXCEPT !.accounts = SubSeq(@, 1, n)]) : n \in 0..(Len(ix.accounts) - 1) }
        \cup { with([ix EXCEPT !.data = @ \o << <<"u8", FALSE, 0>> >>]) }
        \cup { with([ix EXCEPT !.data[8][3] = 0 - 1]) : i \in {1} \cap {Len(ix.data) - Len(OfferTermsData)} }

OtherSigns(r, m) == Send("other", r, m)

\* sendTransaction through the server; a message it refuses may still reach the
\* ledger by another endpoint.
Record ==
    /\ message # None /\ intent = Unread
    /\ intent' = DecodeMessage(message)
    /\ UNCHANGED <<ledger, seen, request, message, ran>>

\* The ledger runs the message, all of it or nothing; a handler may refuse it
\* for a reason that is not modelled here.  No sender puts two instructions of
\* the program into one message.
Ours(m) == {i \in 1..Len(m.ixs) : m.ixs[i].program = Program("volaryn")}
Effect(ix) ==
    [ operation |-> Operation(OpOf(ix)), actor |-> ix.accounts[1],
      agreement |-> IF "agreement" \in DOMAIN Taken(ix) THEN Taken(ix).agreement ELSE None ]

Land(ok) ==
    /\ message # None
    /\ IF ok /\ \A i \in Ours(message) : Runs(ledger, message, message.ixs[i])
       THEN /\ ran' = [kind |-> "ran", effects |-> [i \in Ours(message) |-> Effect(message.ixs[i])]]
            /\ ledger' = IF Ours(message) = {} THEN ledger
                         ELSE LET ix == message.ixs[CHOOSE i \in Ours(message) : TRUE]
                              IN  Stored(ledger, OpOf(ix), Taken(ix), ArgsOf(ix).value) ++ ledger
       ELSE ran' = Refused /\ UNCHANGED ledger
    /\ message' = None
    /\ UNCHANGED <<seen, request, intent>>

\* The outcome is known, and the next request is made without it.
Forget ==
    /\ ran # Idle
    /\ request' = None /\ intent' = Unread /\ ran' = Idle
    /\ UNCHANGED <<ledger, seen, message>>

WireNext ==
    \/ \E key \in Offers : Fetch(key)
    \/ request = None /\ \E r \in Requests :
         \/ AppSigns(r)
         \/ \E left \in SUBSET Derivable(r.op) : PluginSigns(r, left)
         \/ \E m \in Variants(Compile(r.actor, <<Called(r.op, r.input)>>)) : OtherSigns(r, m)
    \/ Record
    \/ \E ok \in BOOLEAN : Land(ok)
    \/ Forget

WireSpec == WireInit /\ [][WireNext]_wireVars

(***************************************************************************)
(* Properties.                                                             *)
(***************************************************************************)
Asked == message # None /\ request.by \in {"app", "plugin"}
Given1 == message.ixs[1]

\* SameReading: whenever a browser looks, it decodes every account to what the
\* program stored in it, under the same type (generated/accounts against
\* state.rs).
SameReading ==
    request = None =>
    \A k \in DOMAIN ledger :
      LET kind == IdentifyVolarynAccount(ledger[k])
      IN  /\ kind = Head(ledger[k])[2]
          /\ DecodeAccount(ledger[k]) = Decode(Layout(kind), ledger[k])

\* OneMessage: whatever a caller leaves to the library, the message is the one
\* the app would sign for the same request (the Async builders and the PDAs of
\* generated/ against addresses.ts and the plain builders).
OneMessage == Asked => message = Compile(request.actor, <<Called(request.op, request.input)>>)

ParsedAsAsked ==
    LET parsed == ParseVolarynInstruction(Given1)
    IN  /\ parsed.op = request.op /\ parsed.read.ok
        /\ \A n \in DOMAIN parsed.read.accounts \cap DOMAIN request.input :
             parsed.read.accounts[n] = request.input[n]
        /\ \A n \in DOMAIN parsed.read.data : parsed.read.data[n] = request.input[n]

RecordedAsAsked ==
    IF Operation(request.op) = Unlisted THEN intent = Refused
    ELSE /\ intent.kind = "recorded"
         /\ intent.operation = Operation(request.op)
         /\ intent.owner = request.actor
         /\ intent.agreement = request.input.agreement
         /\ request.op = "activate" <=> intent.role = "holder"
         /\ request.op = "acceptRequest" <=> intent.role = "writer"
         /\ request.op = "createOffer" =>
              \A n \in DOMAIN intent.terms : intent.terms[n] = request.input[n]

\* ReadAsMeant: both who read a built message find the request it came from: the
\* library account by account and argument by argument, the server what the user
\* asked for (the positions and discriminators of decode.rs against the builders).
ReadAsMeant == Asked => ParsedAsAsked /\ (intent # Unread => RecordedAsAsked)

\* Fits: whatever lands between the fetch, the review and the landing, a
\* message of the app or the plugin never breaks an account constraint of the
\* program; only the state of the agreement can refuse it.  And it asks for no
\* more than the program needs: one signer, and the locks the program declares.
Fits ==
    Asked =>
      LET table == Struct(request.op)
      IN  /\ AccountsRight(ledger, message, Given1)
          /\ message.signers = {request.actor}
          /\ message.writable = {request.actor}
               \cup {Given1.accounts[i] : i \in {j \in 1..Len(table) : table[j].mut}}

\* IntentTrue: if a message the server recorded succeeds on the ledger, whoever
\* made it, it did exactly what the server recorded: that operation, once, by
\* that owner, on that agreement.
IntentTrue ==
    (intent.kind = "recorded" /\ ran.kind = "ran") =>
      ran.effects = << [operation |-> intent.operation, actor |-> intent.owner, agreement |-> intent.agreement] >>
=============================================================================
