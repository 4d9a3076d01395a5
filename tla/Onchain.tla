------------------------------ MODULE Onchain -------------------------------
(***************************************************************************)
(* What the program makes of a message: the account lists and constraints  *)
(* its instructions declare (programs/volaryn/src/instructions), the data  *)
(* it stores (state.rs), and what a handler that succeeds leaves in the    *)
(* accounts' identities and roles.  Money and time are Settlement's: here  *)
(* a handler whose accounts are right may still refuse.                    *)
(*                                                                         *)
(* Addresses and bytes are those of Client; every layout and every account *)
(* list below is the program's own, and none is taken from the client.     *)
(***************************************************************************)
EXTENDS Client

CONSTANT Admin    \* the upgrade authority of the deployed program

Usdc == <<"mint", "usdc">>
TokenAccount(owner, mint) == <<"token", owner, mint>>
MintProgram(mint) == IF mint = Usdc THEN Program("token") ELSE Program("token-2022")
Decimals(mint) == IF mint = Usdc THEN 6 ELSE 9

(***************************************************************************)
(* Stored data, in the order of the structures of state.rs.                *)
(***************************************************************************)
ProtocolConfigData ==
    << Field("authority", "key"), Field("usdcMint", "key"), Field("usdcProgram", "key") >>

AssetPolicyData ==
    << Field("mint", "key"), Field("tokenProgram", "key"), Field("decimals", "u8"), Field("version", "u32"),
       Field("enabled", "bool"), Field("reviewedUntil", "i64"), Field("maxExpiry", "i64") >>

AgreementData ==
    << Field("version", "u8"), Field("bump", "u8"), Field("creator", "key"), Field("side", "u8"),
       Field("nonce", "u64"), Optional("designatedCounterparty", "key"), Optional("writer", "key"),
       Optional("holder", "key"), Field("underlyingMint", "key"), Field("underlyingProgram", "key"),
       Field("underlyingDecimals", "u8"), Field("usdcMint", "key"), Field("usdcProgram", "key"),
       Field("quantityRaw", "u64"), Field("payout", "u64"), Field("premium", "u64"),
       Field("acceptBefore", "i64"), Field("expiresAt", "i64"), Field("policyVersion", "u32"),
       Field("createdAt", "i64"), Optional("activatedAt", "i64"), Optional("settledAt", "i64"),
       Field("netReceived", "u64"), Field("status", "u8") >>

OfferTermsData ==
    << Field("nonce", "u64"), Field("side", "u8"), Optional("designatedCounterparty", "key"),
       Field("quantityRaw", "u64"), Field("payout", "u64"), Field("premium", "u64"),
       Field("acceptBefore", "i64"), Field("expiresAt", "i64") >>

PolicyTermsData == << Field("enabled", "bool"), Field("reviewedUntil", "i64"), Field("maxExpiry", "i64") >>

\* OfferSide and AgreementStatus, by their order.
Writer == 0
Holder == 1
Open == 0
Active == 1
Exercised == 2
Cancelled == 3
Expired == 4

Layout(kind) ==
    CASE kind = "Agreement" -> AgreementData
      [] kind = "AssetPolicy" -> AssetPolicyData
      [] kind = "ProtocolConfig" -> ProtocolConfigData

\* Account<'info, T>: the account exists and starts with T's discriminator.
Holds(ledger, key, kind) ==
    /\ key \in DOMAIN ledger
    /\ Head(ledger[key]) = <<"tag", kind>>
    /\ Decode(Layout(kind), ledger[key]).ok

Load(ledger, key, kind) == Decode(Layout(kind), ledger[key]).value

(***************************************************************************)
(* Account lists.                                                          *)
(***************************************************************************)
Arg(name, signer, mut) == [name |-> name, signer |-> signer, mut |-> mut]
Account(name) == Arg(name, FALSE, FALSE)
Mut(name) == Arg(name, FALSE, TRUE)
Signer(name) == Arg(name, TRUE, FALSE)
MutSigner(name) == Arg(name, TRUE, TRUE)

CreateOfferStruct ==
    << MutSigner("creator"), Account("config"), Account("policy"), Account("underlyingMint"),
       Account("usdcMint"), Mut("creatorUsdc"), Mut("agreement"), Mut("reserve"),
       Mut("settlement"), Account("underlyingProgram"), Account("usdcProgram"),
       Account("systemProgram") >>
ActivateStruct ==
    << Signer("holder"), Mut("agreement"), Account("policy"), Account("underlyingMint"),
       Account("usdcMint"), Account("reserve"), Mut("holderUsdc"), Mut("writerUsdc"),
       Account("usdcProgram") >>
AcceptRequestStruct ==
    << Signer("writer"), Mut("agreement"), Account("policy"), Account("underlyingMint"),
       Account("usdcMint"), Mut("reserve"), Mut("writerUsdc"), Account("usdcProgram") >>
ExerciseStruct ==
    << Signer("holder"), Mut("agreement"), Account("underlyingMint"), Account("usdcMint"),
       Mut("reserve"), Mut("holderUnderlying"), Mut("holderUsdc"),
       Mut("settlement"), Account("underlyingProgram"), Account("usdcProgram") >>
RefundStruct ==
    << Signer("actor"), Mut("agreement"), Account("usdcMint"), Mut("reserve"),
       Mut("actorUsdc"), Account("usdcProgram") >>
CleanupTerminalStruct ==
    << Signer("actor"), Account("agreement"), Account("usdcMint"), Mut("reserve"),
       Mut("actorUsdc"), Mut("settlement"), Account("underlyingProgram"),
       Account("usdcProgram") >>
InitializeStruct ==
    << MutSigner("authority"), Account("programData"), Mut("config"),
       Account("usdcMint"), Account("systemProgram") >>
CreateAssetPolicyStruct ==
    << MutSigner("authority"), Account("config"), Account("mint"), Mut("policy"),
       Account("systemProgram") >>
UpdateAssetPolicyStruct ==
    << Signer("authority"), Account("config"), Account("mint"), Mut("policy") >>

\* The program's dispatch: which structure and which arguments an instruction has.
Struct(op) ==
    CASE op = "initialize"        -> InitializeStruct
      [] op = "createAssetPolicy" -> CreateAssetPolicyStruct
      [] op = "updateAssetPolicy" -> UpdateAssetPolicyStruct
      [] op = "createOffer"       -> CreateOfferStruct
      [] op = "activate"          -> ActivateStruct
      [] op = "acceptRequest"     -> AcceptRequestStruct
      [] op = "exercise"          -> ExerciseStruct
      [] op \in {"cancelOffer", "reclaimExpired"} -> RefundStruct
      [] op = "cleanupTerminal"   -> CleanupTerminalStruct

ArgsLayout(op) ==
    CASE op = "createOffer" -> OfferTermsData
      [] op \in {"createAssetPolicy", "updateAssetPolicy"} -> PolicyTermsData
      [] OTHER -> <<>>

(***************************************************************************)
(* Constraints.  "a" names the addresses the instruction came with.        *)
(***************************************************************************)
\* The token accounts of an agreement exist as soon as the agreement does.
TokenOf(ledger, key) ==
    CASE key[1] = "token" -> [mint |-> key[3], owner |-> key[2]]
      [] key[1] = "reserve" /\ Holds(ledger, key[2], "Agreement") ->
           [mint |-> Load(ledger, key[2], "Agreement").usdcMint, owner |-> key[2]]
      [] key[1] = "settlement" /\ Holds(ledger, key[2], "Agreement") ->
           [mint |-> Load(ledger, key[2], "Agreement").underlyingMint, owner |-> key[2]]
      [] OTHER -> [mint |-> None, owner |-> None]

IsToken(ledger, key, mint, owner) == TokenOf(ledger, key) = [mint |-> mint, owner |-> owner]
IsMint(key) == key[1] = "mint"

CreateOfferConstraints(ledger, a, args) ==
    /\ a.config = ConfigPda /\ Holds(ledger, a.config, "ProtocolConfig")
    /\ a.policy = PolicyPda(a.underlyingMint) /\ Holds(ledger, a.policy, "AssetPolicy")
    /\ IsMint(a.underlyingMint) /\ MintProgram(a.underlyingMint) = a.underlyingProgram
    /\ a.usdcMint = Load(ledger, a.config, "ProtocolConfig").usdcMint
    /\ MintProgram(a.usdcMint) = a.usdcProgram
    /\ IsToken(ledger, a.creatorUsdc, a.usdcMint, a.creator)
    /\ a.agreement = AgreementPda(a.creator, args.nonce)
    /\ a.reserve = ReservePda(a.agreement)
    /\ a.settlement = SettlementPda(a.agreement)
    /\ a.underlyingProgram = Program("token-2022")
    /\ a.usdcProgram = Load(ledger, a.config, "ProtocolConfig").usdcProgram
    /\ a.systemProgram = Program("system")

\* What every instruction on an existing agreement asks of it.
AgreementConstraints(ledger, a) ==
    /\ Holds(ledger, a.agreement, "Agreement")
    /\ LET g == Load(ledger, a.agreement, "Agreement")
       IN  /\ a.agreement = AgreementPda(g.creator, g.nonce)
           /\ a.usdcMint = g.usdcMint /\ MintProgram(a.usdcMint) = a.usdcProgram
           /\ a.usdcProgram = g.usdcProgram
           /\ a.reserve = ReservePda(a.agreement)
           /\ IsToken(ledger, a.reserve, a.usdcMint, a.agreement)

AcceptConstraints(ledger, a, side) ==
    /\ AgreementConstraints(ledger, a)
    /\ LET g == Load(ledger, a.agreement, "Agreement")
       IN  /\ g.side = side
           /\ a.policy = PolicyPda(g.underlyingMint) /\ Holds(ledger, a.policy, "AssetPolicy")
           /\ a.underlyingMint = g.underlyingMint
           /\ MintProgram(a.underlyingMint) = g.underlyingProgram

ActivateConstraints(ledger, a) ==
    /\ AcceptConstraints(ledger, a, Writer)
    /\ IsToken(ledger, a.holderUsdc, a.usdcMint, a.holder)
    /\ TokenOf(ledger, a.writerUsdc).mint = a.usdcMint
    /\ Load(ledger, a.agreement, "Agreement").writer = Some(TokenOf(ledger, a.writerUsdc).owner)

AcceptRequestConstraints(ledger, a) ==
    /\ AcceptConstraints(ledger, a, Holder)
    /\ IsToken(ledger, a.writerUsdc, a.usdcMint, a.writer)

ExerciseConstraints(ledger, a) ==
    /\ AgreementConstraints(ledger, a)
    /\ a.underlyingMint = Load(ledger, a.agreement, "Agreement").underlyingMint
    /\ a.underlyingProgram = MintProgram(a.underlyingMint)
    /\ IsToken(ledger, a.holderUnderlying, a.underlyingMint, a.holder)
    /\ IsToken(ledger, a.holderUsdc, a.usdcMint, a.holder)
    /\ a.settlement = SettlementPda(a.agreement)
    /\ IsToken(ledger, a.settlement, a.underlyingMint, a.agreement)
    /\ a.underlyingProgram = Load(ledger, a.agreement, "Agreement").underlyingProgram

RefundConstraints(ledger, a) ==
    AgreementConstraints(ledger, a) /\ IsToken(ledger, a.actorUsdc, a.usdcMint, a.actor)

CleanupTerminalConstraints(ledger, a) ==
    /\ RefundConstraints(ledger, a)
    /\ a.settlement = SettlementPda(a.agreement)
    /\ a.underlyingProgram = Load(ledger, a.agreement, "Agreement").underlyingProgram

InitializeConstraints(a) ==
    /\ a.programData = ProgramDataPda /\ a.authority = Admin
    /\ a.config = ConfigPda
    /\ IsMint(a.usdcMint) /\ MintProgram(a.usdcMint) = Program("token") /\ Decimals(a.usdcMint) = 6
    /\ a.systemProgram = Program("system")

PolicyConstraints(ledger, a) ==
    /\ a.config = ConfigPda /\ Holds(ledger, a.config, "ProtocolConfig")
    /\ Load(ledger, a.config, "ProtocolConfig").authority = a.authority
    /\ IsMint(a.mint) /\ MintProgram(a.mint) = Program("token-2022")
    /\ a.policy = PolicyPda(a.mint)

Constraints(ledger, op, a, args) ==
    CASE op = "initialize"        -> InitializeConstraints(a)
      [] op = "createAssetPolicy" -> PolicyConstraints(ledger, a) /\ a.systemProgram = Program("system")
      [] op = "updateAssetPolicy" -> PolicyConstraints(ledger, a) /\ Holds(ledger, a.policy, "AssetPolicy")
      [] op = "createOffer"       -> CreateOfferConstraints(ledger, a, args)
      [] op = "activate"          -> ActivateConstraints(ledger, a)
      [] op = "acceptRequest"     -> AcceptRequestConstraints(ledger, a)
      [] op = "exercise"          -> ExerciseConstraints(ledger, a)
      [] op \in {"cancelOffer", "reclaimExpired"} -> RefundConstraints(ledger, a)
      [] op = "cleanupTerminal"   -> CleanupTerminalConstraints(ledger, a)

\* The account an instruction creates ("init"): it must not exist yet.
Created(op, a) ==
    CASE op = "initialize" -> {a.config}
      [] op = "createAssetPolicy" -> {a.policy}
      [] op = "createOffer" -> {a.agreement}
      [] OTHER -> {}

(***************************************************************************)
(* Handlers: who may do it in which state, and what is stored.  Deadlines  *)
(* are refused here as far as they can be without a clock.                 *)
(***************************************************************************)
Beneficiary(g) == IF g.status = Cancelled THEN Some(g.creator) ELSE g.writer

Allowed(ledger, op, a, args) ==
    LET g == Load(ledger, a.agreement, "Agreement")
    IN  CASE op = "createOffer" -> /\ args.designatedCounterparty # Some(a.creator)
                                   /\ 0 < args.acceptBefore /\ args.acceptBefore <= args.expiresAt
          [] op = "activate" -> /\ g.status = Open /\ a.holder # g.creator
                                /\ g.designatedCounterparty \in {None, Some(a.holder)}
          [] op = "acceptRequest" -> /\ g.status = Open /\ a.writer # g.creator
                                     /\ g.designatedCounterparty \in {None, Some(a.writer)}
          [] op = "exercise" -> g.status = Active /\ g.holder = Some(a.holder)
          [] op = "cancelOffer" -> g.status = Open /\ a.actor = g.creator
          [] op = "reclaimExpired" -> g.status = Active /\ g.writer = Some(a.actor)
          [] op = "cleanupTerminal" -> g.status \in {Exercised, Cancelled, Expired} /\ Beneficiary(g) = Some(a.actor)
          [] OTHER -> TRUE

NewAgreement(policyVersion, a, args) ==
    args ++ [ version |-> 2, bump |-> 1, creator |-> a.creator,
              writer |-> IF args.side = Writer THEN Some(a.creator) ELSE None,
              holder |-> IF args.side = Holder THEN Some(a.creator) ELSE None,
              underlyingMint |-> a.underlyingMint, underlyingProgram |-> a.underlyingProgram,
              underlyingDecimals |-> Decimals(a.underlyingMint),
              usdcMint |-> a.usdcMint, usdcProgram |-> a.usdcProgram, policyVersion |-> policyVersion,
              createdAt |-> 1, activatedAt |-> None, settledAt |-> None, netReceived |-> 0, status |-> Open ]

Accepted(policyVersion, g, who) ==
    [ g EXCEPT !.holder = IF g.side = Writer THEN Some(who) ELSE @,
               !.writer = IF g.side = Holder THEN Some(who) ELSE @,
               !.activatedAt = Some(2), !.policyVersion = policyVersion, !.status = Active ]

Put(key, bytes) == [k \in {key} |-> bytes]

Stored(ledger, op, a, args) ==
    LET g == Load(ledger, a.agreement, "Agreement")
        save(new) == Put(a.agreement, Encode("Agreement", AgreementData, new))
        ended(status) == save([g EXCEPT !.status = status, !.settledAt = Some(3)])
        old(policy) == IF policy \in DOMAIN ledger THEN Load(ledger, policy, "AssetPolicy").version ELSE 0
        terms == args ++ [mint |-> a.mint, tokenProgram |-> Program("token-2022"),
                          decimals |-> Decimals(a.mint), version |-> old(a.policy) + 1]
    IN  CASE op = "initialize" ->
               Put(a.config, Encode("ProtocolConfig", ProtocolConfigData,
                                    [authority |-> a.authority, usdcMint |-> a.usdcMint,
                                     usdcProgram |-> Program("token")]))
          [] op \in {"createAssetPolicy", "updateAssetPolicy"} ->
               Put(a.policy, Encode("AssetPolicy", AssetPolicyData, terms))
          [] op = "createOffer" -> save(NewAgreement(old(a.policy), a, args))
          [] op = "activate" -> save(Accepted(old(a.policy), g, a.holder))
          [] op = "acceptRequest" -> save(Accepted(old(a.policy), g, a.writer))
          [] op = "exercise" -> ended(Exercised)
          [] op = "cancelOffer" -> ended(Cancelled)
          [] op = "reclaimExpired" -> ended(Expired)
          [] op = "cleanupTerminal" -> save(g)

(***************************************************************************)
(* One instruction of a message.  Signatures and write locks belong to the *)
(* message: an account has them wherever the message names it.             *)
(***************************************************************************)
Known(ix) == ix.data # <<>> /\ Head(ix.data)[1] = "tag" /\ Head(ix.data)[2] \in Operations
OpOf(ix) == Head(ix.data)[2]
Enough(ix) == Known(ix) /\ Len(ix.accounts) >= Len(Struct(OpOf(ix)))
ArgsOf(ix) == Decode(ArgsLayout(OpOf(ix)), ix.data)
Taken(ix) ==
    LET table == Struct(OpOf(ix))
    IN  [n \in {table[i].name : i \in 1..Len(table)} |->
           ix.accounts[CHOOSE i \in 1..Len(table) : table[i].name = n]]

AccountsRight(ledger, message, ix) ==
    /\ Enough(ix) /\ ArgsOf(ix).ok
    /\ \A i \in 1..Len(Struct(OpOf(ix))) :
         /\ Struct(OpOf(ix))[i].signer => ix.accounts[i] \in message.signers
         /\ Struct(OpOf(ix))[i].mut => ix.accounts[i] \in message.writable
    /\ Constraints(ledger, OpOf(ix), Taken(ix), ArgsOf(ix).value)

Runs(ledger, message, ix) ==
    /\ AccountsRight(ledger, message, ix)
    /\ Created(OpOf(ix), Taken(ix)) \cap DOMAIN ledger = {}
    /\ Allowed(ledger, OpOf(ix), Taken(ix), ArgsOf(ix).value)
=============================================================================
