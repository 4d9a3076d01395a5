------------------------------- MODULE Client -------------------------------
(***************************************************************************)
(* The TypeScript client of the program, packages/protocol/src: where the  *)
(* accounts live (addresses.ts, generated/pdas), how each instruction is   *)
(* built and read back (generated/instructions), how account data is       *)
(* decoded (generated/accounts) and how bytes are told apart               *)
(* (generated/programs).                                                   *)
(*                                                                         *)
(* An address is a tuple that says what it was derived from.  Bytes are a  *)
(* sequence of tokens: a discriminator, or the width of a field, whether   *)
(* it is an option, and its value; a reader that expects another width     *)
(* than the one written fails.                                             *)
(***************************************************************************)
EXTENDS Integers, SequencesExt

None == <<>>
Some(v) == <<v>>

\* { ...g, ...f }: what f says, and g where f says nothing.
f ++ g == [n \in DOMAIN f \cup DOMAIN g |-> IF n \in DOMAIN f THEN f[n] ELSE g[n]]

(***************************************************************************)
(* Addresses.                                                              *)
(***************************************************************************)
Program(name) == <<"program", name>>
ConfigPda == <<"config">>
PolicyPda(mint) == <<"policy", mint>>
CreateOfferPolicyPda(underlyingMint) == <<"policy", underlyingMint>>
AgreementPda(creator, nonce) == <<"agreement", creator, nonce>>
ReservePda(agreement) == <<"reserve", agreement>>
SettlementPda(agreement) == <<"settlement", agreement>>
ProgramDataPda == <<"program data", Program("volaryn")>>

ProtocolAddresses(mint, creator, nonce) ==
    LET agreement == AgreementPda(creator, nonce)
    IN  [ config      |-> ConfigPda,
          policy      |-> PolicyPda(mint),
          agreement   |-> agreement,
          reserve     |-> ReservePda(agreement),
          settlement  |-> SettlementPda(agreement),
          programData |-> ProgramDataPda ]

(***************************************************************************)
(* Layouts: the codecs of the generated client, as lists of fields.        *)
(***************************************************************************)
Field(name, width) == [name |-> name, width |-> width, optional |-> FALSE]
Optional(name, width) == [name |-> name, width |-> width, optional |-> TRUE]

Encode(tag, layout, input) ==
    << <<"tag", tag>> >> \o
    [i \in 1..Len(layout) |-> <<layout[i].width, layout[i].optional, input[layout[i].name]>>]

Unreadable == [ok |-> FALSE]

\* What follows the fields read is not looked at.
Decode(layout, bytes) ==
    IF /\ Len(bytes) > Len(layout)
       /\ \A i \in 1..Len(layout) :
            LET item == bytes[i + 1]
            IN  Len(item) = 3 /\ item[1] = layout[i].width /\ item[2] = layout[i].optional
    THEN [ ok    |-> TRUE,
           value |-> [ n \in {layout[i].name : i \in 1..Len(layout)} |->
                         bytes[1 + CHOOSE i \in 1..Len(layout) : layout[i].name = n][3] ] ]
    ELSE Unreadable

AgreementCodec ==
    << Field("version", "u8"), Field("bump", "u8"), Field("creator", "key"), Field("side", "u8"),
       Field("nonce", "u64"), Optional("designatedCounterparty", "key"), Optional("writer", "key"),
       Optional("holder", "key"), Field("underlyingMint", "key"), Field("underlyingProgram", "key"),
       Field("underlyingDecimals", "u8"), Field("usdcMint", "key"), Field("usdcProgram", "key"),
       Field("quantityRaw", "u64"), Field("payout", "u64"), Field("premium", "u64"),
       Field("acceptBefore", "i64"), Field("expiresAt", "i64"), Field("policyVersion", "u32"),
       Field("createdAt", "i64"), Optional("activatedAt", "i64"), Optional("settledAt", "i64"),
       Field("netReceived", "u64"), Field("status", "u8") >>

SlipAssetPolicyCodec ==
    << Field("tokenProgram", "key"), Field("mint", "key"), Field("decimals", "u8"), Field("version", "u32"),
       Field("enabled", "bool"), Field("reviewedUntil", "i64"), Field("maxExpiry", "i64") >>

AssetPolicyCodec ==
    << Field("mint", "key"), Field("tokenProgram", "key"), Field("decimals", "u8"), Field("version", "u32"),
       Field("enabled", "bool"), Field("reviewedUntil", "i64"), Field("maxExpiry", "i64") >>

ProtocolConfigCodec ==
    << Field("authority", "key"), Field("usdcMint", "key"), Field("usdcProgram", "key") >>

PolicyTermsCodec ==
    << Field("enabled", "bool"), Field("reviewedUntil", "i64"), Field("maxExpiry", "i64") >>

\* Enumerations travel as their position.
OfferSide == [Writer |-> 0, Holder |-> 1]
AgreementStatus == [Open |-> 0, Active |-> 1, Exercised |-> 2, Cancelled |-> 3, Expired |-> 4]

\* The account types by the discriminator they start with.
IdentifyVolarynAccount(bytes) ==
    CASE bytes # <<>> /\ Head(bytes) = <<"tag", "Agreement">> -> "Agreement"
      [] bytes # <<>> /\ Head(bytes) = <<"tag", "AssetPolicy">> -> "AssetPolicy"
      [] bytes # <<>> /\ Head(bytes) = <<"tag", "ProtocolConfig">> -> "ProtocolConfig"
      [] OTHER -> "unidentified"

DecodeAccount(bytes) ==
    CASE IdentifyVolarynAccount(bytes) = "Agreement" -> Decode(AgreementCodec, bytes)
      [] IdentifyVolarynAccount(bytes) = "AssetPolicy" -> Decode(AssetPolicyCodec, bytes)
      [] IdentifyVolarynAccount(bytes) = "ProtocolConfig" -> Decode(ProtocolConfigCodec, bytes)
      [] OTHER -> Unreadable

(***************************************************************************)
(* Instructions.  A builder takes the accounts and the arguments by name;  *)
(* what the caller gives wins over what the builder can derive.            *)
(***************************************************************************)
Meta(name, signer, writable) == [name |-> name, signer |-> signer, writable |-> writable]
Reads(name) == Meta(name, FALSE, FALSE)
Writes(name) == Meta(name, FALSE, TRUE)
Signs(name) == Meta(name, TRUE, FALSE)
Pays(name) == Meta(name, TRUE, TRUE)

Build(tag, table, layout, input) ==
    [ program  |-> Program("volaryn"),
      accounts |-> [i \in 1..Len(table) |->
                     [key |-> input[table[i].name], signer |-> table[i].signer, writable |-> table[i].writable]],
      data     |-> Encode(tag, layout, input) ]

Parse(table, layout, ix) ==
    IF Len(ix.accounts) < Len(table) THEN Unreadable
    ELSE LET data == Decode(layout, ix.data)
         IN  IF ~data.ok THEN Unreadable
             ELSE [ok |-> TRUE,
                   accounts |-> [n \in {table[i].name : i \in 1..Len(table)} |->
                                  ix.accounts[CHOOSE i \in 1..Len(table) : table[i].name = n]],
                   data |-> data.value]

UsdcProgramDefault == [usdcProgram |-> Program("token")]
TokenProgramDefaults == [underlyingProgram |-> Program("token-2022"), usdcProgram |-> Program("token")]
SystemProgramDefault == [systemProgram |-> Program("system")]
ReserveDefault(input) == [reserve |-> ReservePda(input.agreement)]
SettlementDefault(input) == [settlement |-> SettlementPda(input.agreement)]

\* createOffer
CreateOfferAccounts ==
    << Pays("creator"), Reads("config"), Reads("policy"), Reads("underlyingMint"), Reads("usdcMint"),
       Writes("creatorUsdc"), Writes("agreement"), Writes("reserve"), Writes("settlement"),
       Reads("underlyingProgram"), Reads("usdcProgram"), Reads("systemProgram") >>
CreateOfferData ==
    << Field("nonce", "u64"), Field("side", "u8"), Optional("designatedCounterparty", "key"),
       Field("quantityRaw", "u64"), Field("payout", "u64"), Field("premium", "u64"),
       Field("acceptBefore", "i64"), Field("expiresAt", "i64") >>
CreateOfferAsync(input) ==
    Build("createOffer", CreateOfferAccounts, CreateOfferData,
          input ++ [config |-> ConfigPda, policy |-> CreateOfferPolicyPda(input.underlyingMint)]
                ++ ReserveDefault(input) ++ SettlementDefault(input)
                ++ TokenProgramDefaults ++ SystemProgramDefault)
CreateOfferSync(input) ==
    Build("createOffer", CreateOfferAccounts, CreateOfferData,
          input ++ TokenProgramDefaults ++ SystemProgramDefault)
ParseCreateOffer(ix) == Parse(CreateOfferAccounts, CreateOfferData, ix)

\* activate
ActivateAccounts ==
    << Signs("holder"), Writes("agreement"), Reads("policy"), Reads("underlyingMint"), Reads("usdcMint"),
       Reads("reserve"), Writes("holderUsdc"), Writes("writerUsdc"), Reads("usdcProgram") >>
ActivateData == <<>>
ActivateAsync(input) ==
    Build("activate", ActivateAccounts, ActivateData, input ++ ReserveDefault(input) ++ UsdcProgramDefault)
ActivateSync(input) == Build("activate", ActivateAccounts, ActivateData, input ++ UsdcProgramDefault)
ParseActivate(ix) == Parse(ActivateAccounts, ActivateData, ix)

\* acceptRequest
AcceptRequestAccounts ==
    << Signs("writer"), Writes("agreement"), Reads("policy"), Reads("underlyingMint"), Reads("usdcMint"),
       Writes("reserve"), Writes("writerUsdc"), Reads("usdcProgram") >>
AcceptRequestData == <<>>
AcceptRequestAsync(input) ==
    Build("acceptRequest", AcceptRequestAccounts, AcceptRequestData,
          input ++ ReserveDefault(input) ++ UsdcProgramDefault)
AcceptRequestSync(input) ==
    Build("acceptRequest", AcceptRequestAccounts, AcceptRequestData, input ++ UsdcProgramDefault)
ParseAcceptRequest(ix) == Parse(AcceptRequestAccounts, AcceptRequestData, ix)

\* exercise
SlipExerciseAccounts ==
    << Signs("holder"), Writes("agreement"), Reads("underlyingMint"), Reads("usdcMint"), Writes("reserve"),
       Writes("holderUsdc"), Writes("holderUnderlying"), Writes("settlement"),
       Reads("underlyingProgram"), Reads("usdcProgram") >>
ExerciseAccounts ==
    << Signs("holder"), Writes("agreement"), Reads("underlyingMint"), Reads("usdcMint"), Writes("reserve"),
       Writes("holderUnderlying"), Writes("holderUsdc"), Writes("settlement"),
       Reads("underlyingProgram"), Reads("usdcProgram") >>
ExerciseData == <<>>
ExerciseAsync(input) ==
    Build("exercise", ExerciseAccounts, ExerciseData,
          input ++ ReserveDefault(input) ++ SettlementDefault(input) ++ TokenProgramDefaults)
ExerciseSync(input) == Build("exercise", ExerciseAccounts, ExerciseData, input ++ TokenProgramDefaults)
ParseExercise(ix) == Parse(ExerciseAccounts, ExerciseData, ix)

CleanupTerminalAccounts ==
    << Signs("actor"), Reads("agreement"), Reads("usdcMint"), Writes("reserve"), Writes("actorUsdc"),
       Writes("settlement"), Reads("underlyingProgram"), Reads("usdcProgram") >>
CleanupTerminalData == <<>>
CleanupTerminalAsync(input) ==
    Build("cleanupTerminal", CleanupTerminalAccounts, CleanupTerminalData,
          input ++ ReserveDefault(input) ++ SettlementDefault(input) ++ TokenProgramDefaults)
CleanupTerminalSync(input) ==
    Build("cleanupTerminal", CleanupTerminalAccounts, CleanupTerminalData, input ++ TokenProgramDefaults)
ParseCleanupTerminal(ix) == Parse(CleanupTerminalAccounts, CleanupTerminalData, ix)

\* cancelOffer
CancelOfferAccounts ==
    << Signs("actor"), Writes("agreement"), Reads("usdcMint"), Writes("reserve"), Writes("actorUsdc"),
       Reads("usdcProgram") >>
CancelOfferData == <<>>
CancelOfferAsync(input) ==
    Build("cancelOffer", CancelOfferAccounts, CancelOfferData,
          input ++ ReserveDefault(input) ++ UsdcProgramDefault)
CancelOfferSync(input) ==
    Build("cancelOffer", CancelOfferAccounts, CancelOfferData, input ++ UsdcProgramDefault)
ParseCancelOffer(ix) == Parse(CancelOfferAccounts, CancelOfferData, ix)

\* reclaimExpired
ReclaimExpiredAccounts ==
    << Signs("actor"), Writes("agreement"), Reads("usdcMint"), Writes("reserve"), Writes("actorUsdc"),
       Reads("usdcProgram") >>
ReclaimExpiredData == <<>>
SlipReclaimExpiredAsync(input) ==
    Build("reclaimExpired", ReclaimExpiredAccounts, ReclaimExpiredData,
          input ++ [reserve |-> SettlementPda(input.agreement)] ++ UsdcProgramDefault)
ReclaimExpiredAsync(input) ==
    Build("reclaimExpired", ReclaimExpiredAccounts, ReclaimExpiredData,
          input ++ ReserveDefault(input) ++ UsdcProgramDefault)
ReclaimExpiredSync(input) ==
    Build("reclaimExpired", ReclaimExpiredAccounts, ReclaimExpiredData, input ++ UsdcProgramDefault)
ParseReclaimExpired(ix) == Parse(ReclaimExpiredAccounts, ReclaimExpiredData, ix)

\* createAssetPolicy
CreateAssetPolicyAccounts ==
    << Pays("authority"), Reads("config"), Reads("mint"), Writes("policy"), Reads("systemProgram") >>
CreateAssetPolicyData == PolicyTermsCodec
CreateAssetPolicyAsync(input) ==
    Build("createAssetPolicy", CreateAssetPolicyAccounts, CreateAssetPolicyData,
          input ++ [config |-> ConfigPda, policy |-> PolicyPda(input.mint)] ++ SystemProgramDefault)
CreateAssetPolicySync(input) ==
    Build("createAssetPolicy", CreateAssetPolicyAccounts, CreateAssetPolicyData, input ++ SystemProgramDefault)
ParseCreateAssetPolicy(ix) == Parse(CreateAssetPolicyAccounts, CreateAssetPolicyData, ix)

\* initialize
InitializeAccounts ==
    << Pays("authority"), Reads("programData"), Writes("config"), Reads("usdcMint"), Reads("systemProgram") >>
InitializeData == <<>>
InitializeAsync(input) ==
    Build("initialize", InitializeAccounts, InitializeData,
          input ++ [programData |-> ProgramDataPda, config |-> ConfigPda] ++ SystemProgramDefault)
InitializeSync(input) ==
    Build("initialize", InitializeAccounts, InitializeData, input ++ SystemProgramDefault)
ParseInitialize(ix) == Parse(InitializeAccounts, InitializeData, ix)

\* updateAssetPolicy
UpdateAssetPolicyAccounts == << Signs("authority"), Reads("config"), Reads("mint"), Writes("policy") >>
UpdateAssetPolicyData == PolicyTermsCodec
UpdateAssetPolicyAsync(input) ==
    Build("updateAssetPolicy", UpdateAssetPolicyAccounts, UpdateAssetPolicyData,
          input ++ [config |-> ConfigPda, policy |-> PolicyPda(input.mint)])
UpdateAssetPolicySync(input) ==
    Build("updateAssetPolicy", UpdateAssetPolicyAccounts, UpdateAssetPolicyData, input)
ParseUpdateAssetPolicy(ix) == Parse(UpdateAssetPolicyAccounts, UpdateAssetPolicyData, ix)

(***************************************************************************)
(* The program as a whole: the plugin's builders, the builders the app     *)
(* calls, and the reader of any instruction.                               *)
(***************************************************************************)
Operations == { "initialize", "createAssetPolicy", "updateAssetPolicy", "createOffer", "activate",
                "acceptRequest", "exercise", "cancelOffer", "reclaimExpired", "cleanupTerminal" }

VolarynPlugin(op, input) ==
    CASE op = "acceptRequest"     -> AcceptRequestAsync(input)
      [] op = "activate"          -> ActivateAsync(input)
      [] op = "cancelOffer"       -> CancelOfferAsync(input)
      [] op = "cleanupTerminal"   -> CleanupTerminalAsync(input)
      [] op = "createAssetPolicy" -> CreateAssetPolicyAsync(input)
      [] op = "createOffer"       -> CreateOfferAsync(input)
      [] op = "exercise"          -> ExerciseAsync(input)
      [] op = "initialize"        -> InitializeAsync(input)
      [] op = "reclaimExpired"    -> ReclaimExpiredAsync(input)
      [] op = "updateAssetPolicy" -> UpdateAssetPolicyAsync(input)

Called(op, input) ==
    CASE op = "acceptRequest"     -> AcceptRequestSync(input)
      [] op = "activate"          -> ActivateSync(input)
      [] op = "cancelOffer"       -> CancelOfferSync(input)
      [] op = "cleanupTerminal"   -> CleanupTerminalSync(input)
      [] op = "createAssetPolicy" -> CreateAssetPolicySync(input)
      [] op = "createOffer"       -> CreateOfferSync(input)
      [] op = "exercise"          -> ExerciseSync(input)
      [] op = "initialize"        -> InitializeSync(input)
      [] op = "reclaimExpired"    -> ReclaimExpiredSync(input)
      [] op = "updateAssetPolicy" -> UpdateAssetPolicySync(input)

\* Each instruction is known by the eight bytes its data starts with.
IdentifyVolarynInstruction(data) ==
    IF data # <<>> /\ Head(data)[1] = "tag" /\ Head(data)[2] \in Operations
    THEN Head(data)[2] ELSE "unidentified"

ParseVolarynInstruction(ix) ==
    LET op == IdentifyVolarynInstruction(ix.data)
    IN  [ op   |-> op,
          read |-> CASE op = "acceptRequest"     -> ParseAcceptRequest(ix)
                     [] op = "activate"          -> ParseActivate(ix)
                     [] op = "cancelOffer"       -> ParseCancelOffer(ix)
                     [] op = "cleanupTerminal"   -> ParseCleanupTerminal(ix)
                     [] op = "createAssetPolicy" -> ParseCreateAssetPolicy(ix)
                     [] op = "createOffer"       -> ParseCreateOffer(ix)
                     [] op = "exercise"          -> ParseExercise(ix)
                     [] op = "initialize"        -> ParseInitialize(ix)
                     [] op = "reclaimExpired"    -> ParseReclaimExpired(ix)
                     [] op = "updateAssetPolicy" -> ParseUpdateAssetPolicy(ix)
                     [] OTHER                    -> Unreadable ]
=============================================================================
