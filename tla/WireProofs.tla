----------------------------- MODULE WireProofs -----------------------------
(***************************************************************************)
(* Who reads a message or an account reads the same thing: proofs about    *)
(* Wire for any wallets, mints, nonces and bounds, and for the program's   *)
(* and the client's tables as they stand.                                  *)
(***************************************************************************)
EXTENDS Wire, TLAPS

(***************************************************************************)
(* Spreads, tables and codecs.                                             *)
(***************************************************************************)
Names(table) == {table[i].name : i \in 1..Len(table)}
Distinct(table) ==
  \A i, j \in 1..Len(table) : table[i].name = table[j].name => i = j

LEMMA SpreadFirst ==
  ASSUME NEW f, NEW g, NEW n \in DOMAIN f
  PROVE  (f ++ g)[n] = f[n]
BY DEF ++

LEMMA SpreadRest ==
  ASSUME NEW f, NEW g, NEW n \in DOMAIN g, n \notin DOMAIN f
  PROVE  (f ++ g)[n] = g[n]
BY DEF ++

LEMMA SpreadDomain ==
  ASSUME NEW f, NEW g
  PROVE  DOMAIN (f ++ g) = DOMAIN f \cup DOMAIN g
BY DEF ++

\* The entry of a name is found at the place the name is written.
LEMMA Found ==
  ASSUME NEW table, Distinct(table), NEW j \in 1..Len(table)
  PROVE  (CHOOSE i \in 1..Len(table) : table[i].name = table[j].name) = j
BY DEF Distinct

\* What an encoder writes.
LEMMA Encoded ==
  ASSUME NEW layout, Len(layout) \in Nat, NEW tag, NEW v
  PROVE  LET b == Encode(tag, layout, v)
         IN  /\ Len(b) = Len(layout) + 1 /\ b # <<>>
             /\ Head(b) = <<"tag", tag>>
             /\ \A i \in 1..Len(layout) :
                  b[i + 1] = <<layout[i].width, layout[i].optional, v[layout[i].name]>>
<1> DEFINE body == [i \in 1..Len(layout) |-> <<layout[i].width, layout[i].optional, v[layout[i].name]>>]
           T == {body[i] : i \in 1..Len(layout)} \cup {<<"tag", tag>>}
<1>1. body \in Seq(T) /\ Len(body) = Len(layout)
  OBVIOUS
<1>2. << <<"tag", tag>> >> \in Seq(T)
  OBVIOUS
<1>3. Encode(tag, layout, v) = << <<"tag", tag>> >> \o body
  BY DEF Encode
<1>4. \A i \in 1..Len(layout) :
        body[i] = <<layout[i].width, layout[i].optional, v[layout[i].name]>>
  OBVIOUS
<1> HIDE DEF body, T
<1>5. QED
  BY <1>1, <1>2, <1>3, <1>4

\* What a reader with the same layout finds in it.
LEMMA RoundTrip ==
  ASSUME NEW layout, Len(layout) \in Nat, Distinct(layout), NEW tag, NEW v
  PROVE  LET read == Decode(layout, Encode(tag, layout, v))
         IN  /\ read.ok
             /\ DOMAIN read.value = Names(layout)
             /\ \A n \in Names(layout) : read.value[n] = v[n]
<1> DEFINE b == Encode(tag, layout, v)
           place(n) == CHOOSE i \in 1..Len(layout) : layout[i].name = n
           value == [n \in Names(layout) |-> b[1 + place(n)][3]]
<1>1. /\ Len(b) = Len(layout) + 1
      /\ \A i \in 1..Len(layout) :
           b[i + 1] = <<layout[i].width, layout[i].optional, v[layout[i].name]>>
  BY Encoded
<1>2. DOMAIN value = Names(layout)
  OBVIOUS
<1>3. Decode(layout, b) = [ok |-> TRUE, value |-> value]
  <2>1. Len(b) > Len(layout)
    BY <1>1
  <2>2. \A i \in 1..Len(layout) :
          Len(b[i + 1]) = 3 /\ b[i + 1][1] = layout[i].width /\ b[i + 1][2] = layout[i].optional
    <3> TAKE i \in 1..Len(layout)
    <3>1. b[i + 1] = <<layout[i].width, layout[i].optional, v[layout[i].name]>>
      BY <1>1
    <3> HIDE DEF b
    <3>2. QED
      BY <3>1
  <2> HIDE DEF b
  <2>3. QED
    BY <2>1, <2>2 DEF Decode, Names
<1>4. ASSUME NEW n \in Names(layout) PROVE value[n] = v[n]
  <2>1. PICK j \in 1..Len(layout) : n = layout[j].name
    BY DEF Names
  <2>2. place(n) = j
    BY <2>1, Found
  <2> HIDE DEF b, place
  <2>3. value[n] = b[1 + j][3]
    BY <2>2
  <2>4. b[1 + j] = <<layout[j].width, layout[j].optional, v[n]>>
    BY <1>1, <2>1
  <2>5. QED
    BY <2>3, <2>4
<1>5. /\ Decode(layout, Encode(tag, layout, v)).ok
      /\ Decode(layout, Encode(tag, layout, v)).value = value
  <2> HIDE DEF value
  <2>1. QED
    BY <1>3
<1> HIDE DEF value
<1>6. QED
  BY <1>2, <1>4, <1>5

Kinds == {"Agreement", "AssetPolicy", "ProtocolConfig"}

LEMMA Layouts ==
  ASSUME NEW kind \in Kinds
  PROVE  Len(Layout(kind)) \in Nat /\ Distinct(Layout(kind))
<1>1. Len(AgreementData) = 24 /\ Len(AssetPolicyData) = 7 /\ Len(ProtocolConfigData) = 3
  BY DEF AgreementData, AssetPolicyData, ProtocolConfigData
<1>2. Distinct(AgreementData)
  BY DEF Distinct, AgreementData, Field, Optional
<1>3. Distinct(AssetPolicyData) /\ Distinct(ProtocolConfigData)
  BY DEF Distinct, AssetPolicyData, ProtocolConfigData, Field, Optional
<1>4. QED
  BY <1>1, <1>2, <1>3 DEF Layout, Kinds

LEMMA Structs ==
  ASSUME NEW op \in Operations
  PROVE  Len(Struct(op)) \in Nat /\ Distinct(Struct(op))
<1>1. /\ Len(CreateOfferStruct) = 12 /\ Len(ActivateStruct) = 9 /\ Len(AcceptRequestStruct) = 8
      /\ Len(ExerciseStruct) = 10 /\ Len(RefundStruct) = 6 /\ Len(CleanupTerminalStruct) = 8
      /\ Len(InitializeStruct) = 5 /\ Len(CreateAssetPolicyStruct) = 5 /\ Len(UpdateAssetPolicyStruct) = 4
  BY DEF CreateOfferStruct, ActivateStruct, AcceptRequestStruct, ExerciseStruct, RefundStruct,
    CleanupTerminalStruct, InitializeStruct, CreateAssetPolicyStruct, UpdateAssetPolicyStruct
<1> USE DEF Distinct, Arg, Account, Mut, Signer, MutSigner
<1>2. Distinct(CreateOfferStruct) /\ Distinct(ActivateStruct) /\ Distinct(AcceptRequestStruct)
  BY DEF CreateOfferStruct, ActivateStruct, AcceptRequestStruct
<1>3. Distinct(ExerciseStruct) /\ Distinct(RefundStruct) /\ Distinct(CleanupTerminalStruct)
  BY DEF ExerciseStruct, RefundStruct, CleanupTerminalStruct
<1>4. Distinct(InitializeStruct) /\ Distinct(CreateAssetPolicyStruct) /\ Distinct(UpdateAssetPolicyStruct)
  BY DEF InitializeStruct, CreateAssetPolicyStruct, UpdateAssetPolicyStruct
<1> HIDE DEF Distinct
<1>5. QED
  BY <1>1, <1>2, <1>3, <1>4 DEF Struct, Operations

\* decode.rs finds the agreement by its position; the program's structures have it there.
LEMMA Positions ==
  ASSUME NEW op \in Operations, Operation(op) # Unlisted
  PROVE  LET place == Position(Operation(op))
         IN  place \in 1..Len(Struct(op)) /\ Struct(op)[place].name = "agreement"
BY DEF Operations, Operation, Unlisted, Position, Struct, CreateOfferStruct, ActivateStruct,
  AcceptRequestStruct, ExerciseStruct, RefundStruct, CleanupTerminalStruct,
  Arg, Account, Mut, Signer, MutSigner

(***************************************************************************)
(* What the server recorded is what the ledger did.                        *)
(***************************************************************************)
Phased ==
  /\ request = None => message = None /\ intent = Unread /\ ran = Idle
  /\ message # None => ran = Idle
  /\ message # None /\ intent # Unread => intent = DecodeMessage(message)

LEMMA PhasedKeeps == Phased /\ [WireNext]_wireVars => Phased'
<1> SUFFICES ASSUME Phased, [WireNext]_wireVars PROVE Phased'
  OBVIOUS
<1> USE DEF Phased
<1>1. ASSUME NEW key, Fetch(key) PROVE Phased'
  BY <1>1 DEF Fetch
<1>2. ASSUME NEW by, NEW r, NEW m, Send(by, r, m) PROVE Phased'
  BY <1>2 DEF Send, None
<1>3. CASE Record
  BY <1>3 DEF Record
<1>4. ASSUME NEW ok, Land(ok) PROVE Phased'
  BY <1>4 DEF Land
<1>5. CASE Forget
  BY <1>5 DEF Forget
<1>6. CASE UNCHANGED wireVars
  BY <1>6 DEF wireVars
<1> HIDE DEF Phased
<1>7. QED
  BY <1>1, <1>2, <1>3, <1>4, <1>5, <1>6 DEF WireNext, AppSigns, PluginSigns, OtherSigns

\* A message the server has recorded does, if it runs, what was recorded.
LEMMA RecordedRuns ==
  ASSUME NEW m, DecodeMessage(m).kind = "recorded",
         \A i \in Ours(m) : Runs(ledger, m, m.ixs[i])
  PROVE  LET read == DecodeMessage(m)
         IN  /\ Ours(m) = {1}
             /\ Effect(m.ixs[1]) =
                  [operation |-> read.operation, actor |-> read.owner, agreement |-> read.agreement]
<1> DEFINE ix == m.ixs[1]
           op == OpOf(ix)
           read == ReadIntent(m.payer, ix)
<1>1. /\ Ours(m) # {} /\ Len(m.ixs) = 1 /\ ix.accounts[1] = m.payer
      /\ DecodeMessage(m) = read
  BY DEF DecodeMessage, NotOurs, Refused, Ours
<1>2. Ours(m) = {1}
  BY <1>1 DEF Ours
<1>3. Enough(ix) /\ op \in Operations
  BY <1>2 DEF Runs, AccountsRight, Enough, Known, OpOf
<1>4. /\ Operation(op) # Unlisted
      /\ read.operation = Operation(op) /\ read.owner = m.payer
      /\ read.agreement = ix.accounts[Position(Operation(op))]
  BY <1>1 DEF ReadIntent, ReadOperation, Refused
<1> DEFINE place == Position(Operation(op))
<1>5. place \in 1..Len(Struct(op)) /\ Struct(op)[place].name = "agreement" /\ Distinct(Struct(op))
  BY <1>3, <1>4, Positions, Structs
<1>6. "agreement" \in DOMAIN Taken(ix) /\ Taken(ix).agreement = ix.accounts[place]
  <2> HIDE DEF ix, place
  <2>1. (CHOOSE i \in 1..Len(Struct(op)) : Struct(op)[i].name = "agreement") = place
    BY <1>5, Found
  <2>2. QED
    BY <1>5, <2>1 DEF Taken
<1>7. QED
  BY <1>1, <1>2, <1>4, <1>6 DEF Effect

\* Whoever made a message the server recorded: if the ledger runs it, it does that
\* operation, once, by that owner, on that agreement (decode.rs against the program).
THEOREM IntentsAreTrue == WireSpec => []IntentTrue
<1>1. WireInit => Phased /\ IntentTrue
  BY DEF WireInit, Phased, IntentTrue, Idle, Unread
<1>2. Phased /\ IntentTrue /\ [WireNext]_wireVars => IntentTrue'
  <2> SUFFICES ASSUME Phased, IntentTrue, [WireNext]_wireVars PROVE IntentTrue'
    OBVIOUS
  <2>1. ASSUME NEW ok, Land(ok), intent.kind = "recorded", ran'.kind = "ran"
        PROVE  ran'.effects = << [operation |-> intent.operation, actor |-> intent.owner,
                                  agreement |-> intent.agreement] >>
    <3>1. message # None /\ intent = DecodeMessage(message)
      BY <2>1 DEF Land, Phased, Unread
    <3>2. /\ \A i \in Ours(message) : Runs(ledger, message, message.ixs[i])
          /\ ran'.effects = [i \in Ours(message) |-> Effect(message.ixs[i])]
      BY <2>1 DEF Land, Refused
    <3>3. /\ Ours(message) = {1}
          /\ Effect(message.ixs[1]) = [operation |-> intent.operation, actor |-> intent.owner,
                                       agreement |-> intent.agreement]
      BY <2>1, <3>1, <3>2, RecordedRuns
    <3>4. QED
      BY <3>2, <3>3
  <2>2. ASSUME NEW ok, Land(ok) PROVE IntentTrue'
    BY <2>1, <2>2 DEF IntentTrue, Land
  <2>3. CASE Record
    BY <2>3 DEF Record, Phased, IntentTrue, Idle
  <2>4. CASE Forget
    BY <2>4 DEF Forget, IntentTrue, Idle
  <2>5. ASSUME UNCHANGED <<intent, ran>> PROVE IntentTrue'
    BY <2>5 DEF IntentTrue
  <2>6. QED
    BY <2>2, <2>3, <2>4, <2>5
    DEF WireNext, wireVars, Fetch, AppSigns, PluginSigns, OtherSigns, Send
<1>3. QED
  BY <1>1, <1>2, PhasedKeeps, PTL DEF WireSpec

(***************************************************************************)
(* What the ledger stores.                                                 *)
(***************************************************************************)
IsA(bytes, kind) ==
  bytes # <<>> /\ Head(bytes) = <<"tag", kind>> /\ Decode(Layout(kind), bytes).ok

ConfigOK(led, k) ==
  /\ k = ConfigPda /\ IsA(led[k], "ProtocolConfig")
  /\ LET c == Load(led, k, "ProtocolConfig")
     IN  c.authority = Admin /\ c.usdcMint = Usdc /\ c.usdcProgram = Program("token")

PolicyOK(led, k) == (\E m : k = PolicyPda(m)) /\ IsA(led[k], "AssetPolicy")

DealOK(led, k) ==
  /\ IsA(led[k], "Agreement")
  /\ LET g == Load(led, k, "Agreement")
     IN  /\ k = AgreementPda(g.creator, g.nonce)
         /\ g.usdcMint = Usdc /\ g.usdcProgram = Program("token")
         /\ IsMint(g.underlyingMint) /\ MintProgram(g.underlyingMint) = Program("token-2022")
         /\ g.underlyingProgram = Program("token-2022")
         /\ PolicyPda(g.underlyingMint) \in DOMAIN led
         /\ g.side = Writer => \E w : g.writer = Some(w)

LedgerOK(led) == \A k \in DOMAIN led : ConfigOK(led, k) \/ PolicyOK(led, k) \/ DealOK(led, k)

\* What never changes of an account once it is there.
Kept(g, h) ==
  /\ h.creator = g.creator /\ h.nonce = g.nonce /\ h.side = g.side
  /\ h.underlyingMint = g.underlyingMint
  /\ g.side = Writer => h.writer = g.writer

Follows(led, new, k) ==
  /\ \A kind \in Kinds : IsA(led[k], kind) => IsA(new[k], kind)
  /\ IsA(led[k], "ProtocolConfig") => new[k] = led[k]
  /\ IsA(led[k], "Agreement") => Kept(Load(led, k, "Agreement"), Load(new, k, "Agreement"))

Grows(led, new) == \A k \in DOMAIN led : k \in DOMAIN new /\ Follows(led, new, k)

LEMMA Stores ==
  ASSUME NEW kind \in Kinds, NEW v
  PROVE  LET b == Encode(kind, Layout(kind), v)
         IN  /\ IsA(b, kind)
             /\ DOMAIN Decode(Layout(kind), b).value = Names(Layout(kind))
             /\ \A n \in Names(Layout(kind)) : Decode(Layout(kind), b).value[n] = v[n]
BY Layouts, Encoded, RoundTrip DEF IsA

LEMMA LayoutIs ==
  /\ Layout("Agreement") = AgreementData
  /\ Layout("AssetPolicy") = AssetPolicyData
  /\ Layout("ProtocolConfig") = ProtocolConfigData
BY DEF Layout

LEMMA OneKind ==
  ASSUME NEW b, NEW x, NEW y, IsA(b, x), IsA(b, y)
  PROVE  x = y
BY DEF IsA

LEMMA AgreementNames ==
  { "creator", "nonce", "side", "writer", "holder", "underlyingMint", "underlyingProgram",
    "usdcMint", "usdcProgram", "status", "designatedCounterparty" } \subseteq Names(AgreementData)
<1>1. /\ Len(AgreementData) = 24
      /\ AgreementData[3].name = "creator" /\ AgreementData[4].name = "side"
      /\ AgreementData[5].name = "nonce" /\ AgreementData[6].name = "designatedCounterparty"
      /\ AgreementData[7].name = "writer" /\ AgreementData[8].name = "holder"
      /\ AgreementData[9].name = "underlyingMint" /\ AgreementData[10].name = "underlyingProgram"
      /\ AgreementData[12].name = "usdcMint" /\ AgreementData[13].name = "usdcProgram"
      /\ AgreementData[24].name = "status"
  BY DEF AgreementData, Field, Optional
<1>2. QED
  BY <1>1 DEF Names

LEMMA ConfigNames == {"authority", "usdcMint", "usdcProgram"} \subseteq Names(ProtocolConfigData)
<1>1. /\ Len(ProtocolConfigData) = 3
      /\ ProtocolConfigData[1].name = "authority" /\ ProtocolConfigData[2].name = "usdcMint"
      /\ ProtocolConfigData[3].name = "usdcProgram"
  BY DEF ProtocolConfigData, Field
<1>2. QED
  BY <1>1 DEF Names

LEMMA TermNames ==
  /\ {"nonce", "side", "designatedCounterparty"} \subseteq Names(OfferTermsData)
  /\ { "creator", "writer", "holder", "underlyingMint", "underlyingProgram", "usdcMint", "usdcProgram",
       "status" } \cap Names(OfferTermsData) = {}
<1>1. /\ Len(OfferTermsData) = 8
      /\ OfferTermsData[1].name = "nonce" /\ OfferTermsData[2].name = "side"
      /\ OfferTermsData[3].name = "designatedCounterparty"
      /\ OfferTermsData[4].name = "quantityRaw" /\ OfferTermsData[5].name = "payout"
      /\ OfferTermsData[6].name = "premium" /\ OfferTermsData[7].name = "acceptBefore"
      /\ OfferTermsData[8].name = "expiresAt"
  BY DEF OfferTermsData, Field, Optional
<1>2. \A i \in 1..8 : i \in {1, 2, 3, 4, 5, 6, 7, 8}
  OBVIOUS
<1>3. QED
  BY <1>1, <1>2 DEF Names

\* One account is written, the others stay.
LEMMA PutKeeps ==
  ASSUME NEW led, LedgerOK(led), NEW k, NEW b, NEW new, new = Put(k, b) ++ led,
         ConfigOK(new, k) \/ PolicyOK(new, k) \/ DealOK(new, k),
         k \in DOMAIN led => Follows(led, new, k)
  PROVE  LedgerOK(new) /\ Grows(led, new)
<1>1. DOMAIN new = {k} \cup DOMAIN led /\ \A x \in DOMAIN led : x # k => new[x] = led[x]
  BY DEF ++, Put
<1>2. ASSUME NEW x \in DOMAIN led, x # k
      PROVE  /\ ConfigOK(new, x) \/ PolicyOK(new, x) \/ DealOK(new, x)
             /\ Follows(led, new, x)
  <2>1. new[x] = led[x] /\ \A kind : Load(new, x, kind) = Load(led, x, kind)
    BY <1>1, <1>2 DEF Load
  <2>2. ConfigOK(led, x) => ConfigOK(new, x)
    BY <2>1 DEF ConfigOK
  <2>3. PolicyOK(led, x) => PolicyOK(new, x)
    BY <2>1 DEF PolicyOK
  <2>4. DealOK(led, x) => DealOK(new, x)
    BY <1>1, <2>1 DEF DealOK
  <2>5. Follows(led, new, x)
    BY <2>1 DEF Follows, Kept
  <2>6. QED
    BY <2>2, <2>3, <2>4, <2>5 DEF LedgerOK
<1>3. QED
  BY <1>1, <1>2 DEF LedgerOK, Grows

LEMMA ByKey ==
  ASSUME NEW led, LedgerOK(led), NEW k \in DOMAIN led
  PROVE  /\ IsA(led[k], "ProtocolConfig") => ConfigOK(led, k)
         /\ IsA(led[k], "AssetPolicy") => PolicyOK(led, k)
         /\ IsA(led[k], "Agreement") => DealOK(led, k)
         /\ k = ConfigPda => ConfigOK(led, k)
         /\ \A m : k = PolicyPda(m) => PolicyOK(led, k)
<1>1. /\ ConfigOK(led, k) => k = ConfigPda /\ IsA(led[k], "ProtocolConfig")
      /\ PolicyOK(led, k) => (\E m : k = PolicyPda(m)) /\ IsA(led[k], "AssetPolicy")
      /\ DealOK(led, k) => (\E c, n : k = AgreementPda(c, n)) /\ IsA(led[k], "Agreement")
  BY DEF ConfigOK, PolicyOK, DealOK
<1>2. \A m, c, n : /\ ConfigPda # PolicyPda(m) /\ ConfigPda # AgreementPda(c, n)
                   /\ PolicyPda(m) # AgreementPda(c, n)
  BY DEF ConfigPda, PolicyPda, AgreementPda
<1>3. \A m, c, n, x : PolicyPda(x) # AgreementPda(c, n)
  BY DEF PolicyPda, AgreementPda
<1>4. QED
  BY <1>1, <1>2, <1>3, OneKind DEF LedgerOK

LEMMA HeldIsA ==
  ASSUME NEW led, LedgerOK(led), NEW k, NEW kind, Holds(led, k, kind)
  PROVE  k \in DOMAIN led /\ IsA(led[k], kind)
BY DEF Holds, LedgerOK, ConfigOK, PolicyOK, DealOK, IsA

LEMMA InitializeStores ==
  ASSUME NEW led, LedgerOK(led), NEW a, NEW args, InitializeConstraints(a), a.config \notin DOMAIN led
  PROVE  LET new == Stored(led, "initialize", a, args) ++ led IN LedgerOK(new) /\ Grows(led, new)
<1> DEFINE v == [authority |-> a.authority, usdcMint |-> a.usdcMint, usdcProgram |-> Program("token")]
           b == Encode("ProtocolConfig", ProtocolConfigData, v)
           new == Put(a.config, b) ++ led
<1>1. Stored(led, "initialize", a, args) = Put(a.config, b)
  BY DEF Stored
<1>2. a.config = ConfigPda /\ a.authority = Admin /\ a.usdcMint = Usdc
  BY DEF InitializeConstraints, MintProgram, Program
<1>3. new[a.config] = b
  BY DEF ++, Put
<1>4. v.authority = Admin /\ v.usdcMint = Usdc /\ v.usdcProgram = Program("token")
  BY <1>2
<1>5. ConfigOK(new, a.config)
  <2> HIDE DEF v
  <2>1. /\ IsA(b, "ProtocolConfig")
        /\ \A n \in Names(ProtocolConfigData) : Decode(ProtocolConfigData, b).value[n] = v[n]
    BY Stores, LayoutIs DEF Kinds
  <2> HIDE DEF b, new
  <2>2. QED
    BY <1>2, <1>3, <1>4, <2>1, ConfigNames, LayoutIs DEF ConfigOK, Load
<1> HIDE DEF b
<1>6. QED
  BY <1>1, <1>5, PutKeeps

LEMMA PolicyStores ==
  ASSUME NEW led, LedgerOK(led), NEW a, NEW args, NEW op \in {"createAssetPolicy", "updateAssetPolicy"},
         PolicyConstraints(led, a), op = "createAssetPolicy" => a.policy \notin DOMAIN led
  PROVE  LET new == Stored(led, op, a, args) ++ led IN LedgerOK(new) /\ Grows(led, new)
<1>1. PICK v : Stored(led, op, a, args) = Put(a.policy, Encode("AssetPolicy", AssetPolicyData, v))
  BY DEF Stored
<1> DEFINE b == Encode("AssetPolicy", AssetPolicyData, v)
           new == Put(a.policy, b) ++ led
<1>2. a.policy = PolicyPda(a.mint)
  BY DEF PolicyConstraints
<1>3. new[a.policy] = b
  BY DEF ++, Put
<1>4. IsA(b, "AssetPolicy")
  BY Stores, LayoutIs DEF Kinds
<1> HIDE DEF b
<1>5. PolicyOK(new, a.policy)
  BY <1>2, <1>3, <1>4 DEF PolicyOK
<1>6. a.policy \in DOMAIN led => Follows(led, new, a.policy)
  BY <1>2, <1>3, <1>4, ByKey, OneKind DEF Follows, PolicyOK, Kinds
<1>7. QED
  BY <1>1, <1>5, <1>6, PutKeeps DEF b

LEMMA CreateStores ==
  ASSUME NEW led, LedgerOK(led), NEW a, NEW args, CreateOfferConstraints(led, a, args),
         DOMAIN args = Names(OfferTermsData), a.agreement \notin DOMAIN led
  PROVE  LET new == Stored(led, "createOffer", a, args) ++ led IN LedgerOK(new) /\ Grows(led, new)
<1>1. PICK version : Stored(led, "createOffer", a, args)
                = Put(a.agreement, Encode("Agreement", AgreementData, NewAgreement(version, a, args)))
  BY DEF Stored
<1> DEFINE v == NewAgreement(version, a, args)
           b == Encode("Agreement", AgreementData, v)
           new == Put(a.agreement, b) ++ led
           g == Load(new, a.agreement, "Agreement")
<1>2. /\ v.nonce = args.nonce /\ v.side = args.side /\ v.creator = a.creator
      /\ v.underlyingMint = a.underlyingMint /\ v.underlyingProgram = a.underlyingProgram
      /\ v.usdcMint = a.usdcMint /\ v.usdcProgram = a.usdcProgram
      /\ v.writer = IF args.side = Writer THEN Some(a.creator) ELSE None
  BY TermNames DEF NewAgreement, ++
<1>3. /\ a.usdcMint = Usdc /\ a.usdcProgram = Program("token")
      /\ a.policy \in DOMAIN led /\ a.policy = PolicyPda(a.underlyingMint)
      /\ a.agreement = AgreementPda(a.creator, args.nonce)
      /\ IsMint(a.underlyingMint) /\ MintProgram(a.underlyingMint) = a.underlyingProgram
      /\ a.underlyingProgram = Program("token-2022")
  <2>1. ConfigOK(led, a.config)
    BY HeldIsA, ByKey DEF CreateOfferConstraints
  <2>2. QED
    BY <2>1 DEF CreateOfferConstraints, ConfigOK, Holds
<1>4. new[a.agreement] = b /\ DOMAIN led \subseteq DOMAIN new
  BY DEF ++, Put
<1>5. /\ IsA(b, "Agreement")
      /\ \A n \in Names(AgreementData) : Decode(AgreementData, b).value[n] = v[n]
  BY Stores, LayoutIs DEF Kinds
<1>6. \A n \in Names(AgreementData) : g[n] = v[n]
  BY <1>4, <1>5, LayoutIs DEF Load
<1> HIDE DEF v, b, new, g
<1>7. DealOK(new, a.agreement)
  <2>1. /\ g.creator = a.creator /\ g.nonce = args.nonce /\ g.side = v.side /\ g.writer = v.writer
        /\ g.underlyingMint = a.underlyingMint /\ g.underlyingProgram = a.underlyingProgram
        /\ g.usdcMint = a.usdcMint /\ g.usdcProgram = a.usdcProgram
    BY <1>2, <1>6, AgreementNames
  <2>2. g.side = Writer => g.writer = Some(a.creator)
    BY <1>2, <2>1
  <2>3. QED
    BY <1>3, <1>4, <1>5, <2>1, <2>2 DEF DealOK, g
<1>8. QED
  BY <1>1, <1>7, PutKeeps DEF new, b, v

\* Every later instruction rewrites its agreement, with the same creator, nonce, side, mint
\* and, once there is one, the same writer.
LEMMA RewriteStores ==
  ASSUME NEW led, LedgerOK(led), NEW k, Holds(led, k, "Agreement"), NEW v,
         Kept(Load(led, k, "Agreement"), v),
         \A n \in {"underlyingProgram", "usdcMint", "usdcProgram"} : v[n] = Load(led, k, "Agreement")[n]
  PROVE  LET new == Put(k, Encode("Agreement", AgreementData, v)) ++ led
         IN  LedgerOK(new) /\ Grows(led, new)
<1> DEFINE b == Encode("Agreement", AgreementData, v)
           new == Put(k, b) ++ led
           g == Load(led, k, "Agreement")
           h == Load(new, k, "Agreement")
<1>1. k \in DOMAIN led /\ IsA(led[k], "Agreement") /\ DealOK(led, k)
  BY HeldIsA, ByKey
<1>2. new[k] = b /\ DOMAIN led \subseteq DOMAIN new
  BY DEF ++, Put
<1>3. /\ IsA(b, "Agreement")
      /\ \A n \in Names(AgreementData) : Decode(AgreementData, b).value[n] = v[n]
  BY Stores, LayoutIs DEF Kinds
<1>4. \A n \in Names(AgreementData) : h[n] = v[n]
  BY <1>2, <1>3, LayoutIs DEF Load
<1> HIDE DEF b, new, h
<1>5. Kept(g, h) /\ \A n \in {"underlyingProgram", "usdcMint", "usdcProgram"} : h[n] = g[n]
  BY <1>4, AgreementNames DEF Kept
<1> HIDE DEF g
<1>6. DealOK(new, k)
  BY <1>1, <1>2, <1>3, <1>5 DEF DealOK, Kept, g, h
<1>7. Follows(led, new, k)
  BY <1>1, <1>2, <1>3, <1>5, OneKind DEF Follows, Kinds, g, h
<1>8. QED
  BY <1>6, <1>7, PutKeeps DEF new, b

LEMMA DealsStore ==
  ASSUME NEW led, LedgerOK(led), NEW a, NEW args,
         NEW op \in {"activate", "acceptRequest", "exercise", "cancelOffer", "reclaimExpired", "cleanupTerminal"},
         AgreementConstraints(led, a)
  PROVE  LET new == Stored(led, op, a, args) ++ led IN LedgerOK(new) /\ Grows(led, new)
<1> DEFINE k == a.agreement
           g == Load(led, k, "Agreement")
<1>1. Holds(led, k, "Agreement")
  BY DEF AgreementConstraints
<1>2. DOMAIN g = Names(AgreementData)
  <2>1. Decode(AgreementData, led[k]).ok
    BY <1>1, LayoutIs DEF Holds
  <2>2. QED
    BY <2>1, LayoutIs DEF Load, Decode, Unreadable, Names
<1>3. PICK v : /\ Stored(led, op, a, args) = Put(k, Encode("Agreement", AgreementData, v))
               /\ \/ v = g
                  \/ \E s : v = [g EXCEPT !.status = s, !.settledAt = Some(3)]
                  \/ \E version, who : v = Accepted(version, g, who)
  BY DEF Stored
<1>4. Kept(g, v) /\ \A n \in {"underlyingProgram", "usdcMint", "usdcProgram"} : v[n] = g[n]
  <2> HIDE DEF g
  <2>1. ASSUME NEW s, v = [g EXCEPT !.status = s, !.settledAt = Some(3)] PROVE <1>4
    BY <1>2, <2>1, AgreementNames DEF Kept
  <2>2. ASSUME NEW version, NEW who, v = Accepted(version, g, who) PROVE <1>4
    BY <1>2, <2>2, AgreementNames DEF Kept, Accepted, Writer, Holder
  <2>3. QED
    BY <1>3, <2>1, <2>2 DEF Kept
<1>5. QED
  BY <1>1, <1>3, <1>4, RewriteStores

LEMMA LandKeeps ==
  ASSUME LedgerOK(ledger), NEW ok, Land(ok)
  PROVE  LedgerOK(ledger') /\ Grows(ledger, ledger')
<1>1. CASE UNCHANGED ledger
  <2>1. \A g : Kept(g, g)
    BY DEF Kept
  <2>2. Grows(ledger, ledger)
    BY <2>1 DEF Grows, Follows
  <2>3. QED
    BY <1>1, <2>2
<1>2. ASSUME NEW ix, Runs(ledger, message, ix),
             ledger' = Stored(ledger, OpOf(ix), Taken(ix), ArgsOf(ix).value) ++ ledger
      PROVE  LedgerOK(ledger') /\ Grows(ledger, ledger')
  <2> DEFINE op == OpOf(ix)
             a == Taken(ix)
             args == ArgsOf(ix).value
  <2>1. /\ op \in Operations /\ Constraints(ledger, op, a, args) /\ ArgsOf(ix).ok
        /\ Created(op, a) \cap DOMAIN ledger = {}
    BY <1>2 DEF Runs, AccountsRight, Enough, Known, OpOf
  <2>2. op = "createOffer" => DOMAIN args = Names(OfferTermsData)
    BY <2>1 DEF ArgsOf, ArgsLayout, Decode, Unreadable, Names
  <2>3. ledger' = Stored(ledger, op, a, args) ++ ledger
    BY <1>2
  <2> HIDE DEF op, a, args
  <2>4. CASE op = "initialize"
    <3>1. InitializeConstraints(a) /\ a.config \notin DOMAIN ledger
      BY <2>1, <2>4 DEF Constraints, Created
    <3>2. QED
      BY <2>3, <2>4, <3>1, InitializeStores
  <2>5. CASE op \in {"createAssetPolicy", "updateAssetPolicy"}
    <3>1. PolicyConstraints(ledger, a) /\ (op = "createAssetPolicy" => a.policy \notin DOMAIN ledger)
      BY <2>1, <2>5 DEF Constraints, Created
    <3>2. QED
      BY <2>3, <2>5, <3>1, PolicyStores
  <2>6. CASE op = "createOffer"
    <3>1. CreateOfferConstraints(ledger, a, args) /\ a.agreement \notin DOMAIN ledger
      BY <2>1, <2>6 DEF Constraints, Created
    <3>2. QED
      BY <2>2, <2>3, <2>6, <3>1, CreateStores
  <2>7. CASE op \in {"activate", "acceptRequest", "exercise", "cancelOffer", "reclaimExpired",
                     "cleanupTerminal"}
    <3>1. AgreementConstraints(ledger, a)
      BY <2>1, <2>7
      DEF Constraints, ActivateConstraints, AcceptRequestConstraints, AcceptConstraints,
        ExerciseConstraints, CleanupTerminalConstraints, RefundConstraints
    <3>2. QED
      BY <2>3, <2>7, <3>1, DealsStore
  <2>8. QED
    BY <2>1, <2>4, <2>5, <2>6, <2>7 DEF Operations
<1>3. \/ UNCHANGED ledger
      \/ \E ix : /\ Runs(ledger, message, ix)
                 /\ ledger' = Stored(ledger, OpOf(ix), Taken(ix), ArgsOf(ix).value) ++ ledger
  <2>1. CASE Ours(message) = {}
    BY <2>1 DEF Land
  <2>2. CASE Ours(message) # {}
    <3> DEFINE j == CHOOSE i \in Ours(message) : TRUE
    <3>1. j \in Ours(message)
      BY <2>2
    <3> HIDE DEF j
    <3>2. QED
      BY <2>2, <3>1 DEF Land, j
  <2>3. QED
    BY <2>1, <2>2
<1>4. QED
  BY <1>1, <1>2, <1>3

(***************************************************************************)
(* Browsers decode what the program stored.                                *)
(***************************************************************************)
\* The generated client has the layouts of state.rs.
LEMMA SameLayouts ==
  /\ AgreementCodec = AgreementData
  /\ AssetPolicyCodec = AssetPolicyData
  /\ ProtocolConfigCodec = ProtocolConfigData
<1>1. AgreementCodec = AgreementData
  BY DEF AgreementCodec, AgreementData
<1>2. AssetPolicyCodec = AssetPolicyData
  BY DEF AssetPolicyCodec, AssetPolicyData
<1>3. ProtocolConfigCodec = ProtocolConfigData
  BY DEF ProtocolConfigCodec, ProtocolConfigData
<1>4. QED
  BY <1>1, <1>2, <1>3

LEMMA ReadAlike ==
  ASSUME NEW b, NEW kind \in Kinds, IsA(b, kind)
  PROVE  IdentifyVolarynAccount(b) = kind /\ DecodeAccount(b) = Decode(Layout(kind), b)
<1>1. b # <<>> /\ Head(b) = <<"tag", kind>>
  BY DEF IsA
<1>2. IdentifyVolarynAccount(b) = kind
  BY <1>1 DEF IdentifyVolarynAccount, Kinds
<1>3. QED
  BY <1>2, LayoutIs, SameLayouts DEF DecodeAccount, Kinds

LedgerRight == LedgerOK(ledger)

\* Every account the ledger ever holds is the configuration, the policy of a mint or an
\* agreement, at the address its own contents derive, and it never changes what it is about
\* (state.rs and the seeds of programs/volaryn/src/instructions).
THEOREM LedgerStands == WireSpec => []LedgerRight
<1>1. WireInit => LedgerRight
  BY DEF WireInit, LedgerRight, LedgerOK
<1>2. LedgerRight /\ [WireNext]_wireVars => LedgerRight'
  <2> SUFFICES ASSUME LedgerOK(ledger), [WireNext]_wireVars PROVE LedgerOK(ledger')
    BY DEF LedgerRight
  <2>1. ASSUME NEW ok, Land(ok) PROVE LedgerOK(ledger')
    BY <2>1, LandKeeps
  <2>2. CASE UNCHANGED ledger
    BY <2>2
  <2>3. QED
    BY <2>1, <2>2
    DEF WireNext, wireVars, Fetch, AppSigns, PluginSigns, OtherSigns, Send, Record, Forget
<1>3. QED
  BY <1>1, <1>2, PTL DEF WireSpec

\* A browser that looks at any account of the program, at any time, decodes it under the
\* type and with the fields that the program stored (generated/accounts against state.rs).
THEOREM AccountsReadAlike == WireSpec => []SameReading
<1>1. ASSUME LedgerRight PROVE SameReading
  <2> SUFFICES ASSUME NEW k \in DOMAIN ledger
               PROVE  LET kind == IdentifyVolarynAccount(ledger[k])
                      IN  /\ kind = Head(ledger[k])[2]
                          /\ DecodeAccount(ledger[k]) = Decode(Layout(kind), ledger[k])
    BY DEF SameReading
  <2>1. PICK kind \in Kinds : IsA(ledger[k], kind)
    BY <1>1 DEF LedgerRight, LedgerOK, ConfigOK, PolicyOK, DealOK, Kinds
  <2>2. Head(ledger[k])[2] = kind
    BY <2>1 DEF IsA
  <2>3. QED
    BY <2>1, <2>2, ReadAlike
<1>2. QED
  BY <1>1, LedgerStands, PTL

(***************************************************************************)
(* Builders.                                                               *)
(***************************************************************************)
\* The client's account table, arguments and defaults of an instruction.
ClientTable(op) ==
  CASE op = "initialize" -> InitializeAccounts
    [] op = "createAssetPolicy" -> CreateAssetPolicyAccounts
    [] op = "updateAssetPolicy" -> UpdateAssetPolicyAccounts
    [] op = "createOffer" -> CreateOfferAccounts
    [] op = "activate" -> ActivateAccounts
    [] op = "acceptRequest" -> AcceptRequestAccounts
    [] op = "exercise" -> ExerciseAccounts
    [] op = "cancelOffer" -> CancelOfferAccounts
    [] op = "reclaimExpired" -> ReclaimExpiredAccounts
    [] op = "cleanupTerminal" -> CleanupTerminalAccounts

ProgramNames == {"usdcProgram", "underlyingProgram", "systemProgram"}
ProgramOf ==
  [ usdcProgram |-> Program("token"), underlyingProgram |-> Program("token-2022"),
    systemProgram |-> Program("system") ]

\* What the plain builder of an instruction puts into its table.
Full(op, input) ==
  CASE op \in {"initialize", "createAssetPolicy"} -> input ++ SystemProgramDefault
    [] op = "updateAssetPolicy" -> input
    [] op = "createOffer" -> input ++ TokenProgramDefaults ++ SystemProgramDefault
    [] op \in {"activate", "acceptRequest", "cancelOffer", "reclaimExpired"} -> input ++ UsdcProgramDefault
    [] op \in {"exercise", "cleanupTerminal"} -> input ++ TokenProgramDefaults

\* What the plugin's builder does, which derives what it is not given.
PluginFull(op, input) ==
  CASE op = "initialize" ->
         input ++ [programData |-> ProgramDataPda, config |-> ConfigPda] ++ SystemProgramDefault
    [] op = "createAssetPolicy" ->
         input ++ [config |-> ConfigPda, policy |-> PolicyPda(input.mint)] ++ SystemProgramDefault
    [] op = "updateAssetPolicy" -> input ++ [config |-> ConfigPda, policy |-> PolicyPda(input.mint)]
    [] op = "createOffer" ->
         input ++ [config |-> ConfigPda, policy |-> CreateOfferPolicyPda(input.underlyingMint)]
               ++ ReserveDefault(input) ++ SettlementDefault(input)
               ++ TokenProgramDefaults ++ SystemProgramDefault
    [] op \in {"activate", "acceptRequest", "cancelOffer", "reclaimExpired"} ->
         input ++ ReserveDefault(input) ++ UsdcProgramDefault
    [] op \in {"exercise", "cleanupTerminal"} ->
         input ++ ReserveDefault(input) ++ SettlementDefault(input) ++ TokenProgramDefaults

LEMMA DataIs ==
  /\ CreateOfferData = OfferTermsData /\ CreateAssetPolicyData = PolicyTermsData
  /\ UpdateAssetPolicyData = PolicyTermsData
  /\ ActivateData = <<>> /\ AcceptRequestData = <<>> /\ ExerciseData = <<>> /\ CancelOfferData = <<>>
  /\ ReclaimExpiredData = <<>> /\ CleanupTerminalData = <<>> /\ InitializeData = <<>>
<1>1. CreateOfferData = OfferTermsData
  BY DEF CreateOfferData, OfferTermsData
<1>2. PolicyTermsCodec = PolicyTermsData
  BY DEF PolicyTermsCodec, PolicyTermsData
<1>3. QED
  BY <1>1, <1>2
  DEF CreateAssetPolicyData, UpdateAssetPolicyData, ActivateData, AcceptRequestData, ExerciseData,
    CancelOfferData, ReclaimExpiredData, CleanupTerminalData, InitializeData

LEMMA CalledIs ==
  ASSUME NEW op \in Operations, NEW input
  PROVE  Called(op, input) = Build(op, ClientTable(op), ArgsLayout(op), Full(op, input))
BY DataIs
DEF Operations, Called, ClientTable, ArgsLayout, Full,
  AcceptRequestSync, ActivateSync, CancelOfferSync, CleanupTerminalSync, CreateAssetPolicySync,
  CreateOfferSync, ExerciseSync, InitializeSync, ReclaimExpiredSync, UpdateAssetPolicySync

LEMMA PluginIs ==
  ASSUME NEW op \in Operations, NEW input
  PROVE  VolarynPlugin(op, input) = Build(op, ClientTable(op), ArgsLayout(op), PluginFull(op, input))
BY DataIs
DEF Operations, VolarynPlugin, ClientTable, ArgsLayout, PluginFull,
  AcceptRequestAsync, ActivateAsync, CancelOfferAsync, CleanupTerminalAsync, CreateAssetPolicyAsync,
  CreateOfferAsync, ExerciseAsync, InitializeAsync, ReclaimExpiredAsync, UpdateAssetPolicyAsync

LEMMA BuildSame ==
  ASSUME NEW tag, NEW table, NEW layout, NEW f, NEW g,
         \A i \in 1..Len(table) : f[table[i].name] = g[table[i].name],
         \A i \in 1..Len(layout) : f[layout[i].name] = g[layout[i].name]
  PROVE  Build(tag, table, layout, f) = Build(tag, table, layout, g)
<1>1. Encode(tag, layout, f) = Encode(tag, layout, g)
  BY DEF Encode
<1>2. QED
  BY <1>1 DEF Build

\* The program's structure and the client's table of an instruction are the same: names,
\* signers and writable accounts.
LEMMA SameTables ==
  ASSUME NEW op \in Operations
  PROVE  /\ Len(ClientTable(op)) = Len(Struct(op))
         /\ \A i \in 1..Len(Struct(op)) :
              /\ ClientTable(op)[i].name = Struct(op)[i].name
              /\ ClientTable(op)[i].signer <=> Struct(op)[i].signer
              /\ ClientTable(op)[i].writable <=> Struct(op)[i].mut
<1> DEFINE Same(c, s) ==
      /\ Len(c) = Len(s)
      /\ \A i \in 1..Len(s) : /\ c[i].name = s[i].name
                              /\ c[i].signer <=> s[i].signer
                              /\ c[i].writable <=> s[i].mut
<1> USE DEF Arg, Account, Mut, Signer, MutSigner, Reads, Meta, Pays, Signs, Writes
<1>1. Same(InitializeAccounts, InitializeStruct)
  BY DEF InitializeAccounts, InitializeStruct
<1>2. Same(CreateAssetPolicyAccounts, CreateAssetPolicyStruct)
  BY DEF CreateAssetPolicyAccounts, CreateAssetPolicyStruct
<1>3. Same(UpdateAssetPolicyAccounts, UpdateAssetPolicyStruct)
  BY DEF UpdateAssetPolicyAccounts, UpdateAssetPolicyStruct
<1>4. Same(CreateOfferAccounts, CreateOfferStruct)
  BY DEF CreateOfferAccounts, CreateOfferStruct
<1>5. Same(ActivateAccounts, ActivateStruct)
  BY DEF ActivateAccounts, ActivateStruct
<1>6. Same(AcceptRequestAccounts, AcceptRequestStruct)
  BY DEF AcceptRequestAccounts, AcceptRequestStruct
<1>7. Same(ExerciseAccounts, ExerciseStruct)
  BY DEF ExerciseAccounts, ExerciseStruct
<1>8. Same(CancelOfferAccounts, RefundStruct) /\ Same(ReclaimExpiredAccounts, RefundStruct)
  BY DEF CancelOfferAccounts, ReclaimExpiredAccounts, RefundStruct
<1>9. Same(CleanupTerminalAccounts, CleanupTerminalStruct)
  BY DEF CleanupTerminalAccounts, CleanupTerminalStruct
<1> HIDE DEF Same
<1>10. Same(ClientTable(op), Struct(op))
  BY <1>1, <1>2, <1>3, <1>4, <1>5, <1>6, <1>7, <1>8, <1>9 DEF Operations, ClientTable, Struct
<1>11. QED
  BY <1>10 DEF Same

LEMMA FullIs ==
  ASSUME NEW op \in Operations, NEW input, DOMAIN input \cap ProgramNames = {}
  PROVE  /\ \A n \in DOMAIN input : Full(op, input)[n] = input[n]
         /\ op \notin {"initialize", "createAssetPolicy", "updateAssetPolicy"} =>
              Full(op, input).usdcProgram = ProgramOf.usdcProgram
         /\ op \in {"createOffer", "exercise", "cleanupTerminal"} =>
              Full(op, input).underlyingProgram = ProgramOf.underlyingProgram
         /\ op \in {"initialize", "createAssetPolicy", "createOffer"} =>
              Full(op, input).systemProgram = ProgramOf.systemProgram
BY DEF Operations, Full, ++, ProgramNames, ProgramOf, SystemProgramDefault, TokenProgramDefaults,
  UsdcProgramDefault

LEMMA ProgramsUsed ==
  ASSUME NEW op \in Operations
  PROVE  /\ "usdcProgram" \in Names(Struct(op)) =>
              op \notin {"initialize", "createAssetPolicy", "updateAssetPolicy"}
         /\ "underlyingProgram" \in Names(Struct(op)) => op \in {"createOffer", "exercise", "cleanupTerminal"}
         /\ "systemProgram" \in Names(Struct(op)) => op \in {"initialize", "createAssetPolicy", "createOffer"}
<1> USE DEF Arg, Account, Mut, Signer, MutSigner, Names
<1>1. /\ {"usdcProgram", "underlyingProgram"} \cap Names(InitializeStruct) = {}
      /\ {"usdcProgram", "underlyingProgram"} \cap Names(CreateAssetPolicyStruct) = {}
      /\ ProgramNames \cap Names(UpdateAssetPolicyStruct) = {}
  BY DEF InitializeStruct, CreateAssetPolicyStruct, UpdateAssetPolicyStruct, ProgramNames
<1>2. /\ {"systemProgram", "underlyingProgram"} \cap Names(ActivateStruct) = {}
      /\ {"systemProgram", "underlyingProgram"} \cap Names(AcceptRequestStruct) = {}
      /\ {"systemProgram", "underlyingProgram"} \cap Names(RefundStruct) = {}
  BY DEF ActivateStruct, AcceptRequestStruct, RefundStruct
<1>3. "systemProgram" \notin Names(ExerciseStruct) /\ "systemProgram" \notin Names(CleanupTerminalStruct)
  BY DEF ExerciseStruct, CleanupTerminalStruct
<1> HIDE DEF Names
<1>4. QED
  BY <1>1, <1>2, <1>3 DEF Operations, Struct, ProgramNames

\* The accounts and arguments a request has to name.
AppNames(op) == (Names(Struct(op)) \ ProgramNames) \cup Names(ArgsLayout(op))

Whole(op, input) == AppNames(op) \subseteq DOMAIN input /\ DOMAIN input \cap ProgramNames = {}

\* What may be left out of it has one value.
Derived(op, input) ==
  /\ "reserve" \in Derivable(op) =>
       "agreement" \in DOMAIN input /\ input.reserve = ReservePda(input.agreement)
  /\ "settlement" \in Derivable(op) => input.settlement = SettlementPda(input.agreement)
  /\ op = "createOffer" =>
       /\ "underlyingMint" \in DOMAIN input
       /\ input.config = ConfigPda /\ input.policy = PolicyPda(input.underlyingMint)
  /\ op \in {"createAssetPolicy", "updateAssetPolicy"} =>
       /\ "mint" \in DOMAIN input
       /\ input.config = ConfigPda /\ input.policy = PolicyPda(input.mint)
  /\ op = "initialize" => input.programData = ProgramDataPda /\ input.config = ConfigPda

LEMMA GivenIs ==
  ASSUME NEW input, NEW left
  PROVE  /\ DOMAIN Given(input, left) = DOMAIN input \ left
         /\ \A n \in DOMAIN input \ left : Given(input, left)[n] = input[n]
BY DEF Given

\* What a builder derives is what it is not given.
LEMMA LeftDerived ==
  ASSUME NEW op \in Operations, NEW input, Whole(op, input), Derived(op, input),
         NEW left \in SUBSET Derivable(op), NEW n \in DOMAIN input
  PROVE  PluginFull(op, Given(input, left))[n] = input[n]
<1> DEFINE x == Given(input, left)
<1>1. DOMAIN x = DOMAIN input \ left /\ \A m \in DOMAIN input \ left : x[m] = input[m]
  BY GivenIs
<1> HIDE DEF x
<1>2. n \notin ProgramNames
  BY DEF Whole
<1> USE DEF ++, ReserveDefault, SettlementDefault, SystemProgramDefault, TokenProgramDefaults,
      UsdcProgramDefault, ProgramNames
<1>3. CASE n \in DOMAIN x
  BY <1>1, <1>3 DEF PluginFull, Operations, x
<1>4. CASE n \notin DOMAIN x
  <2>1. n \in left
    BY <1>1, <1>4
  <2>2. CASE op = "initialize"
    <3>1. n \in {"programData", "config"}
      BY <2>1, <2>2 DEF Derivable
    <3>2. input.programData = ProgramDataPda /\ input.config = ConfigPda
      BY <2>2 DEF Derived
    <3>3. QED
      BY <1>4, <2>2, <3>1, <3>2 DEF PluginFull, x
  <2>3. CASE op \in {"createAssetPolicy", "updateAssetPolicy"}
    <3>1. n \in {"config", "policy"} /\ left \subseteq {"config", "policy"}
      BY <2>1, <2>3 DEF Derivable
    <3>2. x.mint = input.mint
      BY <1>1, <2>3, <3>1 DEF Derived
    <3>3. input.config = ConfigPda /\ input.policy = PolicyPda(x.mint)
      BY <2>3, <3>2 DEF Derived
    <3>4. (x ++ [config |-> ConfigPda, policy |-> PolicyPda(x.mint)])[n] = input[n]
      BY <1>4, <3>1, <3>3
    <3>5. n \in DOMAIN (x ++ [config |-> ConfigPda, policy |-> PolicyPda(x.mint)])
      BY <3>1
    <3>6. QED
      BY <2>3, <3>4, <3>5, SpreadFirst DEF PluginFull, x
  <2>4. CASE op = "createOffer"
    <3>1. /\ n \in {"config", "policy", "reserve", "settlement"}
          /\ left \subseteq {"config", "policy", "reserve", "settlement"}
      BY <2>1, <2>4 DEF Derivable
    <3>2. x.agreement = input.agreement /\ x.underlyingMint = input.underlyingMint
      BY <1>1, <2>4, <3>1 DEF Derived, Derivable
    <3>3. /\ input.config = ConfigPda /\ input.policy = CreateOfferPolicyPda(x.underlyingMint)
          /\ input.reserve = ReservePda(x.agreement) /\ input.settlement = SettlementPda(x.agreement)
      BY <2>4, <3>2 DEF Derived, Derivable, CreateOfferPolicyPda, PolicyPda
    <3> DEFINE own == x ++ [config |-> ConfigPda, policy |-> CreateOfferPolicyPda(x.underlyingMint)]
               all == own ++ ReserveDefault(x) ++ SettlementDefault(x)
    <3>4. DOMAIN own = DOMAIN x \cup {"config", "policy"} /\ (n \in {"config", "policy"} => own[n] = input[n])
      BY <1>4, <3>3
    <3>5. n \in DOMAIN all /\ all[n] = input[n]
      <4> HIDE DEF own
      <4>1. QED
        BY <1>4, <3>1, <3>3, <3>4
    <3>6. PluginFull(op, x) = all ++ TokenProgramDefaults ++ SystemProgramDefault
      <4> HIDE DEF ++
      <4>1. QED
        BY <2>4 DEF PluginFull
    <3> HIDE DEF all
    <3>7. QED
      BY <3>5, <3>6 DEF x
  <2>5. CASE op \in {"activate", "acceptRequest", "cancelOffer", "reclaimExpired"}
    <3>1. n = "reserve" /\ left \subseteq {"reserve"}
      BY <2>1, <2>5 DEF Derivable
    <3>2. x.agreement = input.agreement /\ input.reserve = ReservePda(x.agreement)
      BY <1>1, <2>5, <3>1 DEF Derived, Derivable
    <3>3. QED
      BY <1>4, <2>5, <3>1, <3>2 DEF PluginFull, x
  <2>6. CASE op \in {"exercise", "cleanupTerminal"}
    <3>1. n \in {"reserve", "settlement"} /\ left \subseteq {"reserve", "settlement"}
      BY <2>1, <2>6 DEF Derivable
    <3>2. x.agreement = input.agreement
      BY <1>1, <2>6, <3>1 DEF Derived, Derivable
    <3>3. input.reserve = ReservePda(x.agreement) /\ input.settlement = SettlementPda(x.agreement)
      BY <2>6, <3>2 DEF Derived, Derivable
    <3>4. QED
      BY <1>4, <2>6, <3>1, <3>3 DEF PluginFull, x
  <2>7. QED
    BY <2>2, <2>3, <2>4, <2>5, <2>6 DEF Operations
<1>5. QED
  BY <1>3, <1>4

\* The programs are nobody's to give: every builder fills them in alike.
LEMMA LeftPrograms ==
  ASSUME NEW op \in Operations, NEW input, DOMAIN input \cap ProgramNames = {},
         NEW left \in SUBSET Derivable(op), NEW n \in ProgramNames \cap Names(Struct(op))
  PROVE  PluginFull(op, Given(input, left))[n] = Full(op, input)[n]
<1> DEFINE x == Given(input, left)
<1>1. DOMAIN x \cap ProgramNames = {}
  BY GivenIs
<1>2. Full(op, input)[n] = ProgramOf[n]
  BY FullIs, ProgramsUsed DEF ProgramNames
<1>3. PluginFull(op, x)[n] = ProgramOf[n]
  <2> HIDE DEF x
  <2> USE DEF ++, SystemProgramDefault, TokenProgramDefaults, UsdcProgramDefault, ReserveDefault,
        SettlementDefault
  <2>1. CASE n = "usdcProgram"
    <3>1. op \notin {"initialize", "createAssetPolicy", "updateAssetPolicy"} /\ n \notin DOMAIN x
      BY <1>1, <2>1, ProgramsUsed DEF ProgramNames
    <3>2. QED
      BY <2>1, <3>1 DEF Operations, PluginFull, ProgramOf
  <2>2. CASE n = "underlyingProgram"
    <3>1. op \in {"createOffer", "exercise", "cleanupTerminal"} /\ n \notin DOMAIN x
      BY <1>1, <2>2, ProgramsUsed DEF ProgramNames
    <3>2. QED
      BY <2>2, <3>1 DEF PluginFull, ProgramOf
  <2>3. CASE n = "systemProgram"
    <3>1. op \in {"initialize", "createAssetPolicy", "createOffer"} /\ n \notin DOMAIN x
      BY <1>1, <2>3, ProgramsUsed DEF ProgramNames
    <3>2. QED
      BY <2>3, <3>1 DEF PluginFull, ProgramOf
  <2>4. QED
    BY <2>1, <2>2, <2>3 DEF ProgramNames
<1>4. QED
  BY <1>2, <1>3

\* The plugin builds the instruction the app would.
LEMMA PluginAsApp ==
  ASSUME NEW op \in Operations, NEW input, Whole(op, input), Derived(op, input),
         NEW left \in SUBSET Derivable(op)
  PROVE  VolarynPlugin(op, Given(input, left)) = Called(op, input)
<1> DEFINE f == PluginFull(op, Given(input, left))
           g == Full(op, input)
<1>1. ASSUME NEW n \in Names(Struct(op)) \cup Names(ArgsLayout(op)) PROVE f[n] = g[n]
  <2>1. CASE n \in DOMAIN input
    BY <2>1, LeftDerived, FullIs DEF Whole
  <2>2. CASE n \notin DOMAIN input
    <3>1. n \in ProgramNames \cap Names(Struct(op))
      BY <2>2 DEF Whole, AppNames
    <3>2. QED
      BY <3>1, LeftPrograms DEF Whole
  <2>3. QED
    BY <2>1, <2>2
<1> HIDE DEF f, g
<1>2. \A i \in 1..Len(ClientTable(op)) : f[ClientTable(op)[i].name] = g[ClientTable(op)[i].name]
  BY <1>1, SameTables DEF Names
<1>3. \A i \in 1..Len(ArgsLayout(op)) : f[ArgsLayout(op)[i].name] = g[ArgsLayout(op)[i].name]
  BY <1>1 DEF Names
<1>4. Build(op, ClientTable(op), ArgsLayout(op), f) = Build(op, ClientTable(op), ArgsLayout(op), g)
  BY <1>2, <1>3, BuildSame
<1>5. QED
  BY <1>4, PluginIs, CalledIs DEF f, g

(***************************************************************************)
(* Requests.                                                               *)
(***************************************************************************)
\* The accounts of the program's structures, in their order.
Listed(table, names) ==
  Len(table) = Len(names) /\ \A i \in 1..Len(names) : table[i].name = names[i]

InitializeNames ==
  <<"authority", "programData", "config", "usdcMint", "systemProgram">>
CreateAssetPolicyNames ==
  <<"authority", "config", "mint", "policy", "systemProgram">>
UpdateAssetPolicyNames ==
  <<"authority", "config", "mint", "policy">>
CreateOfferNames ==
  <<"creator", "config", "policy", "underlyingMint", "usdcMint", "creatorUsdc", "agreement", "reserve",
      "settlement", "underlyingProgram", "usdcProgram", "systemProgram">>
ActivateNames ==
  <<"holder", "agreement", "policy", "underlyingMint", "usdcMint", "reserve", "holderUsdc",
      "writerUsdc", "usdcProgram">>
AcceptRequestNames ==
  <<"writer", "agreement", "policy", "underlyingMint", "usdcMint", "reserve", "writerUsdc",
      "usdcProgram">>
ExerciseNames ==
  <<"holder", "agreement", "underlyingMint", "usdcMint", "reserve", "holderUnderlying", "holderUsdc",
      "settlement", "underlyingProgram", "usdcProgram">>
RefundNames ==
  <<"actor", "agreement", "usdcMint", "reserve", "actorUsdc", "usdcProgram">>
CleanupTerminalNames ==
  <<"actor", "agreement", "usdcMint", "reserve", "actorUsdc", "settlement", "underlyingProgram",
      "usdcProgram">>

LEMMA Lists ==
  /\ Listed(InitializeStruct, InitializeNames)
  /\ Listed(CreateAssetPolicyStruct, CreateAssetPolicyNames)
  /\ Listed(UpdateAssetPolicyStruct, UpdateAssetPolicyNames)
  /\ Listed(CreateOfferStruct, CreateOfferNames)
  /\ Listed(ActivateStruct, ActivateNames)
  /\ Listed(AcceptRequestStruct, AcceptRequestNames)
  /\ Listed(ExerciseStruct, ExerciseNames)
  /\ Listed(RefundStruct, RefundNames)
  /\ Listed(CleanupTerminalStruct, CleanupTerminalNames)
<1> USE DEF Listed, Arg, Account, Mut, Signer, MutSigner
<1>1. Listed(InitializeStruct, InitializeNames)
  BY DEF InitializeStruct, InitializeNames
<1>2. Listed(CreateAssetPolicyStruct, CreateAssetPolicyNames)
  BY DEF CreateAssetPolicyStruct, CreateAssetPolicyNames
<1>3. Listed(UpdateAssetPolicyStruct, UpdateAssetPolicyNames)
  BY DEF UpdateAssetPolicyStruct, UpdateAssetPolicyNames
<1>4. Listed(CreateOfferStruct, CreateOfferNames)
  BY DEF CreateOfferStruct, CreateOfferNames
<1>5. Listed(ActivateStruct, ActivateNames)
  BY DEF ActivateStruct, ActivateNames
<1>6. Listed(AcceptRequestStruct, AcceptRequestNames)
  BY DEF AcceptRequestStruct, AcceptRequestNames
<1>7. Listed(ExerciseStruct, ExerciseNames)
  BY DEF ExerciseStruct, ExerciseNames
<1>8. Listed(RefundStruct, RefundNames)
  BY DEF RefundStruct, RefundNames
<1>9. Listed(CleanupTerminalStruct, CleanupTerminalNames)
  BY DEF CleanupTerminalStruct, CleanupTerminalNames
<1>10. QED
  BY <1>1, <1>2, <1>3, <1>4, <1>5, <1>6, <1>7, <1>8, <1>9

StructNames(op) ==
  CASE op = "initialize" -> InitializeNames
    [] op = "createAssetPolicy" -> CreateAssetPolicyNames
    [] op = "updateAssetPolicy" -> UpdateAssetPolicyNames
    [] op = "createOffer" -> CreateOfferNames
    [] op = "activate" -> ActivateNames
    [] op = "acceptRequest" -> AcceptRequestNames
    [] op = "exercise" -> ExerciseNames
    [] op \in {"cancelOffer", "reclaimExpired"} -> RefundNames
    [] op = "cleanupTerminal" -> CleanupTerminalNames

LEMMA ListOf ==
  ASSUME NEW op \in Operations
  PROVE  Listed(Struct(op), StructNames(op))
BY Lists DEF Operations, Struct, StructNames

TermFields ==
  { "nonce", "side", "designatedCounterparty", "quantityRaw", "payout", "premium", "acceptBefore",
    "expiresAt" }
PolicyFields == {"enabled", "reviewedUntil", "maxExpiry"}

LEMMA ArgNames ==
  /\ Names(OfferTermsData) = TermFields
  /\ Names(PolicyTermsData) = PolicyFields
  /\ Names(<<>>) = {}
<1>1. /\ Len(OfferTermsData) = 8
      /\ OfferTermsData[1].name = "nonce" /\ OfferTermsData[2].name = "side"
      /\ OfferTermsData[3].name = "designatedCounterparty"
      /\ OfferTermsData[4].name = "quantityRaw" /\ OfferTermsData[5].name = "payout"
      /\ OfferTermsData[6].name = "premium" /\ OfferTermsData[7].name = "acceptBefore"
      /\ OfferTermsData[8].name = "expiresAt"
  BY DEF OfferTermsData, Field, Optional
<1>2. /\ Len(PolicyTermsData) = 3
      /\ PolicyTermsData[1].name = "enabled" /\ PolicyTermsData[2].name = "reviewedUntil"
      /\ PolicyTermsData[3].name = "maxExpiry"
  BY DEF PolicyTermsData, Field
<1>3. \A i \in 1..8 : i \in {1, 2, 3, 4, 5, 6, 7, 8}
  OBVIOUS
<1>4. Names(OfferTermsData) = TermFields
  BY <1>1, <1>3 DEF Names, TermFields
<1>5. Names(PolicyTermsData) = PolicyFields
  BY <1>2 DEF Names, PolicyFields
<1>6. QED
  BY <1>4, <1>5 DEF Names

LEMMA ListedNames ==
  ASSUME NEW table, NEW names, Listed(table, names)
  PROVE  Names(table) = {names[i] : i \in 1..Len(names)}
BY DEF Listed, Names

\* What an app has to give for each instruction.
LEMMA NamesAsked ==
  /\ AppNames("initialize") \subseteq {"authority", "programData", "config", "usdcMint"}
  /\ AppNames("createAssetPolicy") \subseteq {"authority", "config", "mint", "policy"} \cup
    PolicyFields
  /\ AppNames("updateAssetPolicy") \subseteq {"authority", "config", "mint", "policy"} \cup
    PolicyFields
  /\ AppNames("createOffer") \subseteq {"creator", "config", "policy", "underlyingMint", "usdcMint",
    "creatorUsdc", "agreement", "reserve", "settlement"} \cup TermFields
  /\ AppNames("activate") \subseteq {"holder", "agreement", "policy", "underlyingMint", "usdcMint",
    "reserve", "holderUsdc", "writerUsdc"}
  /\ AppNames("acceptRequest") \subseteq {"writer", "agreement", "policy", "underlyingMint",
    "usdcMint", "reserve", "writerUsdc"}
  /\ AppNames("exercise") \subseteq {"holder", "agreement", "underlyingMint", "usdcMint", "reserve",
    "holderUnderlying", "holderUsdc", "settlement"}
  /\ AppNames("cancelOffer") \subseteq {"actor", "agreement", "usdcMint", "reserve", "actorUsdc"}
  /\ AppNames("reclaimExpired") \subseteq {"actor", "agreement", "usdcMint", "reserve", "actorUsdc"}
  /\ AppNames("cleanupTerminal") \subseteq {"actor", "agreement", "usdcMint", "reserve",
    "actorUsdc", "settlement"}
<1> USE DEF AppNames, ArgsLayout, Struct, ProgramNames
<1>1. AppNames("initialize") \subseteq {"authority", "programData", "config", "usdcMint"}
  BY Lists, ListedNames, ArgNames DEF InitializeNames
<1>2. AppNames("createAssetPolicy") \subseteq {"authority", "config", "mint", "policy"} \cup
  PolicyFields
  BY Lists, ListedNames, ArgNames DEF CreateAssetPolicyNames
<1>3. AppNames("updateAssetPolicy") \subseteq {"authority", "config", "mint", "policy"} \cup
  PolicyFields
  BY Lists, ListedNames, ArgNames DEF UpdateAssetPolicyNames
<1>4. AppNames("createOffer") \subseteq {"creator", "config", "policy", "underlyingMint",
  "usdcMint", "creatorUsdc", "agreement", "reserve", "settlement"} \cup TermFields
  BY Lists, ListedNames, ArgNames DEF CreateOfferNames
<1>5. AppNames("activate") \subseteq {"holder", "agreement", "policy", "underlyingMint", "usdcMint",
  "reserve", "holderUsdc", "writerUsdc"}
  BY Lists, ListedNames, ArgNames DEF ActivateNames
<1>6. AppNames("acceptRequest") \subseteq {"writer", "agreement", "policy", "underlyingMint",
  "usdcMint", "reserve", "writerUsdc"}
  BY Lists, ListedNames, ArgNames DEF AcceptRequestNames
<1>7. AppNames("exercise") \subseteq {"holder", "agreement", "underlyingMint", "usdcMint",
  "reserve", "holderUnderlying", "holderUsdc", "settlement"}
  BY Lists, ListedNames, ArgNames DEF ExerciseNames
<1>8. AppNames("cancelOffer") \subseteq {"actor", "agreement", "usdcMint", "reserve", "actorUsdc"}
  BY Lists, ListedNames, ArgNames DEF RefundNames
<1>9. AppNames("reclaimExpired") \subseteq {"actor", "agreement", "usdcMint", "reserve",
  "actorUsdc"}
  BY Lists, ListedNames, ArgNames DEF RefundNames
<1>10. AppNames("cleanupTerminal") \subseteq {"actor", "agreement", "usdcMint", "reserve",
  "actorUsdc", "settlement"}
  BY Lists, ListedNames, ArgNames DEF CleanupTerminalNames
<1>11. QED
  BY <1>1, <1>2, <1>3, <1>4, <1>5, <1>6, <1>7, <1>8, <1>9, <1>10

Deals == {"activate", "acceptRequest", "exercise", "cancelOffer", "reclaimExpired", "cleanupTerminal"}
Deal(input, led) == Load(led, input.agreement, "Agreement")

\* A request on an agreement names that agreement's accounts and the actor's own.
DealFormed(op, actor, input, led) ==
  LET g == Deal(input, led)
  IN  /\ input.agreement \in DOMAIN led /\ IsA(led[input.agreement], "Agreement")
      /\ input.usdcMint = Usdc
      /\ input.reserve = ReservePda(input.agreement)
      /\ input.settlement = SettlementPda(input.agreement)
      /\ input.underlyingMint = g.underlyingMint /\ input.policy = PolicyPda(g.underlyingMint)
      /\ op = "activate" =>
           /\ input.holder = actor /\ input.holderUsdc = TokenAccount(actor, Usdc)
           /\ g.side = Writer /\ input.writerUsdc = TokenAccount(g.writer[1], Usdc)
      /\ op = "acceptRequest" =>
           /\ input.writer = actor /\ input.writerUsdc = TokenAccount(actor, Usdc)
           /\ g.side = Holder
      /\ op = "exercise" =>
           /\ input.holder = actor /\ input.holderUsdc = TokenAccount(actor, Usdc)
           /\ input.holderUnderlying = TokenAccount(actor, g.underlyingMint)
      /\ op \in {"cancelOffer", "reclaimExpired", "cleanupTerminal"} =>
           input.actor = actor /\ input.actorUsdc = TokenAccount(actor, Usdc)

CreateFormed(actor, input, led) ==
  /\ input.creator = actor /\ input.creatorUsdc = TokenAccount(actor, Usdc)
  /\ input.usdcMint = Usdc /\ input.underlyingMint \in Mints
  /\ input.agreement = AgreementPda(actor, input.nonce) /\ ~Undated(input)
  /\ ConfigPda \in DOMAIN led /\ PolicyPda(input.underlyingMint) \in DOMAIN led

AdminFormed(op, actor, input, led) ==
  /\ actor = Admin /\ input.authority = Admin
  /\ op = "initialize" => input.usdcMint = Usdc
  /\ op # "initialize" => input.mint \in Mints /\ ConfigPda \in DOMAIN led
  /\ op = "updateAssetPolicy" => PolicyPda(input.mint) \in DOMAIN led

Formed(op, actor, input, led) ==
  /\ op \in Operations /\ Whole(op, input) /\ Derived(op, input)
  /\ op \in Deals => DealFormed(op, actor, input, led)
  /\ op = "createOffer" => CreateFormed(actor, input, led)
  /\ op \in {"initialize", "createAssetPolicy", "updateAssetPolicy"} => AdminFormed(op, actor, input, led)

\* The agreement a browser holds is the one on the ledger, as far as it cannot change.
SeenOK ==
  seen # None =>
    /\ seen.key \in DOMAIN ledger /\ IsA(ledger[seen.key], "Agreement")
    /\ IsA(seen.bytes, "Agreement")
    /\ Kept(Decode(AgreementData, seen.bytes).value, Load(ledger, seen.key, "Agreement"))

LEMMA AddressesAre ==
  ASSUME NEW mint, NEW creator, NEW nonce
  PROVE  LET p == ProtocolAddresses(mint, creator, nonce)
             k == AgreementPda(creator, nonce)
         IN  /\ DOMAIN p = {"config", "policy", "agreement", "reserve", "settlement", "programData"}
             /\ p.config = ConfigPda /\ p.policy = PolicyPda(mint) /\ p.agreement = k
             /\ p.reserve = ReservePda(k) /\ p.settlement = SettlementPda(k)
BY DEF ProtocolAddresses

LEMMA CreateInputIs ==
  ASSUME NEW w, NEW m, NEW side, NEW d, NEW n
  PROVE  LET input == CreateInput(w, m, Terms(side, d, n))
             k == AgreementPda(w, n)
         IN  /\ DOMAIN input = { "creator", "creatorUsdc", "underlyingMint", "usdcMint", "config", "policy",
                                 "agreement", "reserve", "settlement", "programData" } \cup TermFields
             /\ input.creator = w /\ input.creatorUsdc = TokenAccount(w, Usdc)
             /\ input.underlyingMint = m /\ input.usdcMint = Usdc /\ input.nonce = n
             /\ input.config = ConfigPda /\ input.policy = PolicyPda(m) /\ input.agreement = k
             /\ input.reserve = ReservePda(k) /\ input.settlement = SettlementPda(k)
             /\ ~Undated(input)
<1> DEFINE own == [ creator |-> w, creatorUsdc |-> TokenAccount(w, Usdc), underlyingMint |-> m,
                    usdcMint |-> Usdc ]
           t == Terms(side, d, n)
           p == ProtocolAddresses(m, w, t.nonce)
<1>1. CreateInput(w, m, t) = own ++ t ++ p
  BY DEF CreateInput
<1>2. DOMAIN t = TermFields /\ t.nonce = n /\ t.acceptBefore = 7 /\ t.expiresAt = 9
  BY DEF Terms, TermFields
<1>3. /\ DOMAIN own = {"creator", "creatorUsdc", "underlyingMint", "usdcMint"}
      /\ own.creator = w /\ own.creatorUsdc = TokenAccount(w, Usdc)
      /\ own.underlyingMint = m /\ own.usdcMint = Usdc
  OBVIOUS
<1>4. /\ DOMAIN p = {"config", "policy", "agreement", "reserve", "settlement", "programData"}
      /\ p.config = ConfigPda /\ p.policy = PolicyPda(m) /\ p.agreement = AgreementPda(w, n)
      /\ p.reserve = ReservePda(AgreementPda(w, n)) /\ p.settlement = SettlementPda(AgreementPda(w, n))
  BY <1>2, AddressesAre
<1> HIDE DEF own, t, p
<1>5. DOMAIN (own ++ t ++ p) = DOMAIN own \cup DOMAIN t \cup DOMAIN p
  BY DEF ++
<1>6. \A x \in DOMAIN own : (own ++ t ++ p)[x] = own[x]
  BY DEF ++
<1>7. \A x \in {"nonce", "acceptBefore", "expiresAt"} : (own ++ t ++ p)[x] = t[x]
  BY <1>2, <1>3 DEF ++, TermFields
<1>8. \A x \in DOMAIN p : x \notin DOMAIN own \cup DOMAIN t => (own ++ t ++ p)[x] = p[x]
  BY DEF ++
<1>9. {"config", "policy", "agreement", "reserve", "settlement"} \cap (DOMAIN own \cup DOMAIN t) = {}
  BY <1>2, <1>3 DEF TermFields
<1>10. (own ++ t ++ p).nonce = n /\ ~Undated(own ++ t ++ p)
  BY <1>2, <1>7 DEF Undated
<1>11. QED
  BY <1>1, <1>2, <1>3, <1>4, <1>5, <1>6, <1>8, <1>9, <1>10 DEF t

LEMMA AdminInputIs ==
  ASSUME NEW op \in {"initialize", "createAssetPolicy", "updateAssetPolicy"}, NEW m
  PROVE  LET input == AdminInput(op, m)
         IN  /\ input.authority = Admin /\ input.config = ConfigPda
             /\ op = "initialize" =>
                  /\ DOMAIN input = {"authority", "usdcMint", "programData", "config"}
                  /\ input.usdcMint = Usdc /\ input.programData = ProgramDataPda
             /\ op # "initialize" =>
                  /\ DOMAIN input = {"authority", "mint", "config", "policy"} \cup PolicyFields
                  /\ input.mint = m /\ input.policy = PolicyPda(m)
<1>1. CASE op = "initialize"
  BY <1>1 DEF AdminInput
<1>2. CASE op # "initialize"
  BY <1>2 DEF AdminInput, PolicyTerms, PolicyFields, ++
<1>3. QED
  BY <1>1, <1>2

LEMMA SeenIs ==
  ASSUME LedgerOK(ledger), SeenOK, seen # None
  PROVE  LET g == Fetched.value
         IN  /\ g = Decode(AgreementData, seen.bytes).value
             /\ seen.key = AgreementPda(g.creator, g.nonce)
             /\ seen.key \in DOMAIN ledger /\ DealOK(ledger, seen.key)
             /\ Kept(g, Load(ledger, seen.key, "Agreement"))
<1>1. Fetched = Decode(AgreementData, seen.bytes)
  BY ReadAlike, LayoutIs DEF SeenOK, Kinds, Fetched
<1>2. DealOK(ledger, seen.key)
  BY ByKey DEF SeenOK
<1>3. QED
  BY <1>1, <1>2 DEF SeenOK, DealOK, Kept

\* What every instruction on an agreement is given of it.
Common == [usdcMint |-> Usdc, underlyingMint |-> Fetched.value.underlyingMint] ++ SeenAddresses

LEMMA CommonIs ==
  LET g == Fetched.value
      k == AgreementPda(g.creator, g.nonce)
  IN  /\ DOMAIN Common = { "usdcMint", "underlyingMint", "config", "policy", "agreement", "reserve",
                           "settlement", "programData" }
      /\ Common.usdcMint = Usdc /\ Common.underlyingMint = g.underlyingMint
      /\ Common.policy = PolicyPda(g.underlyingMint) /\ Common.agreement = k
      /\ Common.reserve = ReservePda(k) /\ Common.settlement = SettlementPda(k)
<1> DEFINE g == Fetched.value
           p == SeenAddresses
           own == [usdcMint |-> Usdc, underlyingMint |-> Fetched.value.underlyingMint]
<1>1. /\ DOMAIN p = {"config", "policy", "agreement", "reserve", "settlement", "programData"}
      /\ p.policy = PolicyPda(g.underlyingMint) /\ p.agreement = AgreementPda(g.creator, g.nonce)
      /\ p.reserve = ReservePda(AgreementPda(g.creator, g.nonce))
      /\ p.settlement = SettlementPda(AgreementPda(g.creator, g.nonce))
  BY AddressesAre DEF SeenAddresses
<1>2. /\ DOMAIN own = {"usdcMint", "underlyingMint"}
      /\ own.usdcMint = Usdc /\ own.underlyingMint = g.underlyingMint
  OBVIOUS
<1>3. Common = own ++ p
  BY DEF Common
<1> HIDE DEF p, own
<1>4. QED
  BY <1>1, <1>2, <1>3 DEF ++

LEMMA SeenInputIs ==
  ASSUME NEW op \in Deals, NEW actor
  PROVE  LET g == Fetched.value
             input == SeenInput(op, actor)
             mine == TokenAccount(actor, Usdc)
         IN  /\ DOMAIN Common \subseteq DOMAIN input /\ \A n \in DOMAIN Common : input[n] = Common[n]
             /\ op = "activate" =>
                  /\ DOMAIN input = {"holder", "holderUsdc", "writerUsdc"} \cup DOMAIN Common
                  /\ input.holder = actor /\ input.holderUsdc = mine
                  /\ input.writerUsdc = TokenAccount(g.writer[1], Usdc)
             /\ op = "acceptRequest" =>
                  /\ DOMAIN input = {"writer", "writerUsdc"} \cup DOMAIN Common
                  /\ input.writer = actor /\ input.writerUsdc = mine
             /\ op = "exercise" =>
                  /\ DOMAIN input = {"holder", "holderUsdc", "holderUnderlying"} \cup DOMAIN Common
                  /\ input.holder = actor /\ input.holderUsdc = mine
                  /\ input.holderUnderlying = TokenAccount(actor, g.underlyingMint)
             /\ op \in {"cancelOffer", "reclaimExpired", "cleanupTerminal"} =>
                  /\ DOMAIN input = {"actor", "actorUsdc"} \cup DOMAIN Common
                  /\ input.actor = actor /\ input.actorUsdc = mine
<1> DEFINE g == Fetched.value
           mine == TokenAccount(actor, Usdc)
<1>1. DOMAIN Common = { "usdcMint", "underlyingMint", "config", "policy", "agreement", "reserve",
                        "settlement", "programData" }
  BY CommonIs
<1>2. CASE op = "activate"
  <2>1. SeenInput(op, actor) =
          [holder |-> actor, holderUsdc |-> mine, writerUsdc |-> TokenAccount(g.writer[1], Usdc)] ++ Common
    BY <1>2 DEF SeenInput, Common
  <2>2. QED
    BY <1>1, <1>2, <2>1 DEF ++
<1>3. CASE op = "acceptRequest"
  <2>1. SeenInput(op, actor) = [writer |-> actor, writerUsdc |-> mine] ++ Common
    BY <1>3 DEF SeenInput, Common
  <2>2. QED
    BY <1>1, <1>3, <2>1 DEF ++
<1>4. CASE op = "exercise"
  <2>1. SeenInput(op, actor) =
          [ holder |-> actor, holderUsdc |-> mine,
            holderUnderlying |-> TokenAccount(actor, g.underlyingMint) ] ++ Common
    BY <1>4 DEF SeenInput, Common
  <2>2. QED
    BY <1>1, <1>4, <2>1 DEF ++
<1>5. CASE op \in {"cancelOffer", "reclaimExpired", "cleanupTerminal"}
  <2>1. SeenInput(op, actor) = [actor |-> actor, actorUsdc |-> mine] ++ Common
    BY <1>5 DEF SeenInput, Common
  <2>2. QED
    BY <1>1, <1>5, <2>1 DEF ++
<1>6. QED
  BY <1>2, <1>3, <1>4, <1>5 DEF Deals

\* Every request on an agreement is about the agreement as it now is.
LEMMA DealRequest ==
  ASSUME LedgerOK(ledger), SeenOK, seen # None, NEW op \in Operations, NEW actor, UsesSeen(op, actor)
  PROVE  Formed(op, actor, SeenInput(op, actor), ledger)
<1> DEFINE g == Fetched.value
           h == Load(ledger, seen.key, "Agreement")
           input == SeenInput(op, actor)
<1>1. op \in Deals
  BY DEF UsesSeen, Operations, Deals
<1>2. /\ op = "activate" => g.side = Writer
      /\ op = "acceptRequest" => g.side = Holder
  BY DEF UsesSeen, OfferSide, Writer, Holder
<1>3. /\ seen.key = AgreementPda(g.creator, g.nonce) /\ seen.key \in DOMAIN ledger
      /\ IsA(ledger[seen.key], "Agreement") /\ Kept(g, h)
  BY SeenIs DEF DealOK
<1>4. /\ DOMAIN Common \subseteq DOMAIN input
      /\ input.usdcMint = Usdc /\ input.underlyingMint = g.underlyingMint
      /\ input.policy = PolicyPda(g.underlyingMint) /\ input.agreement = seen.key
      /\ input.reserve = ReservePda(seen.key) /\ input.settlement = SettlementPda(seen.key)
  BY <1>1, <1>3, SeenInputIs, CommonIs
<1>5. Deal(input, ledger) = h
  BY <1>4 DEF Deal
<1>6. Whole(op, input)
  <2>1. DOMAIN Common = { "usdcMint", "underlyingMint", "config", "policy", "agreement", "reserve",
                          "settlement", "programData" }
    BY CommonIs
  <2>2. DOMAIN input \cap ProgramNames = {}
    BY <1>1, <2>1, SeenInputIs DEF ProgramNames, Deals
  <2>3. AppNames(op) \subseteq DOMAIN input
    BY <1>1, <2>1, SeenInputIs, NamesAsked DEF Deals
  <2>4. QED
    BY <2>2, <2>3 DEF Whole
<1>7. Derived(op, input)
  <2>1. "agreement" \in DOMAIN input
    BY <1>4, CommonIs
  <2> HIDE DEF input
  <2>2. QED
    BY <1>1, <1>4, <2>1 DEF Derived, Deals
<1>8. DealFormed(op, actor, input, ledger)
  <2>1. h.underlyingMint = g.underlyingMint /\ h.side = g.side /\ (g.side = Writer => h.writer = g.writer)
    BY <1>3 DEF Kept
  <2>2. /\ op = "activate" =>
             /\ input.holder = actor /\ input.holderUsdc = TokenAccount(actor, Usdc)
             /\ input.writerUsdc = TokenAccount(g.writer[1], Usdc)
        /\ op = "acceptRequest" => input.writer = actor /\ input.writerUsdc = TokenAccount(actor, Usdc)
        /\ op = "exercise" =>
             /\ input.holder = actor /\ input.holderUsdc = TokenAccount(actor, Usdc)
             /\ input.holderUnderlying = TokenAccount(actor, g.underlyingMint)
        /\ op \in {"cancelOffer", "reclaimExpired", "cleanupTerminal"} =>
             input.actor = actor /\ input.actorUsdc = TokenAccount(actor, Usdc)
    BY <1>1, SeenInputIs
  <2> HIDE DEF input, g, h
  <2>3. QED
    BY <1>2, <1>3, <1>4, <1>5, <2>1, <2>2 DEF DealFormed
<1>9. QED
  BY <1>1, <1>6, <1>7, <1>8 DEF Formed, Deals

LEMMA CreateRequest ==
  ASSUME LedgerOK(ledger), Holds(ledger, ConfigPda, "ProtocolConfig"),
         NEW w, NEW m \in Mints, PolicyPda(m) \in DOMAIN ledger, NEW side, NEW d, NEW n
  PROVE  Formed("createOffer", w, CreateInput(w, m, Terms(side, d, n)), ledger)
<1> DEFINE input == CreateInput(w, m, Terms(side, d, n))
<1>1. Whole("createOffer", input)
  BY CreateInputIs, NamesAsked DEF Whole, ProgramNames, TermFields
<1>2. Derived("createOffer", input)
  BY CreateInputIs DEF Derived
<1>3. CreateFormed(w, input, ledger)
  BY CreateInputIs DEF CreateFormed, Holds
<1>4. QED
  BY <1>1, <1>2, <1>3 DEF Formed, Operations, Deals

LEMMA AdminRequest ==
  ASSUME LedgerOK(ledger), NEW op \in {"initialize", "createAssetPolicy", "updateAssetPolicy"},
         NEW m \in Mints, op # "initialize" => ConfigPda \in DOMAIN ledger,
         op = "updateAssetPolicy" => PolicyPda(m) \in DOMAIN ledger
  PROVE  Formed(op, Admin, AdminInput(op, m), ledger)
<1> DEFINE input == AdminInput(op, m)
<1>1. Whole(op, input)
  BY AdminInputIs, NamesAsked DEF Whole, ProgramNames, PolicyFields
<1>2. Derived(op, input)
  BY AdminInputIs DEF Derived, Derivable
<1>3. AdminFormed(op, Admin, input, ledger)
  BY AdminInputIs DEF AdminFormed
<1>4. QED
  BY <1>1, <1>2, <1>3 DEF Formed, Operations, Deals

LEMMA RequestsFormed ==
  ASSUME LedgerOK(ledger), SeenOK, NEW r \in Requests
  PROVE  Formed(r.op, r.actor, r.input, ledger)
<1>1. \/ /\ Holds(ledger, ConfigPda, "ProtocolConfig")
         /\ \E w \in Wallets, m \in {k \in Mints : PolicyPda(k) \in DOMAIN ledger},
               side \in {OfferSide.Writer, OfferSide.Holder}, n \in Nonces,
               d \in {None} \cup {Some(v) : v \in Wallets} :
              r = [op |-> "createOffer", actor |-> w, input |-> CreateInput(w, m, Terms(side, d, n))]
      \/ /\ seen # None
         /\ \E p \in {q \in Operations \X Wallets : UsesSeen(q[1], q[2])} :
              r = [op |-> p[1], actor |-> p[2], input |-> SeenInput(p[1], p[2])]
      \/ /\ \E op \in IF ConfigPda \in DOMAIN ledger THEN {"createAssetPolicy", "updateAssetPolicy"}
                      ELSE {"initialize"}, m \in Mints :
              r = [op |-> op, actor |-> Admin, input |-> AdminInput(op, m)]
         /\ r.op = "updateAssetPolicy" => PolicyPda(r.input.mint) \in DOMAIN ledger
  BY DEF Requests
<1>2. CASE /\ Holds(ledger, ConfigPda, "ProtocolConfig")
           /\ \E w \in Wallets, m \in {k \in Mints : PolicyPda(k) \in DOMAIN ledger},
                 side \in {OfferSide.Writer, OfferSide.Holder}, n \in Nonces,
                 d \in {None} \cup {Some(v) : v \in Wallets} :
                r = [op |-> "createOffer", actor |-> w, input |-> CreateInput(w, m, Terms(side, d, n))]
  BY <1>2, CreateRequest
<1>3. CASE /\ seen # None
           /\ \E p \in {q \in Operations \X Wallets : UsesSeen(q[1], q[2])} :
                r = [op |-> p[1], actor |-> p[2], input |-> SeenInput(p[1], p[2])]
  BY <1>3, DealRequest
<1>4. CASE /\ \E op \in IF ConfigPda \in DOMAIN ledger THEN {"createAssetPolicy", "updateAssetPolicy"}
                        ELSE {"initialize"}, m \in Mints :
                r = [op |-> op, actor |-> Admin, input |-> AdminInput(op, m)]
           /\ r.op = "updateAssetPolicy" => PolicyPda(r.input.mint) \in DOMAIN ledger
  <2>1. PICK op \in IF ConfigPda \in DOMAIN ledger THEN {"createAssetPolicy", "updateAssetPolicy"}
                    ELSE {"initialize"}, m \in Mints :
             r = [op |-> op, actor |-> Admin, input |-> AdminInput(op, m)]
    BY <1>4
  <2>2. /\ op \in {"initialize", "createAssetPolicy", "updateAssetPolicy"}
        /\ op # "initialize" => ConfigPda \in DOMAIN ledger
    BY <2>1
  <2>3. op = "updateAssetPolicy" => PolicyPda(m) \in DOMAIN ledger
    BY <1>4, <2>1, <2>2, AdminInputIs
  <2>4. QED
    BY <2>1, <2>2, <2>3, AdminRequest
<1>5. QED
  BY <1>1, <1>2, <1>3, <1>4

(***************************************************************************)
(* The invariant: what was asked for stays well formed while others move   *)
(* the ledger, and the message is the app's.                               *)
(***************************************************************************)
RequestOK == request # None => Formed(request.op, request.actor, request.input, ledger)

WireInv == LedgerRight /\ Phased /\ SeenOK /\ RequestOK /\ OneMessage

LEMMA FormedStays ==
  ASSUME NEW led, NEW new, Grows(led, new), NEW op, NEW actor, NEW input, Formed(op, actor, input, led)
  PROVE  Formed(op, actor, input, new)
<1>1. DOMAIN led \subseteq DOMAIN new
  BY DEF Grows
<1>2. CreateFormed(actor, input, led) => CreateFormed(actor, input, new)
  BY <1>1 DEF CreateFormed
<1>3. AdminFormed(op, actor, input, led) => AdminFormed(op, actor, input, new)
  BY <1>1 DEF AdminFormed
<1>4. ASSUME DealFormed(op, actor, input, led) PROVE DealFormed(op, actor, input, new)
  <2> DEFINE k == input.agreement
             g == Deal(input, led)
             h == Deal(input, new)
  <2>1. k \in DOMAIN led /\ IsA(led[k], "Agreement")
    BY <1>4 DEF DealFormed
  <2>2. k \in DOMAIN new /\ IsA(new[k], "Agreement") /\ Kept(g, h)
    BY <2>1 DEF Grows, Follows, Kinds, Deal
  <2> HIDE DEF g, h
  <2>3. QED
    BY <1>4, <2>2 DEF DealFormed, Kept, g, h
<1>5. QED
  BY <1>2, <1>3, <1>4 DEF Formed

LEMMA KeptOn ==
  /\ \A g : Kept(g, g)
  /\ \A f, g, h : Kept(f, g) /\ Kept(g, h) => Kept(f, h)
BY DEF Kept

LEMMA SentRight ==
  ASSUME WireInv, NEW by, NEW r \in Requests, NEW m, Send(by, r, m),
         by \in {"app", "plugin"} => m = Compile(r.actor, <<Called(r.op, r.input)>>)
  PROVE  RequestOK' /\ OneMessage'
<1>1. request' = [op |-> r.op, actor |-> r.actor, input |-> r.input, by |-> by] /\ message' = m
      /\ ledger' = ledger
  BY DEF Send
<1>2. Formed(r.op, r.actor, r.input, ledger)
  BY RequestsFormed DEF WireInv, LedgerRight
<1>3. QED
  BY <1>1, <1>2 DEF RequestOK, OneMessage, Asked

LEMMA WireKeeps == WireInv /\ [WireNext]_wireVars => WireInv'
<1> SUFFICES ASSUME WireInv, [WireNext]_wireVars PROVE WireInv'
  OBVIOUS
<1>p. Phased'
  BY PhasedKeeps DEF WireInv
<1>1. ASSUME NEW key \in Offers, Fetch(key) PROVE WireInv'
  <2>1. /\ seen' = [key |-> key, bytes |-> ledger[key]]
        /\ UNCHANGED <<ledger, request, message, intent, ran>>
    BY <1>1 DEF Fetch
  <2>2. key \in DOMAIN ledger /\ IsA(ledger[key], "Agreement")
    BY HeldIsA DEF Offers, WireInv, LedgerRight
  <2>3. SeenOK'
    BY <2>1, <2>2, KeptOn, LayoutIs DEF SeenOK, Load
  <2>4. LedgerRight' /\ RequestOK' /\ OneMessage'
    BY <2>1 DEF WireInv, LedgerRight, RequestOK, OneMessage, Asked
  <2>5. QED
    BY <1>p, <2>3, <2>4 DEF WireInv
<1>2. ASSUME NEW r \in Requests,
             \/ AppSigns(r)
             \/ \E left \in SUBSET Derivable(r.op) : PluginSigns(r, left)
             \/ \E m : OtherSigns(r, m)
      PROVE  WireInv'
  <2>1. UNCHANGED <<ledger, seen>>
    BY <1>2 DEF AppSigns, PluginSigns, OtherSigns, Send
  <2>2. LedgerRight' /\ SeenOK'
    BY <2>1 DEF WireInv, LedgerRight, SeenOK
  <2>3. CASE AppSigns(r)
    <3>1. RequestOK' /\ OneMessage'
      BY <2>3, SentRight DEF AppSigns
    <3>2. QED
      BY <1>p, <2>2, <3>1 DEF WireInv
  <2>4. ASSUME NEW left \in SUBSET Derivable(r.op), PluginSigns(r, left) PROVE WireInv'
    <3>1. r.op \in Operations /\ Whole(r.op, r.input) /\ Derived(r.op, r.input)
      BY RequestsFormed DEF WireInv, LedgerRight, Formed
    <3>2. VolarynPlugin(r.op, Given(r.input, left)) = Called(r.op, r.input)
      BY <3>1, PluginAsApp
    <3>3. RequestOK' /\ OneMessage'
      BY <2>4, <3>2, SentRight DEF PluginSigns
    <3>4. QED
      BY <1>p, <2>2, <3>3 DEF WireInv
  <2>5. ASSUME NEW m, OtherSigns(r, m) PROVE WireInv'
    <3>1. RequestOK' /\ OneMessage'
      BY <2>5, SentRight DEF OtherSigns
    <3>2. QED
      BY <1>p, <2>2, <3>1 DEF WireInv
  <2>6. QED
    BY <1>2, <2>3, <2>4, <2>5
<1>3. CASE Record
  <2>1. UNCHANGED <<ledger, seen, request, message>>
    BY <1>3 DEF Record
  <2>2. LedgerRight' /\ SeenOK' /\ RequestOK' /\ OneMessage'
    BY <2>1 DEF WireInv, LedgerRight, SeenOK, RequestOK, OneMessage, Asked
  <2>3. QED
    BY <1>p, <2>2 DEF WireInv
<1>4. ASSUME NEW ok, Land(ok) PROVE WireInv'
  <2>1. LedgerOK(ledger') /\ Grows(ledger, ledger')
    BY <1>4, LandKeeps DEF WireInv, LedgerRight
  <2>2. UNCHANGED <<seen, request>> /\ message' = None
    BY <1>4 DEF Land
  <2>3. RequestOK'
    BY <2>1, <2>2, FormedStays DEF WireInv, RequestOK
  <2>4. SeenOK'
    <3> SUFFICES ASSUME seen # None
                 PROVE  /\ seen.key \in DOMAIN ledger' /\ IsA(ledger'[seen.key], "Agreement")
                        /\ IsA(seen.bytes, "Agreement")
                        /\ Kept(Decode(AgreementData, seen.bytes).value, Load(ledger', seen.key, "Agreement"))
      BY <2>2 DEF SeenOK
    <3>1. /\ seen.key \in DOMAIN ledger' /\ IsA(ledger'[seen.key], "Agreement")
          /\ Kept(Load(ledger, seen.key, "Agreement"), Load(ledger', seen.key, "Agreement"))
      BY <2>1 DEF WireInv, SeenOK, Grows, Follows, Kinds
    <3>2. QED
      BY <3>1, KeptOn DEF WireInv, SeenOK
  <2>5. LedgerRight' /\ OneMessage'
    BY <2>1, <2>2 DEF LedgerRight, OneMessage, Asked
  <2>6. QED
    BY <1>p, <2>3, <2>4, <2>5 DEF WireInv
<1>5. CASE Forget
  <2>1. message = None /\ UNCHANGED <<ledger, seen, message>> /\ request' = None
    BY <1>5 DEF Forget, WireInv, Phased
  <2>2. LedgerRight' /\ SeenOK' /\ RequestOK' /\ OneMessage'
    BY <2>1 DEF WireInv, LedgerRight, SeenOK, RequestOK, OneMessage, Asked
  <2>3. QED
    BY <1>p, <2>2 DEF WireInv
<1>6. CASE UNCHANGED wireVars
  <2>1. LedgerRight' /\ SeenOK' /\ RequestOK' /\ OneMessage'
    BY <1>6 DEF wireVars, WireInv, LedgerRight, SeenOK, RequestOK, OneMessage, Asked
  <2>2. QED
    BY <1>p, <2>1 DEF WireInv
<1>7. QED
  BY <1>1, <1>2, <1>3, <1>4, <1>5, <1>6 DEF WireNext

\* The ledger is sound, a browser holds an agreement as far as it cannot change, what was
\* asked for names the accounts the ledger has, and the message is the app's.
THEOREM WireStands == WireSpec => []WireInv
<1>1. WireInit => WireInv
  BY DEF WireInit, WireInv, LedgerRight, LedgerOK, Phased, SeenOK, RequestOK, OneMessage, Asked
<1>2. QED
  BY <1>1, WireKeeps, PTL DEF WireSpec

\* Whatever a caller leaves for the library to derive, the message it signs is the one the
\* app would build for the same request (the Async builders against addresses.ts).
THEOREM MessagesAgree == WireSpec => []OneMessage
<1>1. WireInv => OneMessage
  BY DEF WireInv
<1>2. QED
  BY <1>1, WireStands, PTL

(***************************************************************************)
(* What a built message says to its readers.                               *)
(***************************************************************************)
LEMMA ArgLayouts ==
  ASSUME NEW op \in Operations
  PROVE  /\ Len(ArgsLayout(op)) \in Nat /\ Distinct(ArgsLayout(op))
         /\ op = "createOffer" => Len(ArgsLayout(op)) = 8
         /\ op \in {"createAssetPolicy", "updateAssetPolicy"} => Len(ArgsLayout(op)) = 3
         /\ op \in Deals \cup {"initialize"} => Len(ArgsLayout(op)) = 0
<1>1. Len(OfferTermsData) = 8 /\ Distinct(OfferTermsData)
  BY DEF OfferTermsData, Distinct, Field, Optional
<1>2. Len(PolicyTermsData) = 3 /\ Distinct(PolicyTermsData)
  BY DEF PolicyTermsData, Distinct, Field
<1>3. Len(<<>>) = 0 /\ Distinct(<<>>)
  BY DEF Distinct
<1>4. QED
  BY <1>1, <1>2, <1>3 DEF Operations, ArgsLayout, Deals

\* The first account of every structure signs, and no other.
LEMMA FirstSigns ==
  ASSUME NEW op \in Operations
  PROVE  /\ 1 \in 1..Len(Struct(op))
         /\ \A i \in 1..Len(Struct(op)) : Struct(op)[i].signer <=> i = 1
<1> DEFINE First(s) == 1 \in 1..Len(s) /\ \A i \in 1..Len(s) : s[i].signer <=> i = 1
<1> USE DEF Arg, Account, Mut, Signer, MutSigner
<1>1. First(InitializeStruct) /\ First(CreateAssetPolicyStruct) /\ First(UpdateAssetPolicyStruct)
  BY DEF InitializeStruct, CreateAssetPolicyStruct, UpdateAssetPolicyStruct
<1>2. First(CreateOfferStruct)
  BY DEF CreateOfferStruct
<1>3. First(ActivateStruct) /\ First(AcceptRequestStruct)
  BY DEF ActivateStruct, AcceptRequestStruct
<1>4. First(ExerciseStruct)
  BY DEF ExerciseStruct
<1>5. First(RefundStruct) /\ First(CleanupTerminalStruct)
  BY DEF RefundStruct, CleanupTerminalStruct
<1> HIDE DEF First
<1>6. First(Struct(op))
  BY <1>1, <1>2, <1>3, <1>4, <1>5 DEF Operations, Struct
<1>7. QED
  BY <1>6 DEF First

\* It is the actor's.
LEMMA ActorFirst ==
  ASSUME NEW op, NEW actor, NEW input, NEW led, Formed(op, actor, input, led)
  PROVE  Full(op, input)[Struct(op)[1].name] = actor
<1> DEFINE n == Struct(op)[1].name
<1>1. op \in Operations /\ DOMAIN input \cap ProgramNames = {} /\ AppNames(op) \subseteq DOMAIN input
  BY DEF Formed, Whole
<1>2. n \in Names(Struct(op))
  BY <1>1, FirstSigns DEF Names
<1>3. n \notin ProgramNames /\ input[n] = actor
  <2>n. n = StructNames(op)[1]
    <3>1. Listed(Struct(op), StructNames(op)) /\ 1 \in 1..Len(Struct(op))
      BY <1>1, ListOf, FirstSigns
    <3>2. QED
      BY <3>1 DEF Listed
  <2> HIDE DEF n
  <2>1. CASE op = "createOffer"
    <3>1. n = "creator"
      BY <2>n, <2>1 DEF StructNames, CreateOfferNames
    <3>2. QED
      BY <2>1, <3>1 DEF Formed, CreateFormed, ProgramNames
  <2>2. CASE op \in {"initialize", "createAssetPolicy", "updateAssetPolicy"}
    <3>1. n = "authority"
      BY <2>n, <2>2
      DEF StructNames, InitializeNames, CreateAssetPolicyNames, UpdateAssetPolicyNames
    <3>2. QED
      BY <2>2, <3>1 DEF Formed, AdminFormed, ProgramNames
  <2>3. CASE op \in {"activate", "exercise"}
    <3>1. n = "holder"
      BY <2>n, <2>3 DEF StructNames, ActivateNames, ExerciseNames
    <3>2. QED
      BY <2>3, <3>1 DEF Formed, DealFormed, Deals, ProgramNames
  <2>4. CASE op = "acceptRequest"
    <3>1. n = "writer"
      BY <2>n, <2>4 DEF StructNames, AcceptRequestNames
    <3>2. QED
      BY <2>4, <3>1 DEF Formed, DealFormed, Deals, ProgramNames
  <2>5. CASE op \in {"cancelOffer", "reclaimExpired", "cleanupTerminal"}
    <3>1. n = "actor"
      BY <2>n, <2>5 DEF StructNames, RefundNames, CleanupTerminalNames
    <3>2. QED
      BY <2>5, <3>1 DEF Formed, DealFormed, Deals, ProgramNames
  <2>6. QED
    BY <1>1, <2>1, <2>2, <2>3, <2>4, <2>5 DEF Operations
<1>4. n \in DOMAIN input
  BY <1>1, <1>2, <1>3 DEF AppNames
<1> HIDE DEF n
<1>5. QED
  BY <1>1, <1>3, <1>4, FullIs DEF n

LEMMA BuiltMessage ==
  ASSUME NEW op \in Operations, NEW input, NEW actor
  PROVE  LET m == Compile(actor, <<Called(op, input)>>)
             ix == m.ixs[1]
             f == Full(op, input)
         IN  /\ m.payer = actor /\ Len(m.ixs) = 1 /\ ix.program = Program("volaryn")
             /\ Len(ix.accounts) = Len(Struct(op))
             /\ \A i \in 1..Len(Struct(op)) : ix.accounts[i] = f[Struct(op)[i].name]
             /\ ix.data = Encode(op, ArgsLayout(op), f)
             /\ \A x : x \in m.signers <=>
                  x = actor \/ \E i \in 1..Len(Struct(op)) : Struct(op)[i].signer /\ x = ix.accounts[i]
             /\ \A x : x \in m.writable <=>
                  x = actor \/ \E i \in 1..Len(Struct(op)) : Struct(op)[i].mut /\ x = ix.accounts[i]
<1> DEFINE f == Full(op, input)
           c == Called(op, input)
           m == Compile(actor, <<c>>)
           ix == m.ixs[1]
           s == Struct(op)
<1>1. c = Build(op, ClientTable(op), ArgsLayout(op), f)
  BY CalledIs
<1>2. Len(ClientTable(op)) = Len(s) /\ Len(s) \in Nat
  BY SameTables, Structs
<1>3. /\ c.program = Program("volaryn") /\ c.data = Encode(op, ArgsLayout(op), f)
      /\ Len(c.accounts) = Len(s)
      /\ \A i \in 1..Len(s) :
           /\ c.accounts[i].key = f[s[i].name]
           /\ c.accounts[i].signer <=> s[i].signer
           /\ c.accounts[i].writable <=> s[i].mut
  BY <1>1, <1>2, SameTables DEF Build
<1> HIDE DEF c, f, s
<1> DEFINE metas == {c.accounts[j] : j \in 1..Len(s)}
<1>4. UNION {{<<c>>[i].accounts[j] : j \in 1..Len(<<c>>[i].accounts)} : i \in 1..Len(<<c>>)} = metas
  BY <1>3
<1>5. /\ m.payer = actor
      /\ m.signers = {actor} \cup {x.key : x \in {y \in metas : y.signer}}
      /\ m.writable = {actor} \cup {x.key : x \in {y \in metas : y.writable}}
      /\ m.ixs = [i \in 1..1 |-> [ program |-> <<c>>[i].program,
                                   accounts |-> [j \in 1..Len(<<c>>[i].accounts) |-> <<c>>[i].accounts[j].key],
                                   data |-> <<c>>[i].data ]]
  <2> HIDE DEF metas
  <2>1. Len(<<c>>) = 1
    OBVIOUS
  <2>2. QED
    BY <1>4, <2>1 DEF Compile
<1>6. /\ Len(m.ixs) = 1
      /\ ix = [ program |-> c.program, accounts |-> [j \in 1..Len(s) |-> c.accounts[j].key], data |-> c.data ]
  <2> DEFINE compiled(x) == [ program |-> x.program,
                              accounts |-> [j \in 1..Len(x.accounts) |-> x.accounts[j].key],
                              data |-> x.data ]
  <2>1. m.ixs = [i \in 1..1 |-> compiled(<<c>>[i])] /\ <<c>>[1] = c
    BY <1>5
  <2> HIDE DEF m, compiled
  <2>2. Len(m.ixs) = 1 /\ ix = compiled(c)
    BY <2>1
  <2>3. compiled(c) = [ program |-> c.program, accounts |-> [j \in 1..Len(s) |-> c.accounts[j].key],
                        data |-> c.data ]
    BY <1>3 DEF compiled
  <2>4. QED
    BY <2>2, <2>3
<1> HIDE DEF m
<1>7. /\ Len(ix.accounts) = Len(s)
      /\ \A i \in 1..Len(s) : ix.accounts[i] = c.accounts[i].key
  BY <1>2, <1>6
<1>8. ASSUME NEW x
      PROVE  x \in m.signers <=> x = actor \/ \E i \in 1..Len(s) : s[i].signer /\ x = ix.accounts[i]
  <2>1. x \in m.signers <=> x = actor \/ \E y \in metas : y.signer /\ x = y.key
    <3> HIDE DEF metas
    <3>1. QED
      BY <1>5
  <2>2. (\E y \in metas : y.signer /\ x = y.key)
          <=> \E i \in 1..Len(s) : c.accounts[i].signer /\ x = c.accounts[i].key
    OBVIOUS
  <2>3. \A i \in 1..Len(s) : (c.accounts[i].signer <=> s[i].signer) /\ c.accounts[i].key = ix.accounts[i]
    BY <1>3, <1>7
  <2> HIDE DEF metas, ix
  <2>4. (\E i \in 1..Len(s) : c.accounts[i].signer /\ x = c.accounts[i].key)
          <=> \E i \in 1..Len(s) : s[i].signer /\ x = ix.accounts[i]
    BY <2>3
  <2>5. QED
    BY <2>1, <2>2, <2>4
<1>9. ASSUME NEW x
      PROVE  x \in m.writable <=> x = actor \/ \E i \in 1..Len(s) : s[i].mut /\ x = ix.accounts[i]
  <2>1. x \in m.writable <=> x = actor \/ \E y \in metas : y.writable /\ x = y.key
    <3> HIDE DEF metas
    <3>1. QED
      BY <1>5
  <2>2. (\E y \in metas : y.writable /\ x = y.key)
          <=> \E i \in 1..Len(s) : c.accounts[i].writable /\ x = c.accounts[i].key
    OBVIOUS
  <2>3. \A i \in 1..Len(s) : (c.accounts[i].writable <=> s[i].mut) /\ c.accounts[i].key = ix.accounts[i]
    BY <1>3, <1>7
  <2> HIDE DEF metas, ix
  <2>4. (\E i \in 1..Len(s) : c.accounts[i].writable /\ x = c.accounts[i].key)
          <=> \E i \in 1..Len(s) : s[i].mut /\ x = ix.accounts[i]
    BY <2>3
  <2>5. QED
    BY <2>1, <2>2, <2>4
<1>10. /\ m.payer = actor /\ Len(m.ixs) = 1 /\ ix.program = Program("volaryn")
       /\ Len(ix.accounts) = Len(s)
       /\ \A i \in 1..Len(s) : ix.accounts[i] = f[s[i].name]
       /\ ix.data = Encode(op, ArgsLayout(op), f)
  BY <1>3, <1>5, <1>6, <1>7
<1>11. QED
  BY <1>8, <1>9, <1>10 DEF m, c, f, s

\* Its instruction, for a request that is well formed.
Asking(op, actor, input) == Compile(actor, <<Called(op, input)>>)

LEMMA BuiltInstruction ==
  ASSUME NEW op, NEW actor, NEW input, NEW led, Formed(op, actor, input, led)
  PROVE  LET ix == Asking(op, actor, input).ixs[1]
             read == Decode(ArgsLayout(op), ix.data)
         IN  /\ Known(ix) /\ OpOf(ix) = op /\ IdentifyVolarynInstruction(ix.data) = op
             /\ Len(ix.data) = Len(ArgsLayout(op)) + 1
             /\ read.ok /\ DOMAIN read.value = Names(ArgsLayout(op))
             /\ \A n \in Names(ArgsLayout(op)) : n \in DOMAIN input /\ read.value[n] = input[n]
             /\ Len(ix.accounts) = Len(Struct(op)) /\ ix.accounts[1] = actor
             /\ \A i \in 1..Len(Struct(op)) : ix.accounts[i] = Full(op, input)[Struct(op)[i].name]
<1> DEFINE ix == Asking(op, actor, input).ixs[1]
           f == Full(op, input)
<1>1. op \in Operations /\ Whole(op, input)
  BY DEF Formed
<1>2. /\ ix.data = Encode(op, ArgsLayout(op), f)
      /\ Len(ix.accounts) = Len(Struct(op))
      /\ \A i \in 1..Len(Struct(op)) : ix.accounts[i] = f[Struct(op)[i].name]
  BY <1>1, BuiltMessage DEF Asking
<1>3. /\ Len(ix.data) = Len(ArgsLayout(op)) + 1 /\ ix.data # <<>>
      /\ Head(ix.data) = <<"tag", op>>
  <2> HIDE DEF ix, f
  <2>1. QED
    BY <1>1, <1>2, ArgLayouts, Encoded
<1>4. LET read == Decode(ArgsLayout(op), ix.data)
      IN  /\ read.ok /\ DOMAIN read.value = Names(ArgsLayout(op))
          /\ \A n \in Names(ArgsLayout(op)) : read.value[n] = f[n]
  <2> HIDE DEF ix, f
  <2>1. QED
    BY <1>1, <1>2, ArgLayouts, RoundTrip
<1>5. \A n \in Names(ArgsLayout(op)) : n \in DOMAIN input /\ f[n] = input[n]
  BY <1>1, FullIs DEF Whole, AppNames
<1>6. ix.accounts[1] = actor
  BY <1>1, <1>2, ActorFirst, FirstSigns
<1> HIDE DEF ix, f
<1>7. Known(ix) /\ OpOf(ix) = op /\ IdentifyVolarynInstruction(ix.data) = op
  BY <1>1, <1>3 DEF Known, OpOf, IdentifyVolarynInstruction
<1>8. QED
  BY <1>2, <1>3, <1>4, <1>5, <1>6, <1>7 DEF ix, f

LEMMA ParserIs ==
  ASSUME NEW ix, NEW op \in Operations, IdentifyVolarynInstruction(ix.data) = op
  PROVE  ParseVolarynInstruction(ix) = [op |-> op, read |-> Parse(ClientTable(op), ArgsLayout(op), ix)]
BY DataIs
DEF Operations, ParseVolarynInstruction, ClientTable, ArgsLayout, ParseAcceptRequest, ParseActivate,
  ParseCancelOffer, ParseCleanupTerminal, ParseCreateAssetPolicy, ParseCreateOffer, ParseExercise,
  ParseInitialize, ParseReclaimExpired, ParseUpdateAssetPolicy

\* The library reads back account by account and argument by argument what was asked for.
LEMMA Parsed ==
  ASSUME NEW op, NEW actor, NEW input, NEW led, Formed(op, actor, input, led)
  PROVE  LET parsed == ParseVolarynInstruction(Asking(op, actor, input).ixs[1])
         IN  /\ parsed.op = op /\ parsed.read.ok
             /\ \A n \in DOMAIN parsed.read.accounts \cap DOMAIN input : parsed.read.accounts[n] = input[n]
             /\ \A n \in DOMAIN parsed.read.data : parsed.read.data[n] = input[n]
<1> DEFINE ix == Asking(op, actor, input).ixs[1]
           t == ClientTable(op)
           s == Struct(op)
           accounts == [n \in Names(t) |-> ix.accounts[CHOOSE i \in 1..Len(t) : t[i].name = n]]
           data == Decode(ArgsLayout(op), ix.data)
<1>1. op \in Operations /\ DOMAIN input \cap ProgramNames = {}
  BY DEF Formed, Whole
<1>2. /\ IdentifyVolarynInstruction(ix.data) = op /\ Len(ix.accounts) = Len(s)
      /\ data.ok /\ DOMAIN data.value = Names(ArgsLayout(op))
      /\ \A n \in Names(ArgsLayout(op)) : data.value[n] = input[n]
      /\ \A i \in 1..Len(s) : ix.accounts[i] = Full(op, input)[s[i].name]
  BY BuiltInstruction
<1>3. /\ Len(t) = Len(s) /\ Len(s) \in Nat /\ Distinct(s)
      /\ \A i \in 1..Len(s) : t[i].name = s[i].name
  BY <1>1, SameTables, Structs
<1> HIDE DEF ix, t, s
<1>4. Distinct(t)
  BY <1>3 DEF Distinct
<1>5. Parse(t, ArgsLayout(op), ix) = [ok |-> TRUE, accounts |-> accounts, data |-> data.value]
  BY <1>2, <1>3 DEF Parse, Names
<1>6. ParseVolarynInstruction(ix) = [op |-> op, read |-> Parse(t, ArgsLayout(op), ix)]
  BY <1>1, <1>2, ParserIs DEF t
<1>7. ASSUME NEW n \in Names(t) \cap DOMAIN input PROVE accounts[n] = input[n]
  <2>1. PICK j \in 1..Len(t) : n = t[j].name
    BY DEF Names
  <2>2. (CHOOSE i \in 1..Len(t) : t[i].name = n) = j
    BY <1>4, <2>1, Found
  <2>3. accounts[n] = ix.accounts[j]
    BY <2>2
  <2>4. ix.accounts[j] = Full(op, input)[n]
    BY <1>2, <1>3, <2>1
  <2>5. QED
    BY <1>1, <2>3, <2>4, FullIs
<1>8. DOMAIN accounts = Names(t)
  OBVIOUS
<1> HIDE DEF accounts, data
<1>9. QED
  BY <1>2, <1>5, <1>6, <1>7, <1>8 DEF ix

LEMMA AskedMessage ==
  ASSUME NEW op \in Operations, NEW actor, NEW input, NEW led, Formed(op, actor, input, led)
  PROVE  LET m == Asking(op, actor, input)
         IN  /\ m.payer = actor /\ Len(m.ixs) = 1 /\ m.ixs[1].program = Program("volaryn")
             /\ m.signers = {actor}
             /\ m.writable = {actor} \cup
                  {m.ixs[1].accounts[i] : i \in {j \in 1..Len(Struct(op)) : Struct(op)[j].mut}}
<1> DEFINE m == Asking(op, actor, input)
           ix == m.ixs[1]
           s == Struct(op)
<1>1. m.payer = actor /\ Len(m.ixs) = 1 /\ ix.program = Program("volaryn")
  BY BuiltMessage DEF Asking
<1>2. \A x : x \in m.signers <=> x = actor \/ \E i \in 1..Len(s) : s[i].signer /\ x = ix.accounts[i]
  BY BuiltMessage DEF Asking
<1>3. \A x : x \in m.writable <=> x = actor \/ \E i \in 1..Len(s) : s[i].mut /\ x = ix.accounts[i]
  BY BuiltMessage DEF Asking
<1>4. ix.accounts[1] = actor
  BY BuiltInstruction
<1>5. 1 \in 1..Len(s) /\ \A i \in 1..Len(s) : s[i].signer <=> i = 1
  BY FirstSigns
<1> HIDE DEF m, ix, s
<1>6. m.signers = {actor}
  BY <1>2, <1>4, <1>5
<1>7. m.writable = {actor} \cup {ix.accounts[i] : i \in {j \in 1..Len(s) : s[j].mut}}
  BY <1>3
<1>8. QED
  BY <1>1, <1>6, <1>7 DEF ix, m, s

LEMMA IntentOfDeal ==
  ASSUME NEW payer, NEW ix, ReadOperation(ix) # Unlisted, ReadOperation(ix) # "Create",
         Len(ix.accounts) >= Position(ReadOperation(ix))
  PROVE  LET read == ReadIntent(payer, ix)
         IN  /\ read.kind = "recorded" /\ read.operation = ReadOperation(ix)
             /\ read.owner = payer /\ read.agreement = ix.accounts[Position(ReadOperation(ix))]
             /\ OpOf(ix) = "activate" <=> read.role = "holder"
             /\ OpOf(ix) = "acceptRequest" <=> read.role = "writer"
<1>1. ~(Len(ix.accounts) < Position(ReadOperation(ix)))
  BY DEF Position
<1> DEFINE operation == ReadOperation(ix)
<1> HIDE DEF operation
<1>2. QED
  BY <1>1 DEF ReadIntent

LEMMA IntentOfCreate ==
  ASSUME NEW payer, NEW ix, ReadOperation(ix) = "Create", Len(ix.accounts) >= 7,
         WholeTerms(ix).ok, ix.accounts[7] = AgreementPda(payer, WholeTerms(ix).value.nonce),
         ~Undated(WholeTerms(ix).value), OpOf(ix) = "createOffer"
  PROVE  ReadIntent(payer, ix) =
           [ kind |-> "recorded", operation |-> "Create", owner |-> payer, agreement |-> ix.accounts[7],
             role |-> "none", terms |-> WholeTerms(ix).value ++ [underlyingMint |-> ix.accounts[4]] ]
<1>1. Position("Create") = 7 /\ ~(Len(ix.accounts) < 7)
  BY DEF Position
<1>2. QED
  BY <1>1 DEF ReadIntent, Unlisted

\* The server reads what the user asked for.
LEMMA Recorded ==
  ASSUME NEW op, NEW actor, NEW input, NEW led, Formed(op, actor, input, led)
  PROVE  LET read == DecodeMessage(Asking(op, actor, input))
         IN  IF Operation(op) = Unlisted THEN read = Refused
             ELSE /\ read.kind = "recorded" /\ read.operation = Operation(op)
                  /\ read.owner = actor /\ read.agreement = input.agreement
                  /\ op = "activate" <=> read.role = "holder"
                  /\ op = "acceptRequest" <=> read.role = "writer"
                  /\ op = "createOffer" => \A n \in DOMAIN read.terms : read.terms[n] = input[n]
<1> DEFINE m == Asking(op, actor, input)
           ix == m.ixs[1]
           s == Struct(op)
           place == Position(Operation(op))
<1>1. op \in Operations /\ Whole(op, input)
  BY DEF Formed
<1>2. m.payer = actor /\ Len(m.ixs) = 1 /\ ix.program = Program("volaryn") /\ m.signers = {actor}
  BY <1>1, AskedMessage
<1>3. /\ Known(ix) /\ OpOf(ix) = op /\ Len(ix.data) = Len(ArgsLayout(op)) + 1
      /\ Len(ix.accounts) = Len(s) /\ ix.accounts[1] = actor
      /\ \A i \in 1..Len(s) : ix.accounts[i] = Full(op, input)[s[i].name]
  BY BuiltInstruction
<1>4. /\ Decode(ArgsLayout(op), ix.data).ok
      /\ DOMAIN Decode(ArgsLayout(op), ix.data).value = Names(ArgsLayout(op))
      /\ \A n \in Names(ArgsLayout(op)) : Decode(ArgsLayout(op), ix.data).value[n] = input[n]
  BY BuiltInstruction
<1>5. Len(s) \in Nat /\ 1 \in 1..Len(s) /\ \A i \in 1..Len(s) : s[i].signer <=> i = 1
  BY <1>1, Structs, FirstSigns
<1> HIDE DEF m, ix, s, place
<1>7. DecodeMessage(m) = ReadIntent(actor, m.ixs[1])
  <2>1. {i \in 1..Len(m.ixs) : m.ixs[i].program = Program("volaryn")} # {}
    BY <1>2 DEF ix
  <2>2. m.ixs[1].accounts # <<>> /\ m.ixs[1].accounts[1] = m.payer
    BY <1>2, <1>3, <1>5 DEF ix
  <2>3. QED
    BY <1>2, <2>1, <2>2 DEF DecodeMessage
<1>8. ReadOperation(ix) = Operation(op)
  <2>1. op \notin Deals \cup {"initialize"} => op = "createOffer" \/ Operation(op) = Unlisted
    BY <1>1 DEF Operations, Deals, Operation
  <2>2. op \in Deals \cup {"initialize"} => Len(ix.data) = 1
    BY <1>1, <1>3, ArgLayouts
  <2>3. QED
    BY <1>3, <2>1, <2>2 DEF ReadOperation
<1>9. CASE Operation(op) = Unlisted
  BY <1>7, <1>8, <1>9 DEF ReadIntent, m, ix
<1>10. CASE Operation(op) # Unlisted
  <2>1. /\ place \in 1..Len(s) /\ s[place].name = "agreement"
    BY <1>1, <1>10, Positions DEF place, s
  <2>2. /\ Len(ix.accounts) >= place /\ ix.accounts[place] = input.agreement
    <3>1. "agreement" \in DOMAIN input
      <4>1. "agreement" \in Names(s)
        BY <2>1 DEF Names
      <4>2. QED
        BY <1>1, <4>1 DEF Whole, AppNames, ProgramNames, s
    <3>2. Full(op, input).agreement = input.agreement
      BY <1>1, <3>1, FullIs DEF Whole
    <3>3. QED
      BY <1>3, <1>5, <2>1, <3>2
  <2>3. CASE op # "createOffer"
    <3>1. Operation(op) # "Create"
      BY <1>1, <2>3 DEF Operations, Operation, Unlisted
    <3>2. ReadOperation(ix) # Unlisted /\ ReadOperation(ix) # "Create" /\ place = Position(ReadOperation(ix))
      BY <1>8, <1>10, <3>1 DEF place
    <3>3. LET read == ReadIntent(actor, ix)
          IN  /\ read.kind = "recorded" /\ read.operation = ReadOperation(ix)
              /\ read.owner = actor /\ read.agreement = ix.accounts[place]
              /\ OpOf(ix) = "activate" <=> read.role = "holder"
              /\ OpOf(ix) = "acceptRequest" <=> read.role = "writer"
      BY <2>2, <3>2, IntentOfDeal
    <3>4. DecodeMessage(m) = ReadIntent(actor, ix)
      BY <1>7 DEF ix
    <3>5. QED
      BY <1>3, <1>8, <1>10, <2>2, <2>3, <3>3, <3>4 DEF m
  <2>4. CASE op = "createOffer"
    <3>1. Operation(op) = "Create" /\ ArgsLayout(op) = OfferTermsData /\ Len(OfferTermsData) = 8
      BY <1>1, <2>4, ArgLayouts DEF Operation, ArgsLayout
    <3>2. WholeTerms(ix) = Decode(OfferTermsData, ix.data)
      BY <1>3, <3>1 DEF WholeTerms
    <3> DEFINE terms == WholeTerms(ix)
    <3>3. /\ terms.ok /\ DOMAIN terms.value = TermFields
          /\ \A n \in TermFields : terms.value[n] = input[n]
      BY <1>4, <3>1, <3>2, ArgNames
    <3>4. input.agreement = AgreementPda(actor, terms.value.nonce) /\ ~Undated(terms.value)
      BY <2>4, <3>3 DEF Formed, CreateFormed, TermFields, Undated
    <3>5. ix.accounts[4] = input.underlyingMint
      <4>1. 4 \in 1..Len(s) /\ s[4].name = "underlyingMint"
        BY <1>1, <2>4, ListOf DEF Listed, StructNames, CreateOfferNames, s
      <4>2. "underlyingMint" \in DOMAIN input
        <5>1. "underlyingMint" \in Names(s)
          BY <4>1 DEF Names
        <5>2. QED
          BY <1>1, <5>1 DEF Whole, AppNames, ProgramNames, s
      <4>3. QED
        BY <1>1, <1>3, <4>1, <4>2, FullIs DEF Whole
    <3> HIDE DEF terms
    <3>6. \A n \in DOMAIN (terms.value ++ [underlyingMint |-> ix.accounts[4]]) :
            (terms.value ++ [underlyingMint |-> ix.accounts[4]])[n] = input[n]
      BY <3>3, <3>5 DEF ++
    <3>7. ReadIntent(actor, ix) =
            [ kind |-> "recorded", operation |-> "Create", owner |-> actor, agreement |-> input.agreement,
              role |-> "none", terms |-> terms.value ++ [underlyingMint |-> ix.accounts[4]] ]
      <4>1. place = 7 /\ ReadOperation(ix) = "Create" /\ ix.accounts[7] = input.agreement
        BY <1>8, <2>2, <3>1 DEF place, Position
      <4>2. /\ terms.ok /\ ix.accounts[7] = AgreementPda(actor, terms.value.nonce)
            /\ ~Undated(terms.value) /\ Len(ix.accounts) >= 7
        BY <2>2, <3>3, <3>4, <4>1
      <4>3. OpOf(ix) = "createOffer"
        BY <1>3, <2>4
      <4>4. QED
        BY <4>1, <4>2, <4>3, IntentOfCreate DEF terms
    <3> DEFINE all == terms.value ++ [underlyingMint |-> ix.accounts[4]]
    <3> HIDE DEF all
    <3>8. QED
      BY <1>7, <1>10, <2>4, <3>1, <3>6, <3>7 DEF m, ix, all
  <2>5. QED
    BY <2>3, <2>4
<1>11. QED
  BY <1>9, <1>10

\* Both who read a built message find the request it came from: the library account by
\* account, the server what the user asked for (the positions of decode.rs).
THEOREM ReadersAgree == WireSpec => []ReadAsMeant
<1>1. ASSUME WireInv, Asked PROVE ParsedAsAsked /\ (intent # Unread => RecordedAsAsked)
  <2>1. request # None /\ Formed(request.op, request.actor, request.input, ledger)
    BY <1>1 DEF WireInv, Phased, RequestOK, Asked
  <2>2. message = Asking(request.op, request.actor, request.input)
    BY <1>1 DEF WireInv, OneMessage, Asking
  <2>3. ParsedAsAsked
    BY <2>1, <2>2, Parsed DEF ParsedAsAsked, Given1
  <2>4. ASSUME intent # Unread PROVE RecordedAsAsked
    <3>1. intent = DecodeMessage(message)
      BY <1>1, <2>4 DEF WireInv, Phased, Asked
    <3>2. QED
      BY <2>1, <2>2, <3>1, Recorded DEF RecordedAsAsked
  <2>5. QED
    BY <2>3, <2>4
<1>2. WireInv => ReadAsMeant
  BY <1>1 DEF ReadAsMeant
<1>3. QED
  BY <1>2, WireStands, PTL

(***************************************************************************)
(* A built message fits the program's accounts, whatever has landed since. *)
(***************************************************************************)
\* What the program takes under each name is what was asked for, and the programs it expects.
LEMMA TakenIs ==
  ASSUME NEW op, NEW actor, NEW input, NEW led, Formed(op, actor, input, led)
  PROVE  LET a == Taken(Asking(op, actor, input).ixs[1])
         IN  /\ \A n \in Names(Struct(op)) \ ProgramNames : a[n] = input[n]
             /\ \A n \in Names(Struct(op)) \cap ProgramNames : a[n] = ProgramOf[n]
<1> DEFINE ix == Asking(op, actor, input).ixs[1]
           s == Struct(op)
           a == Taken(ix)
           f == Full(op, input)
<1>1. op \in Operations /\ DOMAIN input \cap ProgramNames = {} /\ AppNames(op) \subseteq DOMAIN input
  BY DEF Formed, Whole
<1>2. OpOf(ix) = op /\ \A i \in 1..Len(s) : ix.accounts[i] = f[s[i].name]
  BY BuiltInstruction
<1>3. Distinct(s)
  BY <1>1, Structs
<1>4. ASSUME NEW n \in Names(s) PROVE a[n] = f[n]
  <2> HIDE DEF ix, f
  <2>1. a = [x \in Names(s) |-> ix.accounts[CHOOSE i \in 1..Len(s) : s[i].name = x]]
    BY <1>2 DEF Taken, Names
  <2> HIDE DEF a, s
  <2>2. PICK j \in 1..Len(s) : n = s[j].name
    BY DEF Names
  <2>3. (CHOOSE i \in 1..Len(s) : s[i].name = n) = j
    BY <1>3, <2>2, Found
  <2>4. QED
    BY <1>2, <2>1, <2>2, <2>3
<1>5. \A n \in Names(s) \ ProgramNames : f[n] = input[n]
  BY <1>1, FullIs DEF AppNames
<1>6. \A n \in Names(s) \cap ProgramNames : f[n] = ProgramOf[n]
  BY <1>1, FullIs, ProgramsUsed DEF ProgramNames
<1> HIDE DEF a, f, s
<1>7. QED
  BY <1>4, <1>5, <1>6 DEF a, s, ix

\* The accounts each structure names.
LEMMA StructHas ==
  /\ { "authority", "programData", "config", "usdcMint", "systemProgram" }
       \subseteq Names(InitializeStruct)
  /\ { "authority", "config", "mint", "policy", "systemProgram" }
       \subseteq Names(CreateAssetPolicyStruct)
  /\ { "authority", "config", "mint", "policy" }
       \subseteq Names(UpdateAssetPolicyStruct)
  /\ { "creator", "config", "policy", "underlyingMint", "usdcMint", "creatorUsdc", "agreement",
       "reserve", "settlement", "underlyingProgram", "usdcProgram", "systemProgram" }
       \subseteq Names(CreateOfferStruct)
  /\ { "holder", "agreement", "policy", "underlyingMint", "usdcMint", "reserve", "holderUsdc",
       "writerUsdc", "usdcProgram" }
       \subseteq Names(ActivateStruct)
  /\ { "writer", "agreement", "policy", "underlyingMint", "usdcMint", "reserve", "writerUsdc",
       "usdcProgram" }
       \subseteq Names(AcceptRequestStruct)
  /\ { "holder", "agreement", "underlyingMint", "usdcMint", "reserve", "holderUnderlying",
       "holderUsdc", "settlement", "underlyingProgram", "usdcProgram" }
       \subseteq Names(ExerciseStruct)
  /\ { "actor", "agreement", "usdcMint", "reserve", "actorUsdc", "usdcProgram" }
       \subseteq Names(RefundStruct)
  /\ { "actor", "agreement", "usdcMint", "reserve", "actorUsdc", "settlement",
       "underlyingProgram", "usdcProgram" }
       \subseteq Names(CleanupTerminalStruct)
<1>1. { "authority", "programData", "config", "usdcMint", "systemProgram" }
       \subseteq Names(InitializeStruct)
  <2>1. /\ Listed(InitializeStruct, InitializeNames) /\ Len(InitializeNames) = 5
        /\ InitializeNames[1] = "authority" /\ InitializeNames[2] = "programData"
        /\ InitializeNames[3] = "config" /\ InitializeNames[4] = "usdcMint"
        /\ InitializeNames[5] = "systemProgram"
    BY Lists DEF InitializeNames
  <2>2. \A i \in 1..Len(InitializeNames) : InitializeNames[i] \in Names(InitializeStruct)
    BY <2>1, ListedNames
  <2>3. QED
    BY <2>1, <2>2
<1>2. { "authority", "config", "mint", "policy", "systemProgram" }
       \subseteq Names(CreateAssetPolicyStruct)
  <2>1. /\ Listed(CreateAssetPolicyStruct, CreateAssetPolicyNames)
        /\ Len(CreateAssetPolicyNames) = 5 /\ CreateAssetPolicyNames[1] = "authority"
        /\ CreateAssetPolicyNames[2] = "config" /\ CreateAssetPolicyNames[3] = "mint"
        /\ CreateAssetPolicyNames[4] = "policy" /\ CreateAssetPolicyNames[5] = "systemProgram"
    BY Lists DEF CreateAssetPolicyNames
  <2>2. \A i \in 1..Len(CreateAssetPolicyNames) : CreateAssetPolicyNames[i] \in Names(CreateAssetPolicyStruct)
    BY <2>1, ListedNames
  <2>3. QED
    BY <2>1, <2>2
<1>3. { "authority", "config", "mint", "policy" }
       \subseteq Names(UpdateAssetPolicyStruct)
  <2>1. /\ Listed(UpdateAssetPolicyStruct, UpdateAssetPolicyNames)
        /\ Len(UpdateAssetPolicyNames) = 4 /\ UpdateAssetPolicyNames[1] = "authority"
        /\ UpdateAssetPolicyNames[2] = "config" /\ UpdateAssetPolicyNames[3] = "mint"
        /\ UpdateAssetPolicyNames[4] = "policy"
    BY Lists DEF UpdateAssetPolicyNames
  <2>2. \A i \in 1..Len(UpdateAssetPolicyNames) : UpdateAssetPolicyNames[i] \in Names(UpdateAssetPolicyStruct)
    BY <2>1, ListedNames
  <2>3. QED
    BY <2>1, <2>2
<1>4. { "creator", "config", "policy", "underlyingMint", "usdcMint", "creatorUsdc", "agreement",
       "reserve", "settlement", "underlyingProgram", "usdcProgram", "systemProgram" }
       \subseteq Names(CreateOfferStruct)
  <2>1. /\ Listed(CreateOfferStruct, CreateOfferNames) /\ Len(CreateOfferNames) = 12
        /\ CreateOfferNames[1] = "creator" /\ CreateOfferNames[2] = "config"
        /\ CreateOfferNames[3] = "policy" /\ CreateOfferNames[4] = "underlyingMint"
        /\ CreateOfferNames[5] = "usdcMint" /\ CreateOfferNames[6] = "creatorUsdc"
        /\ CreateOfferNames[7] = "agreement" /\ CreateOfferNames[8] = "reserve"
        /\ CreateOfferNames[9] = "settlement" /\ CreateOfferNames[10] = "underlyingProgram"
        /\ CreateOfferNames[11] = "usdcProgram" /\ CreateOfferNames[12] = "systemProgram"
    BY Lists DEF CreateOfferNames
  <2>2. \A i \in 1..Len(CreateOfferNames) : CreateOfferNames[i] \in Names(CreateOfferStruct)
    BY <2>1, ListedNames
  <2>3. QED
    BY <2>1, <2>2
<1>5. { "holder", "agreement", "policy", "underlyingMint", "usdcMint", "reserve", "holderUsdc",
       "writerUsdc", "usdcProgram" }
       \subseteq Names(ActivateStruct)
  <2>1. /\ Listed(ActivateStruct, ActivateNames) /\ Len(ActivateNames) = 9
        /\ ActivateNames[1] = "holder" /\ ActivateNames[2] = "agreement"
        /\ ActivateNames[3] = "policy" /\ ActivateNames[4] = "underlyingMint"
        /\ ActivateNames[5] = "usdcMint" /\ ActivateNames[6] = "reserve"
        /\ ActivateNames[7] = "holderUsdc" /\ ActivateNames[8] = "writerUsdc"
        /\ ActivateNames[9] = "usdcProgram"
    BY Lists DEF ActivateNames
  <2>2. \A i \in 1..Len(ActivateNames) : ActivateNames[i] \in Names(ActivateStruct)
    BY <2>1, ListedNames
  <2>3. QED
    BY <2>1, <2>2
<1>6. { "writer", "agreement", "policy", "underlyingMint", "usdcMint", "reserve", "writerUsdc",
       "usdcProgram" }
       \subseteq Names(AcceptRequestStruct)
  <2>1. /\ Listed(AcceptRequestStruct, AcceptRequestNames) /\ Len(AcceptRequestNames) = 8
        /\ AcceptRequestNames[1] = "writer" /\ AcceptRequestNames[2] = "agreement"
        /\ AcceptRequestNames[3] = "policy" /\ AcceptRequestNames[4] = "underlyingMint"
        /\ AcceptRequestNames[5] = "usdcMint" /\ AcceptRequestNames[6] = "reserve"
        /\ AcceptRequestNames[7] = "writerUsdc" /\ AcceptRequestNames[8] = "usdcProgram"
    BY Lists DEF AcceptRequestNames
  <2>2. \A i \in 1..Len(AcceptRequestNames) : AcceptRequestNames[i] \in Names(AcceptRequestStruct)
    BY <2>1, ListedNames
  <2>3. QED
    BY <2>1, <2>2
<1>7. { "holder", "agreement", "underlyingMint", "usdcMint", "reserve", "holderUnderlying",
       "holderUsdc", "settlement", "underlyingProgram", "usdcProgram" }
       \subseteq Names(ExerciseStruct)
  <2>1. /\ Listed(ExerciseStruct, ExerciseNames) /\ Len(ExerciseNames) = 10
        /\ ExerciseNames[1] = "holder" /\ ExerciseNames[2] = "agreement"
        /\ ExerciseNames[3] = "underlyingMint" /\ ExerciseNames[4] = "usdcMint"
        /\ ExerciseNames[5] = "reserve" /\ ExerciseNames[6] = "holderUnderlying"
        /\ ExerciseNames[7] = "holderUsdc" /\ ExerciseNames[8] = "settlement"
        /\ ExerciseNames[9] = "underlyingProgram" /\ ExerciseNames[10] = "usdcProgram"
    BY Lists DEF ExerciseNames
  <2>2. \A i \in 1..Len(ExerciseNames) : ExerciseNames[i] \in Names(ExerciseStruct)
    BY <2>1, ListedNames
  <2>3. QED
    BY <2>1, <2>2
<1>8. { "actor", "agreement", "usdcMint", "reserve", "actorUsdc", "usdcProgram" }
       \subseteq Names(RefundStruct)
  <2>1. /\ Listed(RefundStruct, RefundNames) /\ Len(RefundNames) = 6 /\ RefundNames[1] = "actor"
        /\ RefundNames[2] = "agreement" /\ RefundNames[3] = "usdcMint"
        /\ RefundNames[4] = "reserve" /\ RefundNames[5] = "actorUsdc"
        /\ RefundNames[6] = "usdcProgram"
    BY Lists DEF RefundNames
  <2>2. \A i \in 1..Len(RefundNames) : RefundNames[i] \in Names(RefundStruct)
    BY <2>1, ListedNames
  <2>3. QED
    BY <2>1, <2>2
<1>9. { "actor", "agreement", "usdcMint", "reserve", "actorUsdc", "settlement",
       "underlyingProgram", "usdcProgram" }
       \subseteq Names(CleanupTerminalStruct)
  <2>1. /\ Listed(CleanupTerminalStruct, CleanupTerminalNames) /\ Len(CleanupTerminalNames) = 8
        /\ CleanupTerminalNames[1] = "actor" /\ CleanupTerminalNames[2] = "agreement"
        /\ CleanupTerminalNames[3] = "usdcMint" /\ CleanupTerminalNames[4] = "reserve"
        /\ CleanupTerminalNames[5] = "actorUsdc" /\ CleanupTerminalNames[6] = "settlement"
        /\ CleanupTerminalNames[7] = "underlyingProgram"
        /\ CleanupTerminalNames[8] = "usdcProgram"
    BY Lists DEF CleanupTerminalNames
  <2>2. \A i \in 1..Len(CleanupTerminalNames) : CleanupTerminalNames[i] \in Names(CleanupTerminalStruct)
    BY <2>1, ListedNames
  <2>3. QED
    BY <2>1, <2>2
<1>10. QED
  BY <1>1, <1>2, <1>3, <1>4, <1>5, <1>6, <1>7, <1>8, <1>9

LEMMA OwnToken ==
  ASSUME NEW led, NEW w, NEW m
  PROVE  IsToken(led, TokenAccount(w, m), m, w)
BY DEF IsToken, TokenOf, TokenAccount

LEMMA DealTokens ==
  ASSUME NEW led, NEW k, Holds(led, k, "Agreement")
  PROVE  /\ IsToken(led, ReservePda(k), Load(led, k, "Agreement").usdcMint, k)
         /\ IsToken(led, SettlementPda(k), Load(led, k, "Agreement").underlyingMint, k)
<1>1. /\ ReservePda(k)[1] = "reserve" /\ ReservePda(k)[2] = k
      /\ SettlementPda(k)[1] = "settlement" /\ SettlementPda(k)[2] = k
  BY DEF ReservePda, SettlementPda
<1>2. TokenOf(led, ReservePda(k)) = [mint |-> Load(led, k, "Agreement").usdcMint, owner |-> k]
  BY <1>1 DEF TokenOf
<1>3. TokenOf(led, SettlementPda(k)) = [mint |-> Load(led, k, "Agreement").underlyingMint, owner |-> k]
  BY <1>1 DEF TokenOf
<1>4. QED
  BY <1>2, <1>3 DEF IsToken

LEMMA MintsAre ==
  /\ IsMint(Usdc) /\ MintProgram(Usdc) = Program("token") /\ Decimals(Usdc) = 6
  /\ \A m \in Mints : IsMint(m) /\ MintProgram(m) = Program("token-2022")
BY WireAssumption DEF IsMint, Usdc, MintProgram, Decimals

\* The accounts every instruction on an agreement shares.
LEMMA DealFits ==
  ASSUME NEW led, LedgerOK(led), NEW a, NEW k \in DOMAIN led, IsA(led[k], "Agreement"), a.agreement = k,
         a.usdcMint = Usdc, a.usdcProgram = Program("token"), a.reserve = ReservePda(k)
  PROVE  Holds(led, k, "Agreement") /\ DealOK(led, k) /\ AgreementConstraints(led, a)
<1>1. Holds(led, k, "Agreement") /\ DealOK(led, k)
  BY ByKey DEF Holds, IsA
<1>2. IsToken(led, a.reserve, a.usdcMint, a.agreement)
  BY <1>1, DealTokens DEF DealOK
<1>3. QED
  BY <1>1, <1>2, MintsAre DEF AgreementConstraints, DealOK

LEMMA HeldPolicy ==
  ASSUME NEW led, LedgerOK(led), NEW m, PolicyPda(m) \in DOMAIN led
  PROVE  Holds(led, PolicyPda(m), "AssetPolicy")
BY ByKey DEF Holds, PolicyOK, IsA

LEMMA HeldConfig ==
  ASSUME NEW led, LedgerOK(led), ConfigPda \in DOMAIN led
  PROVE  /\ Holds(led, ConfigPda, "ProtocolConfig")
         /\ LET c == Load(led, ConfigPda, "ProtocolConfig")
            IN  c.authority = Admin /\ c.usdcMint = Usdc /\ c.usdcProgram = Program("token")
BY ByKey DEF Holds, ConfigOK, IsA

\* What the accounts of a request have to do with the ledger.
LEMMA DealNames ==
  ASSUME NEW op \in Deals, NEW actor, NEW input, NEW led, Formed(op, actor, input, led)
  PROVE  LET a == Taken(Asking(op, actor, input).ixs[1])
         IN  /\ a.agreement = input.agreement /\ a.usdcMint = input.usdcMint /\ a.reserve = input.reserve
             /\ a.usdcProgram = Program("token")
             /\ op \in {"activate", "acceptRequest"} =>
                  a.policy = input.policy /\ a.underlyingMint = input.underlyingMint
             /\ op = "activate" =>
                  a.holder = input.holder /\ a.holderUsdc = input.holderUsdc /\ a.writerUsdc = input.writerUsdc
             /\ op = "acceptRequest" => a.writer = input.writer /\ a.writerUsdc = input.writerUsdc
             /\ op = "exercise" =>
                  /\ a.underlyingMint = input.underlyingMint /\ a.holder = input.holder
                  /\ a.holderUnderlying = input.holderUnderlying /\ a.holderUsdc = input.holderUsdc
             /\ op \in {"exercise", "cleanupTerminal"} =>
                  a.settlement = input.settlement /\ a.underlyingProgram = Program("token-2022")
             /\ op \in {"cancelOffer", "reclaimExpired", "cleanupTerminal"} =>
                  a.actor = input.actor /\ a.actorUsdc = input.actorUsdc
<1> DEFINE a == Taken(Asking(op, actor, input).ixs[1])
<1>1. op \in Operations
  BY DEF Formed
<1>2. /\ \A n \in Names(Struct(op)) \ ProgramNames : a[n] = input[n]
      /\ \A n \in Names(Struct(op)) \cap ProgramNames : a[n] = ProgramOf[n]
  BY TakenIs
<1> HIDE DEF a
<1>3. CASE op \in {"activate", "acceptRequest"}
  <2>1. /\ op = "activate" => Struct(op) = ActivateStruct
        /\ op = "acceptRequest" => Struct(op) = AcceptRequestStruct
    BY <1>3 DEF Struct
  <2>2. QED
    BY <1>2, <1>3, <2>1, StructHas DEF ProgramNames, ProgramOf, a
<1>4. CASE op = "exercise"
  <2>1. Struct(op) = ExerciseStruct
    BY <1>4 DEF Struct
  <2>2. QED
    BY <1>2, <1>4, <2>1, StructHas DEF ProgramNames, ProgramOf, a
<1>5. CASE op \in {"cancelOffer", "reclaimExpired"}
  <2>1. Struct(op) = RefundStruct
    BY <1>5 DEF Struct
  <2>2. QED
    BY <1>2, <1>5, <2>1, StructHas DEF ProgramNames, ProgramOf, a
<1>6. CASE op = "cleanupTerminal"
  <2>1. Struct(op) = CleanupTerminalStruct
    BY <1>6 DEF Struct
  <2>2. QED
    BY <1>2, <1>6, <2>1, StructHas DEF ProgramNames, ProgramOf, a
<1>7. QED
  BY <1>3, <1>4, <1>5, <1>6 DEF Deals

LEMMA CreateNames ==
  ASSUME NEW actor, NEW input, NEW led, Formed("createOffer", actor, input, led)
  PROVE  LET a == Taken(Asking("createOffer", actor, input).ixs[1])
         IN  /\ a.creator = input.creator /\ a.config = input.config /\ a.policy = input.policy
             /\ a.underlyingMint = input.underlyingMint /\ a.usdcMint = input.usdcMint
             /\ a.creatorUsdc = input.creatorUsdc /\ a.agreement = input.agreement
             /\ a.reserve = input.reserve /\ a.settlement = input.settlement
             /\ a.underlyingProgram = Program("token-2022") /\ a.usdcProgram = Program("token")
             /\ a.systemProgram = Program("system")
<1> DEFINE a == Taken(Asking("createOffer", actor, input).ixs[1])
<1>1. /\ \A n \in Names(CreateOfferStruct) \ ProgramNames : a[n] = input[n]
      /\ \A n \in Names(CreateOfferStruct) \cap ProgramNames : a[n] = ProgramOf[n]
  BY TakenIs DEF Struct
<1> HIDE DEF a
<1>2. QED
  BY <1>1, StructHas DEF ProgramNames, ProgramOf, a

LEMMA AdminNames ==
  ASSUME NEW op \in {"initialize", "createAssetPolicy", "updateAssetPolicy"}, NEW actor, NEW input,
         NEW led, Formed(op, actor, input, led)
  PROVE  LET a == Taken(Asking(op, actor, input).ixs[1])
         IN  /\ a.authority = input.authority /\ a.config = input.config
             /\ op = "initialize" => a.programData = input.programData /\ a.usdcMint = input.usdcMint
             /\ op # "initialize" => a.mint = input.mint /\ a.policy = input.policy
             /\ op # "updateAssetPolicy" => a.systemProgram = Program("system")
<1> DEFINE a == Taken(Asking(op, actor, input).ixs[1])
<1>1. /\ \A n \in Names(Struct(op)) \ ProgramNames : a[n] = input[n]
      /\ \A n \in Names(Struct(op)) \cap ProgramNames : a[n] = ProgramOf[n]
  BY TakenIs
<1> HIDE DEF a
<1>2. /\ op = "initialize" => Struct(op) = InitializeStruct
      /\ op = "createAssetPolicy" => Struct(op) = CreateAssetPolicyStruct
      /\ op = "updateAssetPolicy" => Struct(op) = UpdateAssetPolicyStruct
  BY DEF Struct
<1>3. CASE op = "initialize"
  BY <1>1, <1>2, <1>3, StructHas DEF ProgramNames, ProgramOf, a
<1>4. CASE op = "createAssetPolicy"
  BY <1>1, <1>2, <1>4, StructHas DEF ProgramNames, ProgramOf, a
<1>5. CASE op = "updateAssetPolicy"
  BY <1>1, <1>2, <1>5, StructHas DEF ProgramNames, ProgramOf, a
<1>6. QED
  BY <1>3, <1>4, <1>5

LEMMA CreateFits ==
  ASSUME NEW led, LedgerOK(led), NEW actor, NEW input, Formed("createOffer", actor, input, led), NEW args,
         args.nonce = input.nonce
  PROVE  CreateOfferConstraints(led, Taken(Asking("createOffer", actor, input).ixs[1]), args)
<1> DEFINE a == Taken(Asking("createOffer", actor, input).ixs[1])
<1>1. /\ a.creator = input.creator /\ a.config = input.config /\ a.policy = input.policy
      /\ a.underlyingMint = input.underlyingMint /\ a.usdcMint = input.usdcMint
      /\ a.creatorUsdc = input.creatorUsdc /\ a.agreement = input.agreement
      /\ a.reserve = input.reserve /\ a.settlement = input.settlement
      /\ a.underlyingProgram = Program("token-2022") /\ a.usdcProgram = Program("token")
      /\ a.systemProgram = Program("system")
  BY CreateNames
<1> HIDE DEF a
<1>2. /\ input.config = ConfigPda /\ input.policy = PolicyPda(input.underlyingMint)
      /\ input.reserve = ReservePda(input.agreement) /\ input.settlement = SettlementPda(input.agreement)
  BY DEF Formed, Derived, Derivable
<1>3. CreateFormed(actor, input, led)
  BY DEF Formed
<1>4. /\ a.config = ConfigPda /\ Holds(led, a.config, "ProtocolConfig")
      /\ a.usdcMint = Load(led, a.config, "ProtocolConfig").usdcMint
      /\ a.usdcProgram = Load(led, a.config, "ProtocolConfig").usdcProgram
      /\ MintProgram(a.usdcMint) = a.usdcProgram
  BY <1>1, <1>2, <1>3, HeldConfig, MintsAre DEF CreateFormed
<1>5. /\ a.policy = PolicyPda(a.underlyingMint) /\ Holds(led, a.policy, "AssetPolicy")
      /\ IsMint(a.underlyingMint) /\ MintProgram(a.underlyingMint) = a.underlyingProgram
  BY <1>1, <1>2, <1>3, HeldPolicy, MintsAre DEF CreateFormed
<1>6. IsToken(led, a.creatorUsdc, a.usdcMint, a.creator)
  BY <1>1, <1>3, OwnToken DEF CreateFormed
<1>7. /\ a.agreement = AgreementPda(a.creator, args.nonce)
      /\ a.reserve = ReservePda(a.agreement) /\ a.settlement = SettlementPda(a.agreement)
  BY <1>1, <1>2, <1>3 DEF CreateFormed
<1>8. QED
  BY <1>1, <1>4, <1>5, <1>6, <1>7 DEF CreateOfferConstraints, a

LEMMA AdminFits ==
  ASSUME NEW led, LedgerOK(led), NEW op \in {"initialize", "createAssetPolicy", "updateAssetPolicy"},
         NEW actor, NEW input, Formed(op, actor, input, led), NEW args
  PROVE  Constraints(led, op, Taken(Asking(op, actor, input).ixs[1]), args)
<1> DEFINE a == Taken(Asking(op, actor, input).ixs[1])
<1>1. /\ a.authority = input.authority /\ a.config = input.config
      /\ op = "initialize" => a.programData = input.programData /\ a.usdcMint = input.usdcMint
      /\ op # "initialize" => a.mint = input.mint /\ a.policy = input.policy
      /\ op # "updateAssetPolicy" => a.systemProgram = Program("system")
  BY AdminNames
<1> HIDE DEF a
<1>2. Derived(op, input) /\ AdminFormed(op, actor, input, led)
  BY DEF Formed
<1>3. CASE op = "initialize"
  <2>1. InitializeConstraints(a)
    BY <1>1, <1>2, <1>3, MintsAre DEF InitializeConstraints, Derived, AdminFormed
  <2>2. QED
    BY <1>3, <2>1 DEF Constraints, a
<1>4. CASE op # "initialize"
  <2>1. PolicyConstraints(led, a)
    BY <1>1, <1>2, <1>4, HeldConfig, MintsAre DEF PolicyConstraints, Derived, AdminFormed
  <2>2. op = "updateAssetPolicy" => Holds(led, a.policy, "AssetPolicy")
    BY <1>1, <1>2, <1>4, HeldPolicy DEF Derived, AdminFormed
  <2>3. QED
    BY <1>1, <1>4, <2>1, <2>2 DEF Constraints, a
<1>5. QED
  BY <1>3, <1>4

LEMMA DealsFit ==
  ASSUME NEW led, LedgerOK(led), NEW op \in Deals, NEW actor, NEW input, Formed(op, actor, input, led), NEW args
  PROVE  Constraints(led, op, Taken(Asking(op, actor, input).ixs[1]), args)
<1> DEFINE a == Taken(Asking(op, actor, input).ixs[1])
           k == input.agreement
           g == Load(led, k, "Agreement")
<1>1. /\ a.agreement = k /\ a.usdcMint = input.usdcMint /\ a.reserve = input.reserve
      /\ a.usdcProgram = Program("token")
      /\ op \in {"activate", "acceptRequest"} =>
           a.policy = input.policy /\ a.underlyingMint = input.underlyingMint
      /\ op = "activate" =>
           a.holder = input.holder /\ a.holderUsdc = input.holderUsdc /\ a.writerUsdc = input.writerUsdc
      /\ op = "acceptRequest" => a.writer = input.writer /\ a.writerUsdc = input.writerUsdc
      /\ op = "exercise" =>
           /\ a.underlyingMint = input.underlyingMint /\ a.holder = input.holder
           /\ a.holderUnderlying = input.holderUnderlying /\ a.holderUsdc = input.holderUsdc
      /\ op \in {"exercise", "cleanupTerminal"} =>
           a.settlement = input.settlement /\ a.underlyingProgram = Program("token-2022")
      /\ op \in {"cancelOffer", "reclaimExpired", "cleanupTerminal"} =>
           a.actor = input.actor /\ a.actorUsdc = input.actorUsdc
  BY DealNames
<1> HIDE DEF a
<1>2. DealFormed(op, actor, input, led)
  BY DEF Formed
<1>3. /\ k \in DOMAIN led /\ IsA(led[k], "Agreement") /\ a.usdcMint = Usdc /\ a.reserve = ReservePda(k)
      /\ input.settlement = SettlementPda(k) /\ input.underlyingMint = g.underlyingMint
      /\ input.policy = PolicyPda(g.underlyingMint)
  BY <1>1, <1>2 DEF DealFormed, Deal
<1>4. Holds(led, k, "Agreement") /\ DealOK(led, k) /\ AgreementConstraints(led, a)
  BY <1>1, <1>3, DealFits
<1>5. /\ Load(led, a.agreement, "Agreement") = g
      /\ MintProgram(g.underlyingMint) = Program("token-2022")
      /\ g.underlyingProgram = Program("token-2022") /\ PolicyPda(g.underlyingMint) \in DOMAIN led
      /\ g.side = Writer => \E w : g.writer = Some(w)
  BY <1>1, <1>4 DEF DealOK
<1> HIDE DEF k, g
<1>6. ASSUME NEW side, op \in {"activate", "acceptRequest"}, g.side = side PROVE AcceptConstraints(led, a, side)
  BY <1>1, <1>3, <1>4, <1>5, <1>6, HeldPolicy DEF AcceptConstraints
<1>7. CASE op = "activate"
  <2>1. /\ a.holder = actor /\ a.holderUsdc = TokenAccount(actor, Usdc)
        /\ g.side = Writer /\ a.writerUsdc = TokenAccount(g.writer[1], Usdc)
    BY <1>1, <1>2, <1>7 DEF DealFormed, Deal, g, k
  <2>2. IsToken(led, a.holderUsdc, a.usdcMint, a.holder)
    BY <1>3, <2>1, OwnToken
  <2>3. TokenOf(led, a.writerUsdc) = [mint |-> Usdc, owner |-> g.writer[1]]
    BY <2>1, OwnToken DEF IsToken
  <2>4. g.writer = Some(g.writer[1])
    BY <1>5, <2>1 DEF Some
  <2>5. ActivateConstraints(led, a)
    BY <1>3, <1>5, <1>6, <1>7, <2>1, <2>2, <2>3, <2>4 DEF ActivateConstraints
  <2>6. QED
    BY <1>7, <2>5 DEF Constraints, a
<1>8. CASE op = "acceptRequest"
  <2>1. g.side = Holder /\ a.writer = actor /\ a.writerUsdc = TokenAccount(actor, Usdc)
    BY <1>1, <1>2, <1>8 DEF DealFormed, Deal, g, k
  <2>2. AcceptRequestConstraints(led, a)
    BY <1>3, <1>6, <1>8, <2>1, OwnToken DEF AcceptRequestConstraints
  <2>3. QED
    BY <1>8, <2>2 DEF Constraints, a
<1>9. CASE op = "exercise"
  <2>1. /\ a.holder = actor /\ a.holderUsdc = TokenAccount(actor, Usdc)
        /\ a.holderUnderlying = TokenAccount(actor, g.underlyingMint)
    BY <1>1, <1>2, <1>9 DEF DealFormed, Deal, g, k
  <2>2. /\ a.underlyingMint = g.underlyingMint /\ a.settlement = SettlementPda(k) /\ a.agreement = k
        /\ a.underlyingProgram = Program("token-2022")
    BY <1>1, <1>3, <1>9
  <2>3. IsToken(led, a.settlement, a.underlyingMint, a.agreement)
    BY <1>4, <2>2, DealTokens DEF g
  <2>4. /\ IsToken(led, a.holderUnderlying, a.underlyingMint, a.holder)
        /\ IsToken(led, a.holderUsdc, a.usdcMint, a.holder)
    BY <1>3, <2>1, <2>2, OwnToken
  <2>5. ExerciseConstraints(led, a)
    BY <1>4, <1>5, <2>2, <2>3, <2>4 DEF ExerciseConstraints
  <2>6. QED
    BY <1>9, <2>5 DEF Constraints, a
<1>10. CASE op \in {"cancelOffer", "reclaimExpired", "cleanupTerminal"}
  <2>1. a.actor = actor /\ a.actorUsdc = TokenAccount(actor, Usdc)
    BY <1>1, <1>2, <1>10 DEF DealFormed
  <2>2. RefundConstraints(led, a)
    BY <1>3, <1>4, <2>1, OwnToken DEF RefundConstraints
  <2>3. op = "cleanupTerminal" => CleanupTerminalConstraints(led, a)
    BY <1>1, <1>3, <1>5, <2>2 DEF CleanupTerminalConstraints
  <2>4. QED
    BY <1>10, <2>2, <2>3 DEF Constraints, a
<1>11. QED
  BY <1>7, <1>8, <1>9, <1>10 DEF Deals

\* Whatever lands between the request and its landing, the message the app or the plugin
\* signs never breaks an account constraint of the program; it has one signer, and the
\* write locks the program declares and no more.
THEOREM MessagesFit == WireSpec => []Fits
<1>1. ASSUME WireInv, Asked
      PROVE  LET table == Struct(request.op)
             IN  /\ AccountsRight(ledger, message, Given1)
                 /\ message.signers = {request.actor}
                 /\ message.writable = {request.actor}
                      \cup {Given1.accounts[i] : i \in {j \in 1..Len(table) : table[j].mut}}
  <2> DEFINE op == request.op
             actor == request.actor
             input == request.input
             ix == Given1
             s == Struct(op)
  <2>1. LedgerOK(ledger) /\ Formed(op, actor, input, ledger) /\ message = Asking(op, actor, input)
    BY <1>1 DEF WireInv, Phased, RequestOK, Asked, OneMessage, Asking, LedgerRight
  <2> HIDE DEF op, actor, input
  <2>2. op \in Operations /\ ix = Asking(op, actor, input).ixs[1]
    BY <2>1 DEF Formed, Given1
  <2>3. /\ message.signers = {actor}
        /\ message.writable = {actor} \cup {ix.accounts[i] : i \in {j \in 1..Len(s) : s[j].mut}}
    BY <2>1, <2>2, AskedMessage DEF Given1
  <2> HIDE DEF ix
  <2>4. /\ Known(ix) /\ OpOf(ix) = op /\ Len(ix.accounts) = Len(s) /\ ix.accounts[1] = actor
        /\ ArgsOf(ix).ok /\ \A n \in Names(ArgsLayout(op)) : ArgsOf(ix).value[n] = input[n]
    BY <2>1, <2>2, BuiltInstruction DEF ArgsOf
  <2>5. Len(s) \in Nat /\ \A i \in 1..Len(s) : s[i].signer <=> i = 1
    BY <2>2, Structs, FirstSigns
  <2>6. Constraints(ledger, op, Taken(ix), ArgsOf(ix).value)
    <3>1. CASE op = "createOffer"
      <4>1. ArgsOf(ix).value.nonce = input.nonce
        BY <2>4, <3>1, ArgNames DEF ArgsLayout, TermFields
      <4>2. QED
        BY <2>1, <2>2, <3>1, <4>1, CreateFits DEF Constraints
    <3>2. CASE op \in {"initialize", "createAssetPolicy", "updateAssetPolicy"}
      BY <2>1, <2>2, <3>2, AdminFits
    <3>3. CASE op \in Deals
      BY <2>1, <2>2, <3>3, DealsFit
    <3>4. QED
      BY <2>2, <3>1, <3>2, <3>3 DEF Operations, Deals
  <2>7. AccountsRight(ledger, message, ix)
    <3> HIDE DEF s
    <3>1. \A i \in 1..Len(s) : /\ s[i].signer => ix.accounts[i] \in message.signers
                               /\ s[i].mut => ix.accounts[i] \in message.writable
      BY <2>3, <2>4, <2>5
    <3>2. QED
      BY <2>4, <2>5, <2>6, <3>1 DEF AccountsRight, Enough, s
  <2>8. QED
    BY <2>3, <2>7 DEF ix, s, op, actor
<1>2. WireInv => Fits
  BY <1>1 DEF Fits
<1>3. QED
  BY <1>2, WireStands, PTL
=============================================================================
