-------------------------- MODULE DeploymentProofs --------------------------
(***************************************************************************)
(* Theorems about Deployment, for any number of installations, authorities *)
(* and documents: Keycloak and Postgres agree about an installation, and   *)
(* serve it, unless the administrator was told or Keycloak's container     *)
(* went.                                                                   *)
(*                                                                         *)
(* What each store says of the installation a command works on depends on  *)
(* the step the command has reached (InHand); of every other one they say  *)
(* the same (Settled).  That the users' role exists is a fact of its own   *)
(* (Roled): a product without it stems from a command that failed, and     *)
(* the installation of that command never gets a row.                      *)
(***************************************************************************)
EXTENDS Deployment, FiniteSetTheorems, SequenceTheorems, TLAPS

Booting == {"idle", "realm file", "up", "wait", "profile", "schema", "authority",
            "add", "disable product", "enable product", "down", "files", "done"}
Unrecorded == {"product", "role", "check", "client", "secret", "row"}
Ending == {"revoke", "enable", "disable client", "enable client"}

Reading ==
  /\ DOMAIN read = {"pc", "doc", "epoch", "key", "failed", "out"}
  /\ read.pc \in {"idle", "keygen", "store", "decrypt", "end"}

\* The installation a command works on.
InHand ==
  /\ at \in Booting \cup Unrecorded \cup {"print"} \cup Ending
  /\ at \in Booting => who = None
  /\ at \notin Booting => who \in Clients
  /\ at \in Unrecorded \cup {"print"} => who \notin told
  /\ at \in Unrecorded => row[who] = "absent"
  /\ at = "row" => client[who] = "enabled" \/ who \in lost
  /\ at = "print" => who \in lost \/ (client[who] = "enabled" /\ row[who] = "active")
  /\ at = "disable client" => row[who] = "revoked" /\ who \notin owed
  /\ at = "enable client" => row[who] = "active" /\ who \notin owed

Roled == realm.role \/ "role" \in lost \/ \E c \in told : row[c] = "absent"

Products ==
  /\ \A c \in Clients : row[c] # "absent" => product
  /\ product => Roled \/ (at = "role" /\ owed = {})
  /\ enabled = ~halted /\ (~product => enabled)

Served(c) == c \in owed => client[c] = "enabled" /\ row[c] = "active"
Settled(c) == c \notin told \cup lost \cup {who} =>
                (row[c] = "active" <=> client[c] = "enabled")

IInv ==
  /\ TypeOK /\ Reading /\ InHand /\ Products
  /\ \A c \in Clients : Served(c) /\ Settled(c)

----------------------------------------------------------------------------

LEMMA InitIInv == Init => IInv
<1> SUFFICES ASSUME Init PROVE IInv
  OBVIOUS
<1>1. TypeOK
  <2>1. made = 0 /\ 0 \in 0..made /\ made \in 0..MaxEpoch
    BY DeploymentAssumption DEF Init
  <2>2. read.key = 0 /\ read.epoch = 0 /\ read.doc = None
    BY DEF Init, NoRead
  <2>3. {cached, authority, read.key} \subseteq 0..made
    BY <2>1, <2>2 DEF Init
  <2> QED
    BY <2>1, <2>2, <2>3 DEF Init, TypeOK, NoRealm
<1>2. Reading /\ InHand
  BY DEF Init, Reading, InHand, Booting, Unrecorded, Ending, NoRead
<1>3. Products
  BY DEF Init, Products
<1>4. \A c \in Clients : Served(c) /\ Settled(c)
  BY DEF Init, Served, Settled
<1> QED
  BY <1>1, <1>2, <1>3, <1>4 DEF IInv

----------------------------------------------------------------------------
(* One lemma for each action, or for those that fare alike: what the types *)
(* of the stores are, where the command is, and what the stores then say.  *)

\* A step that raises: the administrator is told.
LEMMA FailKeeps ==
  ASSUME IInv, Fail
  PROVE  IInv'
<1>1. TypeOK'
  BY DEF IInv, registry, TypeOK, Fail, Raise, infra, keys
<1>2. Reading'
  BY DEF IInv, registry, Reading, Fail, Raise, infra, keys
<1>3. InHand'
  BY DeploymentAssumption DEF IInv, registry, TypeOK, InHand, Booting, Unrecorded, Ending, Fail, Raise, infra, keys
<1>4. Products'
  BY DeploymentAssumption DEF IInv, registry, TypeOK, InHand, Booting, Unrecorded, Ending, Products, Roled, Fail,
         Raise, infra, keys
<1>5. ASSUME NEW c \in Clients PROVE Served(c)' /\ Settled(c)'
  BY DeploymentAssumption DEF IInv, registry, TypeOK, InHand, Booting, Unrecorded, Ending, Served, Settled, Fail,
         Raise, infra, keys
<1> QED
  BY <1>1, <1>2, <1>3, <1>4, <1>5 DEF IInv

\* A new installation is one that nobody was told of.
LEMMA CommandKeeps ==
  ASSUME IInv, Command
  PROVE  IInv'
<1>1. TypeOK'
  BY DEF IInv, registry, TypeOK, Command, Fresh, infra, keys, books
<1>2. Reading'
  BY DEF IInv, registry, Reading, Command, Fresh, infra, keys, books
<1>3. InHand'
  BY DeploymentAssumption DEF IInv, registry, TypeOK, InHand, Booting, Unrecorded, Ending, Command, Fresh, infra, keys,
         books
<1>4. Products'
  BY DeploymentAssumption DEF IInv, registry, TypeOK, InHand, Booting, Unrecorded, Ending, Products, Roled, Command,
         Fresh, infra, keys, books
<1>5. ASSUME NEW c \in Clients PROVE Served(c)' /\ Settled(c)'
  BY DeploymentAssumption DEF IInv, registry, TypeOK, InHand, Booting, Unrecorded, Ending, Served, Settled, Command,
         Fresh, infra, keys, books
<1> QED
  BY <1>1, <1>2, <1>3, <1>4, <1>5 DEF IInv

\* Bootstrap works on no installation.
LEMMA RealmFileKeeps ==
  ASSUME IInv, RealmFile
  PROVE  IInv'
<1>1. TypeOK'
  BY DEF IInv, registry, TypeOK, RealmFile, keys, books
<1>2. Reading'
  BY DEF IInv, registry, Reading, RealmFile, keys, books
<1>3. InHand'
  BY DeploymentAssumption DEF IInv, registry, TypeOK, InHand, Booting, Unrecorded, Ending, RealmFile, keys, books
<1>4. Products'
  BY DeploymentAssumption DEF IInv, registry, TypeOK, InHand, Booting, Unrecorded, Ending, Products, Roled, RealmFile,
         keys, books
<1>5. ASSUME NEW c \in Clients PROVE Served(c)' /\ Settled(c)'
  BY DeploymentAssumption DEF IInv, registry, TypeOK, InHand, Booting, Unrecorded, Ending, Served, Settled, RealmFile,
         keys, books
<1> QED
  BY <1>1, <1>2, <1>3, <1>4, <1>5 DEF IInv

LEMMA WaitKeeps ==
  ASSUME IInv, Wait
  PROVE  IInv'
<1>1. TypeOK'
  BY DEF IInv, registry, TypeOK, Wait, Goto, infra, keys
<1>2. Reading'
  BY DEF IInv, registry, Reading, Wait, Goto, infra, keys
<1>3. InHand'
  BY DeploymentAssumption DEF IInv, registry, TypeOK, InHand, Booting, Unrecorded, Ending, Wait, Goto, infra, keys
<1>4. Products'
  BY DeploymentAssumption DEF IInv, registry, TypeOK, InHand, Booting, Unrecorded, Ending, Products, Roled, Wait, Goto,
         infra, keys
<1>5. ASSUME NEW c \in Clients PROVE Served(c)' /\ Settled(c)'
  BY DeploymentAssumption DEF IInv, registry, TypeOK, InHand, Booting, Unrecorded, Ending, Served, Settled, Wait, Goto,
         infra, keys
<1> QED
  BY <1>1, <1>2, <1>3, <1>4, <1>5 DEF IInv

LEMMA ComposeUpKeeps ==
  ASSUME IInv, ComposeUp
  PROVE  IInv'
<1>1. TypeOK'
  BY DEF IInv, registry, TypeOK, ComposeUp, GoOr, keys, Goto, Raise
<1>2. Reading'
  BY DEF IInv, registry, Reading, ComposeUp, GoOr, keys, Goto, Raise
<1>3. InHand'
  BY DeploymentAssumption DEF IInv, registry, TypeOK, InHand, Booting, Unrecorded, Ending, ComposeUp, GoOr, keys, Goto,
         Raise
<1>4. Products'
  BY DeploymentAssumption DEF IInv, registry, TypeOK, InHand, Booting, Unrecorded, Ending, Products, Roled, ComposeUp,
         GoOr, keys, Goto, Raise
<1>5. ASSUME NEW c \in Clients PROVE Served(c)' /\ Settled(c)'
  BY DeploymentAssumption DEF IInv, registry, TypeOK, InHand, Booting, Unrecorded, Ending, Served, Settled, ComposeUp,
         GoOr, keys, Goto, Raise
<1> QED
  BY <1>1, <1>2, <1>3, <1>4, <1>5 DEF IInv

LEMMA ProfileKeeps ==
  ASSUME IInv, Profile
  PROVE  IInv'
<1>1. TypeOK'
  BY DEF IInv, registry, TypeOK, Profile, GoOr, keys, Goto, Raise
<1>2. Reading'
  BY DEF IInv, registry, Reading, Profile, GoOr, keys, Goto, Raise
<1>3. InHand'
  BY DeploymentAssumption DEF IInv, registry, TypeOK, InHand, Booting, Unrecorded, Ending, Profile, GoOr, keys, Goto,
         Raise
<1>4. Products'
  BY DeploymentAssumption DEF IInv, registry, TypeOK, InHand, Booting, Unrecorded, Ending, Products, Roled, Profile,
         GoOr, keys, Goto, Raise
<1>5. ASSUME NEW c \in Clients PROVE Served(c)' /\ Settled(c)'
  BY DeploymentAssumption DEF IInv, registry, TypeOK, InHand, Booting, Unrecorded, Ending, Served, Settled, Profile,
         GoOr, keys, Goto, Raise
<1> QED
  BY <1>1, <1>2, <1>3, <1>4, <1>5 DEF IInv

LEMMA InitSchemaKeeps ==
  ASSUME IInv, InitSchema
  PROVE  IInv'
<1>1. TypeOK'
  BY DEF IInv, registry, TypeOK, InitSchema, GoOr, keys, Goto, Raise
<1>2. Reading'
  BY DEF IInv, registry, Reading, InitSchema, GoOr, keys, Goto, Raise
<1>3. InHand'
  BY DeploymentAssumption DEF IInv, registry, TypeOK, InHand, Booting, Unrecorded, Ending, InitSchema, GoOr, keys,
         Goto, Raise
<1>4. Products'
  BY DeploymentAssumption DEF IInv, registry, TypeOK, InHand, Booting, Unrecorded, Ending, Products, Roled, InitSchema,
         GoOr, keys, Goto, Raise
<1>5. ASSUME NEW c \in Clients PROVE Served(c)' /\ Settled(c)'
  BY DeploymentAssumption DEF IInv, registry, TypeOK, InHand, Booting, Unrecorded, Ending, Served, Settled, InitSchema,
         GoOr, keys, Goto, Raise
<1> QED
  BY <1>1, <1>2, <1>3, <1>4, <1>5 DEF IInv

LEMMA AuthorityKeeps ==
  ASSUME IInv, SetupAuthority
  PROVE  IInv'
<1>1. TypeOK'
  <2>1. /\ cached \in 0..made /\ authority \in 0..made /\ read.key \in 0..made
        /\ read.epoch \in 0..made /\ made \in 0..MaxEpoch /\ MaxEpoch \in Nat
    BY DeploymentAssumption DEF IInv, registry, TypeOK
  <2>2. /\ cached' = cached /\ read' = read
        /\ made' \in {made, made + 1} /\ made' \in 0..MaxEpoch /\ authority' \in 0..made'
    BY <2>1 DEF SetupAuthority, keys, infra
  <2>3. {cached', authority', read'.key} \subseteq 0..made' /\ read'.epoch \in 0..made'
    BY <2>1, <2>2
  <2>4. replaced' \in BOOLEAN
    BY DEF IInv, registry, TypeOK, SetupAuthority, Stale
  <2> QED
    BY <2>2, <2>3, <2>4 DEF IInv, registry, TypeOK, SetupAuthority, GoOr, Goto, Raise, infra
<1>2. Reading'
  BY DEF IInv, registry, Reading, SetupAuthority, GoOr, Stale, infra, Goto, Raise
<1>3. InHand'
  BY DeploymentAssumption DEF IInv, registry, TypeOK, InHand, Booting, Unrecorded, Ending, SetupAuthority, GoOr, Stale,
         infra, Goto, Raise
<1>4. Products'
  BY DeploymentAssumption DEF IInv, registry, TypeOK, InHand, Booting, Unrecorded, Ending, Products, Roled,
         SetupAuthority, GoOr, Stale, infra, Goto, Raise
<1>5. ASSUME NEW c \in Clients PROVE Served(c)' /\ Settled(c)'
  BY DeploymentAssumption DEF IInv, registry, TypeOK, InHand, Booting, Unrecorded, Ending, Served, Settled,
         SetupAuthority, GoOr, Stale, infra, Goto, Raise
<1> QED
  BY <1>1, <1>2, <1>3, <1>4, <1>5 DEF IInv

\* A product without its role: nothing is handed out before the next step.
LEMMA ProductKeeps ==
  ASSUME IInv, Product
  PROVE  IInv'
<1>1. TypeOK'
  BY DEF IInv, registry, TypeOK, Product, GoOr, keys, Goto, Raise
<1>2. Reading'
  BY DEF IInv, registry, Reading, Product, GoOr, keys, Goto, Raise
<1>3. InHand'
  BY DeploymentAssumption DEF IInv, registry, TypeOK, InHand, Booting, Unrecorded, Ending, Product, GoOr, keys, Goto,
         Raise
<1>4. Products'
  <2>1. /\ product' = TRUE /\ row' = row /\ realm' = realm /\ owed' = owed
        /\ enabled' = enabled /\ halted' = halted /\ enabled = ~halted
    BY DEF IInv, Products, Product, keys
  <2>2. CASE at = "add"
    <3>1. who = None /\ told' = told
      BY <2>2 DEF IInv, InHand, Booting, Product, GoOr, Goto, Raise
    <3>2. realm.role \/ "role" \in lost'
      BY <2>2 DEF Product, IInv, TypeOK
    <3> QED
      BY <2>1, <3>1, <3>2 DEF IInv, Products, Roled
  <2>3. CASE at = "product"
    <3>0. who \in Clients /\ row[who] = "absent" /\ lost' = lost
      BY <2>3 DEF IInv, InHand, Booting, Unrecorded, Product
    <3>1. CASE Goto("role")
      <4>1. told' = told /\ at' = "role"
        BY <3>1 DEF Goto
      <4>2. product => Roled'
        BY <2>1, <2>3, <3>0, <4>1 DEF IInv, Products, Roled
      <4>3. ~product => owed = {}
        BY DEF IInv, TypeOK, Products, Served
      <4> QED
        BY <2>1, <4>1, <4>2, <4>3 DEF IInv, Products
    <3>2. CASE Raise
      <4>1. who \in told'
        BY <3>0, <3>2, DeploymentAssumption DEF Raise
      <4> QED
        BY <2>1, <3>0, <4>1 DEF IInv, Products, Roled
    <3> QED BY <2>3, <3>1, <3>2 DEF Product, GoOr
  <2> QED BY <2>2, <2>3 DEF Product
<1>5. ASSUME NEW c \in Clients PROVE Served(c)' /\ Settled(c)'
  BY DeploymentAssumption DEF IInv, registry, TypeOK, InHand, Booting, Unrecorded, Ending, Served, Settled, Product,
         GoOr, keys, Goto, Raise
<1> QED
  BY <1>1, <1>2, <1>3, <1>4, <1>5 DEF IInv

LEMMA SetProductKeeps ==
  ASSUME IInv, SetProduct
  PROVE  IInv'
<1>0. /\ at \in {"disable product", "enable product"} /\ who = None /\ product
      /\ enabled' \in BOOLEAN /\ halted' = ~enabled' /\ at' = "idle" /\ who' = None /\ told' = told
      /\ UNCHANGED <<up, file, realm, schema, product, keys, client, row, lost, owed>>
  BY DEF IInv, InHand, Booting, SetProduct, GoOr, Goto, Raise
<1>1. TypeOK'
  BY <1>0 DEF IInv, TypeOK, keys
<1>2. Reading'
  BY <1>0 DEF IInv, Reading, keys
<1>3. InHand'
  BY <1>0 DEF InHand, Booting, Unrecorded, Ending
<1>4. Products'
  BY <1>0 DEF IInv, Products, Roled
<1>5. ASSUME NEW c \in Clients PROVE Served(c)' /\ Settled(c)'
  BY <1>0 DEF IInv, Served, Settled
<1> QED
  BY <1>1, <1>2, <1>3, <1>4, <1>5 DEF IInv

LEMMA RoleKeeps ==
  ASSUME IInv, Role
  PROVE  IInv'
<1>1. TypeOK'
  BY DEF IInv, registry, TypeOK, Role, GoOr, keys, Goto, Raise
<1>2. Reading'
  BY DEF IInv, registry, Reading, Role, GoOr, keys, Goto, Raise
<1>3. InHand'
  BY DeploymentAssumption DEF IInv, registry, TypeOK, InHand, Booting, Unrecorded, Ending, Role, GoOr, keys, Goto,
         Raise
<1>4. Products'
  BY DeploymentAssumption DEF IInv, registry, TypeOK, InHand, Booting, Unrecorded, Ending, Products, Roled, Role, GoOr,
         keys, Goto, Raise
<1>5. ASSUME NEW c \in Clients PROVE Served(c)' /\ Settled(c)'
  BY DeploymentAssumption DEF IInv, registry, TypeOK, InHand, Booting, Unrecorded, Ending, Served, Settled, Role, GoOr,
         keys, Goto, Raise
<1> QED
  BY <1>1, <1>2, <1>3, <1>4, <1>5 DEF IInv

LEMMA CheckKeeps ==
  ASSUME IInv, Check
  PROVE  IInv'
<1>1. TypeOK'
  BY DEF IInv, registry, TypeOK, Check, Goto, infra, keys
<1>2. Reading'
  BY DEF IInv, registry, Reading, Check, Goto, infra, keys
<1>3. InHand'
  BY DeploymentAssumption DEF IInv, registry, TypeOK, InHand, Booting, Unrecorded, Ending, Check, Goto, infra, keys
<1>4. Products'
  BY DeploymentAssumption DEF IInv, registry, TypeOK, InHand, Booting, Unrecorded, Ending, Products, Roled, Check,
         Goto, infra, keys
<1>5. ASSUME NEW c \in Clients PROVE Served(c)' /\ Settled(c)'
  BY DeploymentAssumption DEF IInv, registry, TypeOK, InHand, Booting, Unrecorded, Ending, Served, Settled, Check,
         Goto, infra, keys
<1> QED
  BY <1>1, <1>2, <1>3, <1>4, <1>5 DEF IInv

LEMMA CreateClientKeeps ==
  ASSUME IInv, CreateClient
  PROVE  IInv'
<1>1. TypeOK'
  BY DEF IInv, registry, TypeOK, CreateClient, GoOr, infra, keys, Goto, Raise
<1>2. Reading'
  BY DEF IInv, registry, Reading, CreateClient, GoOr, infra, keys, Goto, Raise
<1>3. InHand'
  BY DeploymentAssumption DEF IInv, registry, TypeOK, InHand, Booting, Unrecorded, Ending, CreateClient, GoOr, infra,
         keys, Goto, Raise
<1>4. Products'
  BY DeploymentAssumption DEF IInv, registry, TypeOK, InHand, Booting, Unrecorded, Ending, Products, Roled,
         CreateClient, GoOr, infra, keys, Goto, Raise
<1>5. ASSUME NEW c \in Clients PROVE Served(c)' /\ Settled(c)'
  BY DeploymentAssumption DEF IInv, registry, TypeOK, InHand, Booting, Unrecorded, Ending, Served, Settled,
         CreateClient, GoOr, infra, keys, Goto, Raise
<1> QED
  BY <1>1, <1>2, <1>3, <1>4, <1>5 DEF IInv

LEMMA SecretKeeps ==
  ASSUME IInv, Secret
  PROVE  IInv'
<1>1. TypeOK'
  BY DEF IInv, registry, TypeOK, Secret, Goto, infra, keys
<1>2. Reading'
  BY DEF IInv, registry, Reading, Secret, Goto, infra, keys
<1>3. InHand'
  BY DeploymentAssumption DEF IInv, registry, TypeOK, InHand, Booting, Unrecorded, Ending, Secret, Goto, infra, keys
<1>4. Products'
  BY DeploymentAssumption DEF IInv, registry, TypeOK, InHand, Booting, Unrecorded, Ending, Products, Roled, Secret,
         Goto, infra, keys
<1>5. ASSUME NEW c \in Clients PROVE Served(c)' /\ Settled(c)'
  BY DeploymentAssumption DEF IInv, registry, TypeOK, InHand, Booting, Unrecorded, Ending, Served, Settled, Secret,
         Goto, infra, keys
<1> QED
  BY <1>1, <1>2, <1>3, <1>4, <1>5 DEF IInv

\* From here on both stores know the installation.
LEMMA InsertRowKeeps ==
  ASSUME IInv, InsertRow
  PROVE  IInv'
<1>1. TypeOK'
  BY DEF IInv, registry, TypeOK, InsertRow, GoOr, infra, keys, Goto, Raise
<1>2. Reading'
  BY DEF IInv, registry, Reading, InsertRow, GoOr, infra, keys, Goto, Raise
<1>3. InHand'
  BY DeploymentAssumption DEF IInv, registry, TypeOK, InHand, Booting, Unrecorded, Ending, InsertRow, GoOr, infra,
         keys, Goto, Raise
<1>4. Products'
  BY DeploymentAssumption DEF IInv, registry, TypeOK, InHand, Booting, Unrecorded, Ending, Products, Roled, InsertRow,
         GoOr, infra, keys, Goto, Raise
<1>5. ASSUME NEW c \in Clients PROVE Served(c)' /\ Settled(c)'
  BY DeploymentAssumption DEF IInv, registry, TypeOK, InHand, Booting, Unrecorded, Ending, Served, Settled, InsertRow,
         GoOr, infra, keys, Goto, Raise
<1> QED
  BY <1>1, <1>2, <1>3, <1>4, <1>5 DEF IInv

LEMMA HandOutKeeps ==
  ASSUME IInv, HandOut
  PROVE  IInv'
<1>1. TypeOK'
  <2>1. at = "print" /\ who \in Clients
    BY DEF IInv, registry, InHand, Booting, HandOut
  <2> QED
    BY <2>1 DEF IInv, registry, TypeOK, HandOut, Finish, infra, keys
<1>2. Reading'
  BY DEF IInv, registry, Reading, HandOut, Finish, infra, keys
<1>3. InHand'
  BY DeploymentAssumption DEF IInv, registry, TypeOK, InHand, Booting, Unrecorded, Ending, HandOut, Finish, infra,
         keys
<1>4. Products'
  BY DeploymentAssumption DEF IInv, registry, TypeOK, InHand, Booting, Unrecorded, Ending, Products, Roled, HandOut,
         Finish, infra, keys
<1>5. ASSUME NEW c \in Clients PROVE Served(c)' /\ Settled(c)'
  BY DeploymentAssumption DEF IInv, registry, TypeOK, InHand, Booting, Unrecorded, Ending, Served, Settled, HandOut,
         Finish, infra, keys
<1> QED
  BY <1>1, <1>2, <1>3, <1>4, <1>5 DEF IInv

\* Revoked or enabled in Postgres, it is not owed until Keycloak follows.
LEMMA SetRowKeeps ==
  ASSUME IInv, SetRow
  PROVE  IInv'
<1> DEFINE word == Words[at]
<1>0. /\ who \in Clients /\ row \in [Clients -> {"absent", "active", "revoked"}]
      /\ \/ at = "revoke" /\ word = "revoked"
         \/ at = "enable" /\ word = "active"
      /\ row' = [row EXCEPT ![who] = word] /\ owed' = owed \ {who} /\ row[who] # "absent"
      /\ GoOr(IF at = "revoke" THEN "disable client" ELSE "enable client")
      /\ UNCHANGED <<infra, keys, client, lost>>
  <2>1. /\ who \in Clients /\ row \in [Clients -> {"absent", "active", "revoked"}]
        /\ at \in {"revoke", "enable"}
    BY DEF IInv, registry, TypeOK, InHand, Booting, SetRow
  <2>2. (at = "revoke" => word = "revoked") /\ (at = "enable" => word = "active")
    BY DEF Words
  <2> QED
    BY <2>1, <2>2 DEF SetRow
<1> HIDE DEF word
<1>r. row'[who] = word /\ \A c \in Clients \ {who} : row'[c] = row[c]
  BY <1>0
<1>1. TypeOK'
  BY <1>0 DEF IInv, registry, TypeOK, GoOr, Goto, Raise, infra, keys
<1>2. Reading'
  BY DEF IInv, registry, Reading, SetRow, GoOr, Words, infra, keys, Goto, Raise
<1>3. InHand'
  <2>1. \/ at' = "idle" /\ who' = None
        \/ who' = who /\ at = "revoke" /\ at' = "disable client"
        \/ who' = who /\ at = "enable" /\ at' = "enable client"
    <3>1. CASE at = "revoke"
      BY <1>0, <3>1 DEF GoOr, Goto, Raise
    <3>2. CASE at = "enable"
      BY <1>0, <3>2 DEF GoOr, Goto, Raise
    <3> QED BY <1>0, <3>1, <3>2
  <2>2. CASE at' = "idle" /\ who' = None
    BY <2>2 DEF InHand, Booting, Unrecorded, Ending
  <2>3. CASE at = "revoke" /\ at' = "disable client" /\ who' = who
    BY <1>0, <1>r, <2>3 DEF InHand, Booting, Unrecorded, Ending
  <2>4. CASE at = "enable" /\ at' = "enable client" /\ who' = who
    BY <1>0, <1>r, <2>4 DEF InHand, Booting, Unrecorded, Ending
  <2> QED BY <1>0, <2>1, <2>2, <2>3, <2>4
<1>4. Products'
  <2>1. \A c \in told : row[c] = "absent" => c \in told' /\ row'[c] = "absent"
    BY <1>0, <1>r DEF IInv, registry, TypeOK, GoOr, Goto, Raise
  <2>2. /\ realm' = realm /\ lost' = lost /\ at # "role"
        /\ product' = product /\ enabled' = enabled /\ halted' = halted
    BY <1>0 DEF infra, registry
  <2> QED
    BY <1>0, <1>r, <2>1, <2>2 DEF IInv, registry, Products, Roled
<1>5. ASSUME NEW c \in Clients PROVE Served(c)' /\ Settled(c)'
  <2>1. CASE c = who
    BY <1>0, <2>1 DEF Served, Settled, GoOr, Goto, Raise
  <2>2. CASE c # who
    BY <1>0, <1>r, <2>2 DEF IInv, registry, Served, Settled, GoOr, Goto, Raise
  <2> QED BY <2>1, <2>2
<1> QED
  BY <1>1, <1>2, <1>3, <1>4, <1>5 DEF IInv

LEMMA SetClientKeeps ==
  ASSUME IInv, SetClient
  PROVE  IInv'
<1>0. /\ who \in Clients /\ at \in {"disable client", "enable client"} /\ who \notin owed
      /\ row[who] = IF at = "enable client" THEN "active" ELSE "revoked"
      /\ at' = "idle" /\ who' = None /\ UNCHANGED <<infra, keys, row, lost>>
  BY DEF IInv, registry, InHand, Booting, SetClient, Finish
<1>c. \/ /\ client' = [client EXCEPT ![who] = IF at = "enable client" THEN "enabled" ELSE "disabled"]
         /\ told' = told \ {who} \/ told' = told \cup {who}
         /\ owed' = IF at = "enable client" THEN owed \cup {who} ELSE owed
      \/ told' = told \cup {who} /\ UNCHANGED <<client, owed>>
  BY DEF SetClient
<1>1. TypeOK'
  BY <1>0, <1>c DEF IInv, registry, TypeOK, infra, keys
<1>2. Reading'
  BY <1>0 DEF IInv, registry, Reading, keys
<1>3. InHand'
  BY <1>0 DEF InHand, Booting, Unrecorded, Ending
<1>4. Products'
  <2>1. \A c \in told : row[c] = "absent" => c \in told'
    BY <1>0, <1>c
  <2>2. /\ realm' = realm /\ at # "role"
        /\ product' = product /\ enabled' = enabled /\ halted' = halted
    BY <1>0 DEF infra, registry
  <2> QED
    BY <1>0, <2>1, <2>2 DEF IInv, registry, Products, Roled
<1>5. ASSUME NEW c \in Clients PROVE Served(c)' /\ Settled(c)'
  <2>1. client \in [Clients -> {"absent", "enabled", "disabled"}] /\ Served(c) /\ Settled(c)
    BY DEF IInv, registry, TypeOK
  <2>2. CASE c = who
    BY <1>0, <1>c, <2>1, <2>2 DEF Served, Settled
  <2>3. CASE c # who
    BY <1>0, <1>c, <2>1, <2>3 DEF Served, Settled
  <2> QED BY <2>2, <2>3
<1> QED
  BY <1>1, <1>2, <1>3, <1>4, <1>5 DEF IInv

\* What goes with the containers is noted.
LEMMA DownKeeps ==
  ASSUME IInv, Down
  PROVE  IInv'
<1>1. TypeOK'
  <2>1. {cached', authority', read'.key} \subseteq 0..made' /\ made' \in 0..MaxEpoch
    BY DeploymentAssumption DEF IInv, registry, TypeOK, Down, ContainersGo, VolumeGoes, VolumeStays, NoRead
  <2>2. read'.doc \in Shapes \cup {None} /\ read'.epoch \in 0..made'
    BY DeploymentAssumption DEF IInv, registry, TypeOK, Down, ContainersGo, NoRead
  <2>3. {up', file', schema', product', enabled', halted', replaced'} \subseteq BOOLEAN
    BY DEF IInv, registry, TypeOK, Down, VolumeGoes, VolumeStays
  <2>4. /\ realm' \in [profile : BOOLEAN, role : BOOLEAN]
        /\ client' \in [Clients -> {"absent", "enabled", "disabled"}]
        /\ row' \in [Clients -> {"absent", "active", "revoked"}]
    <3>1. realm' = NoRealm \/ realm' = realm
      BY DEF Down, ContainersGo
    <3>2. client' = [c \in Clients |-> "absent"] \/ client' = client
      BY DEF Down, ContainersGo, books
    <3>3. row' = [c \in Clients |-> "absent"] \/ row' = row
      BY DEF Down, VolumeGoes, VolumeStays, books
    <3>4. realm' \in [profile : BOOLEAN, role : BOOLEAN]
      <4>1. NoRealm \in [profile : BOOLEAN, role : BOOLEAN]
        BY DEF NoRealm
      <4> QED BY <3>1, <4>1 DEF IInv, registry, TypeOK
    <3>5. client' \in [Clients -> {"absent", "enabled", "disabled"}]
      BY <3>2 DEF IInv, registry, TypeOK
    <3>6. row' \in [Clients -> {"absent", "active", "revoked"}]
      BY <3>3 DEF IInv, registry, TypeOK
    <3> QED BY <3>4, <3>5, <3>6
  <2>5. who' \in Clients \cup {None} /\ told' \cup owed' \subseteq Clients
        /\ lost' \subseteq Clients \cup {"role"}
    BY DEF IInv, registry, TypeOK, Down, ContainersGo, VolumeGoes, VolumeStays, books
  <2> QED
    BY <2>1, <2>2, <2>3, <2>4, <2>5 DEF TypeOK
<1>2. Reading'
  BY DEF IInv, registry, Reading, Down, ContainersGo, VolumeGoes, VolumeStays, books, NoRead,
         NoRealm
<1>3. InHand'
  BY DeploymentAssumption DEF IInv, registry, TypeOK, InHand, Booting, Unrecorded, Ending, Down, ContainersGo,
         VolumeGoes, VolumeStays, books, NoRead, NoRealm
<1>4. Products'
  <2>1. CASE UNCHANGED <<up, realm, schema, registry, cached, read, replaced, books>>
    BY <2>1 DEF IInv, Down, Products, Roled, registry, books
  <2>2. CASE ContainersGo /\ VolumeGoes
    BY <2>2 DEF Products, ContainersGo, VolumeGoes
  <2>3. CASE ContainersGo /\ VolumeStays
    <3>1. /\ product' = product /\ enabled' = enabled /\ halted' = halted /\ row' = row
          /\ product => "role" \in lost'
      BY <2>3 DEF VolumeStays, registry
    <3> QED BY <3>1 DEF IInv, Products, Roled
  <2> QED BY <2>1, <2>2, <2>3 DEF Down
<1>5. ASSUME NEW c \in Clients PROVE Served(c)' /\ Settled(c)'
  BY DeploymentAssumption DEF IInv, registry, TypeOK, InHand, Booting, Unrecorded, Ending, Served, Settled, Down,
         ContainersGo, VolumeGoes, VolumeStays, books, NoRead, NoRealm
<1> QED
  BY <1>1, <1>2, <1>3, <1>4, <1>5 DEF IInv

LEMMA RemoveFilesKeeps ==
  ASSUME IInv, RemoveFiles
  PROVE  IInv'
<1>1. TypeOK'
  <2>1. made \in Nat /\ 0 \in 0..made
    BY DeploymentAssumption DEF IInv, registry, TypeOK
  <2>2. {cached', authority', read'.key} \subseteq 0..made'
    BY <2>1 DEF IInv, registry, TypeOK, RemoveFiles
  <2> QED
    BY <2>2 DEF IInv, registry, TypeOK, RemoveFiles, Stale, books
<1>2. Reading'
  BY DEF IInv, registry, Reading, RemoveFiles, Stale, books
<1>3. InHand'
  BY DeploymentAssumption DEF IInv, registry, TypeOK, InHand, Booting, Unrecorded, Ending, RemoveFiles, Stale, books
<1>4. Products'
  BY DeploymentAssumption DEF IInv, registry, TypeOK, InHand, Booting, Unrecorded, Ending, Products, Roled,
         RemoveFiles, Stale, books
<1>5. ASSUME NEW c \in Clients PROVE Served(c)' /\ Settled(c)'
  BY DeploymentAssumption DEF IInv, registry, TypeOK, InHand, Booting, Unrecorded, Ending, Served, Settled,
         RemoveFiles, Stale, books
<1> QED
  BY <1>1, <1>2, <1>3, <1>4, <1>5 DEF IInv

LEMMA DoneKeeps ==
  ASSUME IInv, Done
  PROVE  IInv'
<1>1. TypeOK'
  BY DEF IInv, registry, TypeOK, Done, Finish, infra, keys, books
<1>2. Reading'
  BY DEF IInv, registry, Reading, Done, Finish, infra, keys, books
<1>3. InHand'
  BY DeploymentAssumption DEF IInv, registry, TypeOK, InHand, Booting, Unrecorded, Ending, Done, Finish, infra, keys,
         books
<1>4. Products'
  BY DeploymentAssumption DEF IInv, registry, TypeOK, InHand, Booting, Unrecorded, Ending, Products, Roled, Done,
         Finish, infra, keys, books
<1>5. ASSUME NEW c \in Clients PROVE Served(c)' /\ Settled(c)'
  BY DeploymentAssumption DEF IInv, registry, TypeOK, InHand, Booting, Unrecorded, Ending, Served, Settled, Done,
         Finish, infra, keys, books
<1> QED
  BY <1>1, <1>2, <1>3, <1>4, <1>5 DEF IInv

LEMMA RecreateKeeps ==
  ASSUME IInv, Recreate
  PROVE  IInv'
<1>1. TypeOK'
  <2>1. made \in Nat /\ 0 \in 0..made /\ read'.key = 0 /\ read'.epoch = 0 /\ read'.doc = None
    BY DeploymentAssumption DEF IInv, registry, TypeOK, Recreate, ContainersGo, NoRead
  <2>2. {cached', authority', read'.key} \subseteq 0..made' /\ read'.epoch \in 0..made'
    BY <2>1 DEF IInv, registry, TypeOK, Recreate, VolumeStays
  <2> QED
    BY <2>1, <2>2 DEF IInv, registry, TypeOK, Recreate, ContainersGo, VolumeStays, NoRealm
<1>2. Reading'
  BY DEF IInv, registry, Reading, Recreate, ContainersGo, VolumeStays, NoRead, NoRealm
<1>3. InHand'
  BY DeploymentAssumption DEF IInv, registry, TypeOK, InHand, Booting, Unrecorded, Ending, Recreate, ContainersGo,
         VolumeStays, NoRead, NoRealm
<1>4. Products'
  BY DeploymentAssumption DEF IInv, registry, TypeOK, InHand, Booting, Unrecorded, Ending, Products, Roled, Recreate,
         ContainersGo, VolumeStays, NoRead, NoRealm
<1>5. ASSUME NEW c \in Clients PROVE Served(c)' /\ Settled(c)'
  BY DeploymentAssumption DEF IInv, registry, TypeOK, InHand, Booting, Unrecorded, Ending, Served, Settled, Recreate,
         ContainersGo, VolumeStays, NoRead, NoRealm
<1> QED
  BY <1>1, <1>2, <1>3, <1>4, <1>5 DEF IInv

\* Reads change no store but the cached key.
LEMMA OpenKeeps ==
  ASSUME IInv, Open
  PROVE  IInv'
<1>1. TypeOK'
  BY DEF IInv, registry, TypeOK, Open, infra, books
<1>2. Reading'
  BY DEF IInv, registry, Reading, Open, infra, books
<1>3. InHand'
  BY DeploymentAssumption DEF IInv, registry, TypeOK, InHand, Booting, Unrecorded, Ending, Open, infra, books
<1>4. Products'
  BY DeploymentAssumption DEF IInv, registry, TypeOK, InHand, Booting, Unrecorded, Ending, Products, Roled, Open,
         infra, books
<1>5. ASSUME NEW c \in Clients PROVE Served(c)' /\ Settled(c)'
  BY DeploymentAssumption DEF IInv, registry, TypeOK, InHand, Booting, Unrecorded, Ending, Served, Settled, Open,
         infra, books
<1> QED
  BY <1>1, <1>2, <1>3, <1>4, <1>5 DEF IInv

LEMMA KeygenKeeps ==
  ASSUME IInv, Keygen
  PROVE  IInv'
<1>1. TypeOK'
  BY DEF IInv, registry, TypeOK, Keygen, infra, books
<1>2. Reading'
  BY DEF IInv, registry, Reading, Keygen, infra, books
<1>3. InHand'
  BY DeploymentAssumption DEF IInv, registry, TypeOK, InHand, Booting, Unrecorded, Ending, Keygen, infra, books
<1>4. Products'
  BY DeploymentAssumption DEF IInv, registry, TypeOK, InHand, Booting, Unrecorded, Ending, Products, Roled, Keygen,
         infra, books
<1>5. ASSUME NEW c \in Clients PROVE Served(c)' /\ Settled(c)'
  BY DeploymentAssumption DEF IInv, registry, TypeOK, InHand, Booting, Unrecorded, Ending, Served, Settled, Keygen,
         infra, books
<1> QED
  BY <1>1, <1>2, <1>3, <1>4, <1>5 DEF IInv

LEMMA StoreKeyKeeps ==
  ASSUME IInv, StoreKey
  PROVE  IInv'
<1>1. TypeOK'
  BY DEF IInv, registry, TypeOK, StoreKey, infra, books
<1>2. Reading'
  BY DEF IInv, registry, Reading, StoreKey, infra, books
<1>3. InHand'
  BY DeploymentAssumption DEF IInv, registry, TypeOK, InHand, Booting, Unrecorded, Ending, StoreKey, infra, books
<1>4. Products'
  BY DeploymentAssumption DEF IInv, registry, TypeOK, InHand, Booting, Unrecorded, Ending, Products, Roled, StoreKey,
         infra, books
<1>5. ASSUME NEW c \in Clients PROVE Served(c)' /\ Settled(c)'
  BY DeploymentAssumption DEF IInv, registry, TypeOK, InHand, Booting, Unrecorded, Ending, Served, Settled, StoreKey,
         infra, books
<1> QED
  BY <1>1, <1>2, <1>3, <1>4, <1>5 DEF IInv

LEMMA DecryptKeeps ==
  ASSUME IInv, Decrypt
  PROVE  IInv'
<1>1. TypeOK'
  BY DEF IInv, registry, TypeOK, Decrypt, infra, books
<1>2. Reading'
  BY DEF IInv, registry, Reading, Decrypt, infra, books
<1>3. InHand'
  BY DeploymentAssumption DEF IInv, registry, TypeOK, InHand, Booting, Unrecorded, Ending, Decrypt, infra, books
<1>4. Products'
  BY DeploymentAssumption DEF IInv, registry, TypeOK, InHand, Booting, Unrecorded, Ending, Products, Roled, Decrypt,
         infra, books
<1>5. ASSUME NEW c \in Clients PROVE Served(c)' /\ Settled(c)'
  BY DeploymentAssumption DEF IInv, registry, TypeOK, InHand, Booting, Unrecorded, Ending, Served, Settled, Decrypt,
         infra, books
<1> QED
  BY <1>1, <1>2, <1>3, <1>4, <1>5 DEF IInv

LEMMA ReadFailsKeeps ==
  ASSUME IInv, ReadFails
  PROVE  IInv'
<1>0. cached' \in {cached, read.key} /\ read' = NoRead
      /\ UNCHANGED <<infra, authority, made, replaced, books, at, who>>
  BY DEF ReadFails
<1>1. TypeOK'
  <2>1. made \in Nat /\ 0 \in 0..made
    BY DeploymentAssumption DEF IInv, TypeOK
  <2>2. read'.key = 0 /\ read'.epoch = 0 /\ read'.doc = None
    BY <1>0 DEF NoRead
  <2> QED
    BY <1>0, <2>1, <2>2 DEF IInv, TypeOK, infra, registry, books
<1>2. Reading'
  BY <1>0 DEF Reading, NoRead
<1>3. InHand'
  BY <1>0 DEF IInv, InHand, infra, registry, books
<1>4. Products'
  BY <1>0 DEF IInv, Products, Roled, infra, registry, books
<1>5. ASSUME NEW c \in Clients PROVE Served(c)' /\ Settled(c)'
  BY <1>0 DEF IInv, Served, Settled, books
<1> QED
  BY <1>1, <1>2, <1>3, <1>4, <1>5 DEF IInv

LEMMA NextKeeps == IInv /\ [Next]_vars => IInv'
<1> SUFFICES ASSUME IInv, [Next]_vars PROVE IInv'
  OBVIOUS
<1>1. CASE UNCHANGED vars
  <2>1. TypeOK' /\ Reading'
    BY <1>1 DEF vars, infra, registry, keys, books, IInv, TypeOK, Reading
  <2>2. InHand' /\ Products'
    BY <1>1 DEF vars, infra, registry, keys, books, IInv, InHand, Products, Roled
  <2>3. \A c \in Clients : Served(c)' /\ Settled(c)'
    BY <1>1 DEF vars, infra, registry, keys, books, IInv, Served, Settled
  <2> QED
    BY <2>1, <2>2, <2>3 DEF IInv
<1>2. CASE Next
  BY <1>2, FailKeeps, CommandKeeps, RealmFileKeeps, WaitKeeps, ComposeUpKeeps, ProfileKeeps,
     InitSchemaKeeps, AuthorityKeeps, ProductKeeps, SetProductKeeps, RoleKeeps, CheckKeeps, CreateClientKeeps,
     SecretKeeps, InsertRowKeeps, HandOutKeeps, SetRowKeeps, SetClientKeeps, DownKeeps,
     RemoveFilesKeeps, DoneKeeps, RecreateKeeps, OpenKeeps, KeygenKeeps, StoreKeyKeeps,
     DecryptKeeps, ReadFailsKeeps, Zenon DEF Next
<1> QED
  BY <1>1, <1>2

LEMMA AlwaysIInv == Spec => []IInv
BY InitIInv, NextKeeps, PTL DEF Spec

\* The stores, the administrator's notes and the keys have their types.
THEOREM DeploymentTypes == Spec => []TypeOK
<1>1. IInv => TypeOK
  BY DEF IInv
<1> QED BY <1>1, AlwaysIInv, PTL

\* What was handed out, or enabled without a warning, is known to both stores,
\* and served unless its product was disabled last, whatever command failed at
\* whatever step.
THEOREM InstallationsAlwaysServe == Spec => []InstallationsServe
<1>1. ASSUME IInv PROVE InstallationsServe
  <2> SUFFICES ASSUME NEW c \in owed
               PROVE  /\ client[c] = "enabled" /\ row[c] = "active"
                      /\ product /\ enabled = ~halted
                      /\ realm.role \/ "role" \in lost \/ told # {}
    BY DEF InstallationsServe
  <2>1. c \in Clients /\ Served(c)
    BY <1>1 DEF IInv, TypeOK
  <2>2. product /\ enabled = ~halted
    BY <1>1, <2>1 DEF IInv, Products, Served
  <2>3. Roled
    BY <1>1, <2>2 DEF IInv, Products
  <2> QED
    BY <2>1, <2>2, <2>3 DEF Served, Roled
<1> QED BY <1>1, AlwaysIInv, PTL

\* Keycloak and Postgres never disagree in silence, except over what went with
\* Keycloak's container.
THEOREM StoresAlwaysAgreeOrTold == Spec => []StoresAgreeOrTold
<1>1. IInv => StoresAgreeOrTold
  BY DEF IInv, Settled, StoresAgreeOrTold
<1> QED BY <1>1, AlwaysIInv, PTL

----------------------------------------------------------------------------
(* What a server reads.  A cached key and the key of a running read are of *)
(* the present authority until one replaces it under them (KeysCurrent).   *)

KeysCurrent ==
  /\ read.pc \in {"keygen", "store", "decrypt"} => read.doc \in Shapes
  /\ ~replaced => /\ cached \in {0, authority}
                  /\ read.pc \in {"store", "decrypt"} => read.key = authority

LEMMA InitKeys == Init => KeysCurrent
BY DEF Init, KeysCurrent, NoRead

\* The steps of commands and of reads that touch an authority or a key.
LEMMA AuthorityKeys == ASSUME IInv, KeysCurrent, SetupAuthority \/ RemoveFiles PROVE KeysCurrent'
<1>1. replaced \in BOOLEAN /\ UNCHANGED <<cached, read>>
  BY DEF SetupAuthority, RemoveFiles, IInv, TypeOK
<1>2. CASE SetupAuthority
  <2>1. CASE UNCHANGED <<authority, replaced>>
    BY <1>1, <2>1 DEF KeysCurrent
  <2>2. CASE replaced' = (replaced \/ Stale)
    <3>1. ASSUME ~replaced' PROVE cached' = 0 /\ read'.pc \notin {"store", "decrypt"}
      BY <1>1, <2>2, <3>1 DEF Stale
    <3>2. read'.pc \in {"keygen", "store", "decrypt"} => read'.doc \in Shapes
      BY <1>1 DEF KeysCurrent
    <3> QED BY <3>1, <3>2 DEF KeysCurrent
  <2> QED BY <1>2, <2>1, <2>2 DEF SetupAuthority
<1>3. CASE RemoveFiles
  BY <1>1, <1>3 DEF RemoveFiles, Stale, KeysCurrent
<1> QED BY <1>2, <1>3

LEMMA ContainerKeys == ASSUME KeysCurrent, Down \/ Recreate PROVE KeysCurrent'
<1>1. CASE UNCHANGED <<cached, authority, read, replaced>>
  BY <1>1 DEF KeysCurrent
<1>2. CASE ContainersGo /\ VolumeGoes /\ UNCHANGED authority
  BY <1>2 DEF KeysCurrent, ContainersGo, VolumeGoes, NoRead
<1>3. CASE ContainersGo /\ VolumeStays /\ UNCHANGED authority
  BY <1>3 DEF KeysCurrent, ContainersGo, VolumeStays, NoRead
<1> QED BY <1>1, <1>2, <1>3 DEF Down, Recreate

LEMMA ReadKeys ==
  ASSUME IInv, KeysCurrent, Open \/ Keygen \/ StoreKey \/ Decrypt \/ ReadFails
  PROVE  KeysCurrent'
<1>1. DOMAIN read = {"pc", "doc", "epoch", "key", "failed", "out"} /\ replaced \in BOOLEAN
  BY DEF IInv, TypeOK, Reading
<1>2. CASE Open
  BY <1>2 DEF Open, KeysCurrent
<1>3. CASE Keygen
  BY <1>1, <1>3 DEF Keygen, KeysCurrent
<1>4. CASE StoreKey
  BY <1>1, <1>4 DEF StoreKey, KeysCurrent
<1>5. CASE Decrypt
  <2>1. read'.pc = "end" /\ UNCHANGED <<cached, authority, replaced>>
    BY <1>1, <1>5 DEF Decrypt
  <2> QED BY <2>1 DEF KeysCurrent
<1>6. CASE ReadFails
  <2>1. /\ cached' = cached \/ (read.pc = "store" /\ cached' = read.key)
        /\ read'.pc = "idle" /\ UNCHANGED <<authority, replaced>>
    BY <1>6 DEF ReadFails, NoRead
  <2> QED BY <2>1 DEF KeysCurrent
<1> QED BY <1>2, <1>3, <1>4, <1>5, <1>6

LEMMA NextKeys == IInv /\ KeysCurrent /\ [Next]_vars => KeysCurrent'
<1> SUFFICES ASSUME IInv, KeysCurrent, [Next]_vars PROVE KeysCurrent'
  OBVIOUS
<1>1. CASE UNCHANGED keys
  BY <1>1 DEF keys, KeysCurrent
<1>2. \/ UNCHANGED keys \/ SetupAuthority \/ RemoveFiles \/ Down \/ Recreate
      \/ Open \/ Keygen \/ StoreKey \/ Decrypt \/ ReadFails
  BY DEF Next, vars, Fail, Command, RealmFile, ComposeUp, Wait, Profile, InitSchema, Product,
         SetProduct, Role, Check, CreateClient, Secret, InsertRow, HandOut, SetRow, SetClient, Done
<1> QED BY <1>1, <1>2, AuthorityKeys, ContainerKeys, ReadKeys

----------------------------------------------------------------------------
(* What decryption returns (AbeDocument).                                  *)

LEMMA DocParts ==
  ASSUME NEW doc \in DocType, WellFormed(doc), NEW i \in DOMAIN doc.sections
  PROVE  /\ doc.groups \in Seq(GroupType) /\ doc.sections \in Seq(Int)
         /\ GroupOf(doc, i) \in DOMAIN doc.groups
         /\ doc.groups[GroupOf(doc, i)].gate \in Gates
         /\ doc.groups[GroupOf(doc, i)].texts \in Seq(Nat)
<1>1. doc.groups \in Seq(GroupType) /\ doc.sections \in Seq(Int)
  BY DEF DocType
<1>2. GroupOf(doc, i) \in DOMAIN doc.groups
  BY DEF WellFormed, Loads
<1>3. doc.groups[GroupOf(doc, i)] \in GroupType
  BY <1>1, <1>2, ElementOfSeq
<1> QED BY <1>1, <1>2, <1>3 DEF GroupType

\* Zipping counts right: the section of rank n in its group has the group's
\* nth text, which is its own.
LEMMA TextOfRank ==
  ASSUME NEW doc \in DocType, WellFormed(doc), NEW i \in DOMAIN doc.sections
  PROVE  LET texts == doc.groups[GroupOf(doc, i)].texts
         IN  Rank(doc, i) \in DOMAIN texts /\ texts[Rank(doc, i)] = i
<1> DEFINE g == GroupOf(doc, i)
           texts == doc.groups[g].texts
           before == {x \in 1..i : GroupOf(doc, x) = g}
<1>1. /\ doc.groups \in Seq(GroupType) /\ doc.sections \in Seq(Int)
      /\ g \in DOMAIN doc.groups /\ texts \in Seq(Nat)
  BY DocParts
<1>2. /\ {texts[n] : n \in DOMAIN texts} = {x \in DOMAIN doc.sections : GroupOf(doc, x) = g}
      /\ \A m, n \in DOMAIN texts : m < n => texts[m] < texts[n]
  BY <1>1 DEF WellFormed
<1>3. PICK p \in DOMAIN texts : texts[p] = i
  BY <1>2
<1> HIDE DEF texts, g
<1>4. /\ DOMAIN texts = 1..Len(texts) /\ Len(texts) \in Nat
      /\ DOMAIN doc.sections = 1..Len(doc.sections) /\ Len(doc.sections) \in Nat
      /\ p \in Nat /\ i \in Nat /\ \A m \in DOMAIN texts : texts[m] \in Nat
  BY <1>1
<1> DEFINE f == [m \in 1..p |-> texts[m]]
<1>5. ASSUME NEW m \in 1..p PROVE f[m] \in before /\ m \in DOMAIN texts /\ f[m] = texts[m]
  <2>1. m \in DOMAIN texts /\ (m < p \/ m = p)
    BY <1>4
  <2>2. texts[m] \in DOMAIN doc.sections /\ GroupOf(doc, texts[m]) = g
    BY <1>2, <2>1
  <2>3. texts[m] <= i
    BY <1>2, <1>3, <1>4, <2>1
  <2> QED BY <1>4, <2>1, <2>2, <2>3
<1>6. ASSUME NEW x \in before PROVE \E m \in 1..p : f[m] = x
  <2>1. x \in DOMAIN doc.sections /\ GroupOf(doc, x) = g /\ x <= i
    BY <1>4
  <2>2. PICK m \in DOMAIN texts : texts[m] = x
    BY <1>2, <2>1
  <2>3. m <= p
    BY <1>2, <1>3, <1>4, <2>1, <2>2
  <2> QED BY <1>4, <2>2, <2>3
<1>7. ASSUME NEW m \in 1..p, NEW n \in 1..p, f[m] = f[n] PROVE m = n
  <2>1. m \in DOMAIN texts /\ n \in DOMAIN texts /\ texts[m] = texts[n]
    BY <1>5, <1>7
  <2> QED BY <1>2, <1>4, <2>1
<1>8. f \in Bijection(1..p, before)
  <2> HIDE DEF before
  <2>1. f \in [1..p -> before]
    BY <1>5
  <2> HIDE DEF f
  <2> QED BY <1>6, <1>7, <2>1 DEF Bijection, Injection, Surjection, IsInjective
<1>9. IsFiniteSet(1..p) /\ Cardinality(1..p) = p
  BY <1>4, FS_Interval
<1>10. Cardinality(before) = p
  BY <1>8, <1>9, FS_Bijection DEF ExistsBijection
<1> QED BY <1>3, <1>10 DEF Rank, texts, g

\* A section gets its own text if the key opens its group, and none otherwise.
LEMMA DecryptedText ==
  ASSUME NEW doc \in DocType, WellFormed(doc), NEW fits, NEW failed,
         NEW i \in DOMAIN doc.sections
  PROVE  Decrypted(doc, fits, failed)[i] =
           IF Opens(doc, GroupOf(doc, i), fits, failed) THEN i ELSE Denied
BY TextOfRank DEF Decrypted

\* Nothing beyond what was written for the reader, whatever key and failures;
LEMMA NoMoreIsRead ==
  ASSUME NEW doc \in DocType, WellFormed(doc), NEW fits, NEW failed,
         NEW i \in DOMAIN doc.sections
  PROVE  /\ Decrypted(doc, fits, failed)[i] \in {Denied, AsWritten(doc)[i]}
         /\ doc.groups[GroupOf(doc, i)].gate = "none" => Decrypted(doc, fits, failed)[i] = i
BY DecryptedText DEF AsWritten, Opens

\* whole groups or nothing of them;
LEMMA GroupsAreReadWhole ==
  ASSUME NEW doc \in DocType, WellFormed(doc), NEW fits, NEW failed, Denied \notin DOMAIN doc.sections,
         NEW i \in DOMAIN doc.sections, NEW j \in DOMAIN doc.sections, GroupOf(doc, i) = GroupOf(doc, j)
  PROVE  Decrypted(doc, fits, failed)[i] = Denied <=> Decrypted(doc, fits, failed)[j] = Denied
<1>1. i # Denied /\ j # Denied
  OBVIOUS
<1>2. Decrypted(doc, fits, failed)[i] = IF Opens(doc, GroupOf(doc, i), fits, failed) THEN i ELSE Denied
  BY DecryptedText
<1>3. Decrypted(doc, fits, failed)[j] = IF Opens(doc, GroupOf(doc, i), fits, failed) THEN j ELSE Denied
  BY DecryptedText
<1> QED BY <1>1, <1>2, <1>3

\* and with a key that fits, everything whose oabe_dec did not fail.
LEMMA FittingKeyReadsAll ==
  ASSUME NEW doc \in DocType, WellFormed(doc), NEW failed,
         NEW i \in DOMAIN doc.sections, GroupOf(doc, i) \notin failed
  PROVE  Decrypted(doc, TRUE, failed)[i] = AsWritten(doc)[i]
<1>1. doc.groups[GroupOf(doc, i)].gate \in Gates
  BY DocParts
<1> QED BY <1>1, DecryptedText DEF AsWritten, Opens, Gates

\* decrypt_document under agent_session_key: what a read returns is what was
\* written for its reader, group by group, and all of it under the document's
\* own authority unless an oabe_dec failed; for any documents, authorities and
\* commands in between.
THEOREM ReadsAlwaysWhole == Spec => ReadsAreWhole
<1>1. Spec => [](IInv /\ KeysCurrent)
  BY InitIInv, InitKeys, NextKeeps, NextKeys, PTL DEF Spec
<1> DEFINE Returned(doc, out, i) ==
      /\ out[i] \in {Denied, AsWritten(doc)[i]}
      /\ doc.groups[GroupOf(doc, i)].gate = "none" => out[i] = i
      /\ \A j \in DOMAIN doc.sections :
           GroupOf(doc, i) = GroupOf(doc, j) => (out[i] = Denied <=> out[j] = Denied)
      /\ ~replaced /\ read.epoch = authority /\ GroupOf(doc, i) \notin read'.failed =>
           out[i] = AsWritten(doc)[i]
    Whole ==
      read.pc = "decrypt" /\ read'.pc = "end" /\ WellFormed(read.doc) =>
        \A i \in DOMAIN read.doc.sections : Returned(read.doc, read'.out, i)
<1>2. IInv /\ KeysCurrent /\ [Next]_vars => [Whole]_vars
  <2> SUFFICES ASSUME IInv, KeysCurrent, Next, read.pc = "decrypt", read'.pc = "end",
                      WellFormed(read.doc), NEW i \in DOMAIN read.doc.sections
               PROVE  Returned(read.doc, read'.out, i)
    OBVIOUS
  <2>1. read' # read
    OBVIOUS
  <2>2. Decrypt
    <3>1. read' # NoRead
      BY DEF NoRead
    <3> QED
      BY <2>1, <3>1 DEF Next, keys, Fail, Command, RealmFile, ComposeUp, Wait, Profile, InitSchema,
         SetupAuthority, Product, SetProduct, Role, Check, CreateClient, Secret, InsertRow, HandOut,
         SetRow, SetClient, Down, RemoveFiles, Done, Recreate, ContainersGo, Open, Keygen, StoreKey,
         ReadFails
  <2>3. read.doc \in DocType /\ Loads(read.doc) /\ Denied \notin DOMAIN read.doc.sections
    BY DeploymentAssumption DEF KeysCurrent, WellFormed
  <2>4. PICK fits \in Fits : read'.out = Decrypted(read.doc, fits, read'.failed)
    <3>1. DOMAIN read = {"pc", "doc", "epoch", "key", "failed", "out"}
      BY DEF IInv, Reading
    <3> QED BY <2>2, <2>3, <3>1 DEF Decrypt
  <2>5. ASSUME ~replaced, read.epoch = authority PROVE fits = TRUE
    BY <2>4, <2>5 DEF KeysCurrent, Fits
  <2>6. /\ read'.out[i] \in {Denied, AsWritten(read.doc)[i]}
        /\ read.doc.groups[GroupOf(read.doc, i)].gate = "none" => read'.out[i] = i
    BY <2>3, <2>4, NoMoreIsRead
  <2>7. \A j \in DOMAIN read.doc.sections :
          GroupOf(read.doc, i) = GroupOf(read.doc, j) =>
            (read'.out[i] = Denied <=> read'.out[j] = Denied)
    BY <2>3, <2>4, GroupsAreReadWhole
  <2>8. ~replaced /\ read.epoch = authority /\ GroupOf(read.doc, i) \notin read'.failed =>
          read'.out[i] = AsWritten(read.doc)[i]
    <3> SUFFICES ASSUME ~replaced, read.epoch = authority, GroupOf(read.doc, i) \notin read'.failed
                 PROVE  read'.out[i] = AsWritten(read.doc)[i]
      OBVIOUS
    <3>1. read'.out = Decrypted(read.doc, TRUE, read'.failed)
      BY <2>4, <2>5
    <3>2. Decrypted(read.doc, TRUE, read'.failed)[i] = AsWritten(read.doc)[i]
      BY <2>3, FittingKeyReadsAll
    <3> QED BY <3>1, <3>2
  <2> QED BY <2>6, <2>7, <2>8
<1> QED BY <1>1, <1>2, PTL DEF Spec, ReadsAreWhole

----------------------------------------------------------------------------
(* The registry as PabelServer sees it: the two tables the server reads    *)
(* during its calls are the rows this module's commands write.             *)

Registered == [attrs |-> <<>>, role |-> "role"]
ProductTable == [a \in {"product"} |->
  IF product THEN [attrs |-> <<>>, role |-> "role", enabled |-> enabled] ELSE None]
InstallationTable == [c \in Clients |->
  IF row[c] = "absent" THEN None ELSE [agent |-> "product", revoked |-> row[c] = "revoked"]]

Server == INSTANCE PabelServer WITH
  Servers <- {}, HttpServers <- {}, Users <- {}, Agents <- {"product"}, Roles <- {"role"},
  Tokens <- {}, Claims <- {}, Products <- {Registered}, Requests <- {},
  agents <- ProductTable, installations <- InstallationTable,
  agentKeys <- <<>>, pc <- <<>>, req <- <<>>, ctx <- <<>>, answer <- <<>>, trail <- <<>>

\* One step of a command, seen in the tables.
RegistryStep == Server!AdminStep \/ UNCHANGED <<ProductTable, InstallationTable>>

\* Adding the product anew leaves its flag alone.
LEMMA ProductRegisters ==
  ASSUME IInv, Product, None \notin Server!AgentRows
  PROVE  RegistryStep
<1>1. /\ product' = TRUE /\ UNCHANGED <<enabled, row>> /\ enabled \in BOOLEAN
      /\ product \in BOOLEAN /\ (~product => enabled)
  BY DEF Product, IInv, TypeOK, Products
<1>2. UNCHANGED InstallationTable
  BY <1>1 DEF InstallationTable
<1>3. IF ProductTable["product"] = None THEN enabled = TRUE
      ELSE ProductTable["product"].enabled = enabled
  <2>1. CASE product
    <3>1. [attrs |-> <<>>, role |-> "role", enabled |-> enabled] \in Server!AgentRows
      BY <1>1 DEF Server!AgentRows
    <3> QED BY <2>1, <3>1 DEF ProductTable
  <2>2. CASE ~product
    BY <1>1, <2>2 DEF ProductTable
  <2> QED BY <2>1, <2>2
<1>4. ProductTable' = [ProductTable EXCEPT !["product"] =
        [attrs |-> Registered.attrs, role |-> Registered.role,
         enabled |-> IF ProductTable["product"] = None THEN TRUE
                     ELSE ProductTable["product"].enabled]]
  <2>1. ProductTable' = [a \in {"product"} |-> [attrs |-> <<>>, role |-> "role", enabled |-> enabled]]
    BY <1>1 DEF ProductTable
  <2>2. (IF ProductTable["product"] = None THEN TRUE ELSE ProductTable["product"].enabled) = enabled
    BY <1>1, <1>3
  <2>3. DOMAIN ProductTable = {"product"}
    BY DEF ProductTable
  <2> QED BY <2>1, <2>2, <2>3 DEF ProductTable, Registered
<1>5. Server!AddAgent("product")
  BY <1>2, <1>4 DEF Server!AddAgent
<1> QED BY <1>5 DEF RegistryStep, Server!AdminStep

LEMMA SetProductRegisters ==
  ASSUME IInv, SetProduct, None \notin Server!AgentRows
  PROVE  RegistryStep
<1>0. enabled \in BOOLEAN
  BY DEF IInv, TypeOK
<1>1. product /\ enabled' = (at = "enable product") /\ UNCHANGED <<product, row>>
  BY DEF SetProduct
<1>2. UNCHANGED InstallationTable
  BY <1>1 DEF InstallationTable
<1>3. /\ ProductTable["product"] = [attrs |-> <<>>, role |-> "role", enabled |-> enabled]
      /\ ProductTable["product"] # None
  <2>1. [attrs |-> <<>>, role |-> "role", enabled |-> enabled] \in Server!AgentRows
    BY <1>0 DEF Server!AgentRows
  <2> QED BY <1>1, <2>1 DEF ProductTable
<1>4. ProductTable' = [ProductTable EXCEPT !["product"].enabled = (at = "enable product")]
  BY <1>1, <1>3 DEF ProductTable
<1>5. Server!SetAgentEnabled("product", at = "enable product")
  BY <1>2, <1>3, <1>4 DEF Server!SetAgentEnabled
<1> QED BY <1>5 DEF RegistryStep, Server!AdminStep

LEMMA InsertRegisters ==
  ASSUME IInv, InsertRow, None \notin Server!AgentRows
  PROVE  RegistryStep
<1>1. /\ who \in Clients /\ row[who] = "absent" /\ product
      /\ row' = [row EXCEPT ![who] = "active"] /\ UNCHANGED <<product, enabled>>
      /\ enabled \in BOOLEAN /\ row \in [Clients -> {"absent", "active", "revoked"}]
  BY DEF InsertRow, IInv, TypeOK, InHand, Unrecorded, Booting, infra, registry
<1>2. ProductTable["product"] # None /\ UNCHANGED ProductTable
  <2>1. ProductTable["product"] = [attrs |-> <<>>, role |-> "role", enabled |-> enabled]
    BY <1>1 DEF ProductTable
  <2>2. [attrs |-> <<>>, role |-> "role", enabled |-> enabled] \in Server!AgentRows
    BY <1>1 DEF Server!AgentRows
  <2> QED BY <1>1, <2>1, <2>2 DEF ProductTable
<1>3. InstallationTable[who] = None
  BY <1>1 DEF InstallationTable
<1>4. InstallationTable' = [InstallationTable EXCEPT ![who] =
                              [agent |-> "product", revoked |-> FALSE]]
  BY <1>1 DEF InstallationTable
<1>5. Server!AddInstallation(who, "product")
  BY <1>2, <1>3, <1>4 DEF Server!AddInstallation
<1> QED BY <1>1, <1>5 DEF RegistryStep, Server!AdminStep

LEMMA SetRowRegisters ==
  ASSUME IInv, SetRow, None \notin Server!InstallationRows
  PROVE  RegistryStep
<1>1. PICK w \in {"revoked", "active"} :
        /\ who \in Clients /\ row[who] \in {"active", "revoked"}
        /\ row' = [row EXCEPT ![who] = w] /\ UNCHANGED <<product, enabled>>
        /\ row \in [Clients -> {"absent", "active", "revoked"}]
  <2>1. who \in Clients
    BY DEF SetRow, IInv, InHand, Booting
  <2>2. Words[at] \in {"revoked", "active"}
    <3>1. Words.revoke = "revoked" /\ Words.enable = "active"
      BY DEF Words
    <3>2. at = "revoke" \/ at = "enable"
      BY DEF SetRow
    <3> QED BY <3>1, <3>2
  <2> QED BY <2>1, <2>2 DEF SetRow, IInv, TypeOK, infra, registry
<1>2. UNCHANGED ProductTable
  BY <1>1 DEF ProductTable
<1>3. InstallationTable[who] = [agent |-> "product", revoked |-> row[who] = "revoked"]
  BY <1>1 DEF InstallationTable
<1>4. InstallationTable[who] # None
  <2>1. [agent |-> "product", revoked |-> row[who] = "revoked"] \in Server!InstallationRows
    BY DEF Server!InstallationRows
  <2> QED BY <1>3, <2>1
<1>5. InstallationTable' = [InstallationTable EXCEPT ![who].revoked = (w = "revoked")]
  <2>1. ASSUME NEW c \in Clients
        PROVE  InstallationTable'[c] =
                 IF c = who THEN [agent |-> "product", revoked |-> w = "revoked"]
                 ELSE InstallationTable[c]
    BY <1>1 DEF InstallationTable
  <2> QED BY <1>1, <1>3, <2>1 DEF InstallationTable
<1>6. Server!SetInstallationRevoked(who, w = "revoked")
  BY <1>2, <1>4, <1>5 DEF Server!SetInstallationRevoked
<1> QED BY <1>1, <1>6 DEF RegistryStep, Server!AdminStep

\* agents_admin.py does to the tables only what PabelServer assumes of an
\* administrator - the product is added or added anew, which leaves its flag
\* alone, disabled or enabled; a row is added once, under a product that is
\* there, is revoked or enabled, and never goes - as long as the tables stay.
THEOREM CommandsKeepRegistry ==
  ASSUME None \notin Server!AgentRows, None \notin Server!InstallationRows
  PROVE  Spec => [][schema /\ schema' => RegistryStep]_vars
<1>1. IInv /\ [Next]_vars => [schema /\ schema' => RegistryStep]_vars
  <2> SUFFICES ASSUME IInv, Next, schema, schema' PROVE RegistryStep
    OBVIOUS
  <2>1. CASE UNCHANGED <<product, enabled, row>>
    BY <2>1 DEF RegistryStep, ProductTable, InstallationTable
  <2>2. CASE \/ Fail \/ Command \/ RealmFile \/ ComposeUp \/ Wait \/ Profile \/ InitSchema
             \/ SetupAuthority \/ Role \/ Check \/ CreateClient \/ Secret \/ HandOut \/ SetClient
             \/ RemoveFiles \/ Done \/ Recreate \/ Open \/ Keygen \/ StoreKey \/ Decrypt
             \/ ReadFails
    BY <2>1, <2>2 DEF Fail, Command, RealmFile, ComposeUp, Wait, Profile, InitSchema, SetupAuthority,
       Role, Check, CreateClient, Secret, HandOut, SetClient, RemoveFiles, Done, Recreate, Open,
       Keygen, StoreKey, Decrypt, ReadFails, VolumeStays, infra, registry, keys, books
  <2>3. CASE Down
    BY <2>1, <2>3 DEF Down, VolumeGoes, VolumeStays, registry, books, IInv, TypeOK
  <2> QED BY <2>2, <2>3, ProductRegisters, SetProductRegisters, InsertRegisters, SetRowRegisters DEF Next
<1> QED BY <1>1, AlwaysIInv, PTL DEF Spec
=============================================================================
