----------------------------- MODULE Deployment -----------------------------
(***************************************************************************)
(* A deployment and its administrator (admin.py, agents_admin.py).  Four   *)
(* stores must agree and share no transaction: Keycloak's realm, which     *)
(* lives and dies with its container; the tables of Postgres, on a volume; *)
(* the ABE authority, in a host directory; and the documents encrypted     *)
(* under it.  Any step of a command may fail, with or without its effect,  *)
(* and a server goes on reading documents meanwhile.  One product, one     *)
(* user and one administrator; the clients are those created at runtime.   *)
(***************************************************************************)
EXTENDS AbeDocument

CONSTANTS
  Clients,    \* identities of installations: random, so each is used once
  Shapes,     \* the documents that exist, each under every authority
  MaxEpoch,   \* bound: authorities ever created
  None

ASSUME DeploymentAssumption ==
  /\ MaxEpoch \in Nat \ {0}
  /\ Shapes \subseteq DocType
  /\ None \notin Clients /\ "role" \notin Clients
  /\ \A s \in Shapes : Denied \notin DOMAIN s.sections

VARIABLES
  up,        \* whether the containers exist
  file,      \* realm-org.json
  realm,     \* Keycloak: whether the profile is declared, and the role exists
  client,    \* Keycloak's clients
  schema,    \* Postgres: whether the tables exist,
  product,   \*   the product's row,
  enabled,   \*   its flag,
  row,       \*   the rows of the installations,
  cached,    \*   and the authority the user's cached key was made by (0: none)
  authority, \* the current authority (0: none)
  made,      \* how many there have been
  at, who,   \* the administrator's next step, and the installation it is about
  read,      \* the read in progress
  told,      \* installations about which the administrator saw an error or warning
  lost,      \* what vanished, unnoticed, with Keycloak's container
  owed,      \* those handed out and not ended since
  halted,    \* whether the product was disabled and not enabled since
  replaced   \* the authority changed under a cached key or a running read

registry == <<product, enabled, halted>>
infra == <<up, file, realm, schema, registry>>
keys == <<cached, authority, made, read, replaced>>
books == <<client, row, told, lost, owed>>
vars == <<infra, keys, books, at, who>>

NoRead == [pc |-> "idle", doc |-> None, epoch |-> 0, key |-> 0,
           failed |-> {}, out |-> None]
NoRealm == [profile |-> FALSE, role |-> FALSE]

Init ==
  /\ up = FALSE /\ file = FALSE /\ realm = NoRealm
  /\ schema = FALSE /\ product = FALSE /\ enabled = TRUE /\ cached = 0
  /\ client = [c \in Clients |-> "absent"] /\ row = [c \in Clients |-> "absent"]
  /\ authority = 0 /\ made = 0
  /\ at = "idle" /\ who = None /\ read = NoRead
  /\ told = {} /\ lost = {} /\ owed = {} /\ halted = FALSE /\ replaced = FALSE

----------------------------------------------------------------------------
(* A step ends its command with an exception, or leads to the next one.    *)

Raise == at' = "idle" /\ who' = None /\ told' = told \cup ({who} \ {None})
Goto(l) == at' = l /\ UNCHANGED <<who, told>>
GoOr(l) == Goto(l) \/ Raise            \* its effect took place all the same
Finish == at' = "idle" /\ who' = None

Fail == at # "idle" /\ Raise /\ UNCHANGED <<infra, keys, client, row, lost, owed>>

\* What a command starts with, and for which installation.  The identity of a
\* new one is fresh.
Fresh(c) == client[c] = "absent" /\ row[c] = "absent" /\ c \notin told \cup lost
Command ==
  /\ at = "idle"
  /\ \/ /\ at' \in {"realm file", "add", "disable product", "enable product", "down"}
        /\ who' = None
     \/ \E c \in Clients : Fresh(c) /\ at' \in {"product", "check"} /\ who' = c
     \/ \E c \in Clients : at' \in {"revoke", "enable"} /\ who' = c
  /\ UNCHANGED <<infra, keys, books>>

----------------------------------------------------------------------------
(* bootstrap                                                               *)

RealmFile ==
  /\ at = "realm file" /\ file' = TRUE
  /\ at' \in {"up", "wait"} /\ UNCHANGED who                \* --skip-compose
  /\ UNCHANGED <<up, realm, schema, registry, keys, books>>

ComposeUp ==       \* a new Keycloak imports the realm; an old one keeps its own
  /\ at = "up" /\ up' = TRUE
  /\ GoOr("wait")
  /\ UNCHANGED <<file, realm, schema, registry, keys, client, row, lost, owed>>

Wait == at = "wait" /\ up /\ Goto("profile")
        /\ UNCHANGED <<infra, keys, client, row, lost, owed>>

Profile ==
  /\ at = "profile" /\ up /\ realm' = [realm EXCEPT !.profile = TRUE]
  /\ GoOr("schema")
  /\ UNCHANGED <<up, file, schema, registry, keys, client, row, lost, owed>>

InitSchema ==
  /\ at = "schema" /\ up /\ schema' = TRUE
  /\ GoOr("authority")
  /\ UNCHANGED <<up, file, realm, registry, keys, client, row, lost, owed>>

\* A running read holds a key, or a cached key stays, of another authority.
Stale == cached # 0 \/ read.pc \in {"store", "decrypt"}

\* Whatever authority there was is overwritten; oabe_setup is only found to
\* have failed when there is none at all.
SetupAuthority ==
  /\ at = "authority" /\ up
  /\ \/ /\ made < MaxEpoch /\ made' = made + 1 /\ authority' = made + 1
        /\ replaced' = (replaced \/ Stale)
     \/ authority # 0 /\ UNCHANGED <<made, authority, replaced>>
  /\ GoOr("idle")
  /\ UNCHANGED <<infra, cached, read, client, row, lost, owed>>

----------------------------------------------------------------------------
(* onboard, create-installation; add, disable and enable of the product.   *)

Product_Enables ==        \* mutant: ON CONFLICT ... SET enabled = TRUE
  /\ at \in {"product", "add"} /\ up /\ schema
  /\ product' = TRUE /\ enabled' = TRUE
  /\ lost' = IF at = "add" /\ ~realm.role THEN lost \cup {"role"} ELSE lost
  /\ GoOr(IF at = "add" THEN "idle" ELSE "role")
  /\ UNCHANGED <<up, file, realm, schema, halted, keys, client, row, owed>>

\* A row that is there keeps its flag.  Only onboard goes on to the role.
Product ==
  /\ at \in {"product", "add"} /\ up /\ schema
  /\ product' = TRUE
  /\ lost' = IF at = "add" /\ ~realm.role THEN lost \cup {"role"} ELSE lost
  /\ GoOr(IF at = "add" THEN "idle" ELSE "role")
  /\ UNCHANGED <<up, file, realm, schema, enabled, halted, keys, client, row, owed>>

SetProduct ==
  /\ at \in {"disable product", "enable product"} /\ up /\ schema /\ product
  /\ enabled' = (at = "enable product") /\ halted' = (at = "disable product")
  /\ GoOr("idle")
  /\ UNCHANGED <<up, file, realm, schema, product, keys, client, row, lost, owed>>

Role ==
  /\ at = "role" /\ up /\ realm' = [realm EXCEPT !.role = TRUE]
  /\ lost' = lost \ {"role"}
  /\ GoOr("client")
  /\ UNCHANGED <<up, file, schema, registry, keys, client, row, owed>>

Check == at = "check" /\ up /\ product /\ Goto("client")
         /\ UNCHANGED <<infra, keys, client, row, lost, owed>>

CreateClient ==
  /\ at = "client" /\ up /\ client' = [client EXCEPT ![who] = "enabled"]
  /\ GoOr("secret")
  /\ UNCHANGED <<infra, keys, row, lost, owed>>

Secret == at = "secret" /\ up /\ client[who] = "enabled" /\ Goto("row")
          /\ UNCHANGED <<infra, keys, client, row, lost, owed>>

InsertRow ==
  /\ at = "row" /\ up /\ schema /\ product
  /\ row' = [row EXCEPT ![who] = "active"]
  /\ GoOr("print")
  /\ UNCHANGED <<infra, keys, client, lost, owed>>

\* The one line for the employee, unless Keycloak is gone already.
HandOut ==
  /\ at = "print" /\ Finish
  /\ owed' = IF who \in lost THEN owed ELSE owed \cup {who}
  /\ UNCHANGED <<infra, keys, client, row, told, lost>>

----------------------------------------------------------------------------
(* revoke-installation, enable-installation: Postgres, then Keycloak.      *)

Words_Mixed == [revoke |-> "disabled", enable |-> "active"]   \* mutant: Keycloak's word
Words == [revoke |-> "revoked", enable |-> "active"]

SetRow ==
  /\ at \in {"revoke", "enable"} /\ up /\ schema /\ row[who] # "absent"
  /\ row' = [row EXCEPT ![who] = Words[at]]
  /\ owed' = owed \ {who}
  /\ GoOr(IF at = "revoke" THEN "disable client" ELSE "enable client")
  /\ UNCHANGED <<infra, keys, client, lost>>

\* Any failure of Keycloak is a warning, with or without its effect.
SetClient_Quiet ==        \* mutant: best effort, and nobody told
  /\ at \in {"disable client", "enable client"} /\ Finish
  /\ \/ /\ up /\ client[who] # "absent"
        /\ client' = [client EXCEPT
             ![who] = IF at = "enable client" THEN "enabled" ELSE "disabled"]
        /\ told' = told \ {who}
        /\ owed' = IF at = "enable client" THEN owed \cup {who} ELSE owed
     \/ UNCHANGED <<client, owed, told>>
  /\ UNCHANGED <<infra, keys, row, lost>>

SetClient ==
  /\ at \in {"disable client", "enable client"} /\ Finish
  /\ \/ /\ up /\ client[who] # "absent"
        /\ client' = [client EXCEPT
             ![who] = IF at = "enable client" THEN "enabled" ELSE "disabled"]
        /\ \/ told' = told \ {who}
           \/ told' = told \cup {who}
        /\ owed' = IF at = "enable client" THEN owed \cup {who} ELSE owed
     \/ told' = told \cup {who} /\ UNCHANGED <<client, owed>>
  /\ UNCHANGED <<infra, keys, row, lost>>

----------------------------------------------------------------------------
(* teardown, and what else may happen to the containers.                   *)

\* Without its container Keycloak forgets everything created at runtime.
ContainersGo ==
  /\ realm' = NoRealm
  /\ client' = [c \in Clients |-> "absent"]
  /\ read' = NoRead /\ owed' = {}

VolumeGoes ==
  /\ schema' = FALSE /\ product' = FALSE /\ enabled' = TRUE /\ halted' = FALSE /\ cached' = 0
  /\ row' = [c \in Clients |-> "absent"]
  /\ told' = {} /\ lost' = {} /\ replaced' = FALSE

VolumeStays ==
  /\ lost' = lost \cup {c \in Clients : client[c] # "absent" \/ row[c] # "absent"}
                   \cup (IF product THEN {"role"} ELSE {})
  /\ UNCHANGED <<schema, registry, cached, row, told, replaced>>

\* compose down -v, check=False: it may do all, nothing, or leave the volume.
Down ==
  /\ at = "down" /\ at' = "files"
  /\ \/ up' = FALSE /\ ContainersGo /\ (VolumeGoes \/ VolumeStays)
     \/ UNCHANGED <<up, realm, schema, registry, cached, read, replaced, books>>
  /\ UNCHANGED <<file, authority, made, who>>

RemoveFiles ==
  /\ at = "files" /\ authority' = 0 /\ file' = FALSE
  /\ replaced' = (replaced \/ (authority # 0 /\ Stale))
  /\ at' = "done"
  /\ UNCHANGED <<up, realm, schema, registry, cached, made, read, books, who>>

Done == at = "done" /\ Finish /\ UNCHANGED <<infra, keys, books>>

\* Containers are removed, and perhaps started again, outside these scripts.
Recreate ==
  /\ up /\ up' \in {file, FALSE} /\ ContainersGo /\ VolumeStays
  /\ UNCHANGED <<file, authority, made, at, who>>

----------------------------------------------------------------------------
(* The server reads a document: agent_session_key, then decrypt_document.  *)

Open ==
  /\ up /\ schema /\ product /\ enabled /\ read.pc \in {"idle", "end"}
  /\ \E s \in Shapes, e \in 1..made :
       read' = [pc |-> IF cached = 0 THEN "keygen" ELSE "decrypt",
                doc |-> s, epoch |-> e, key |-> cached, failed |-> {}, out |-> None]
  /\ UNCHANGED <<infra, cached, authority, made, replaced, books, at, who>>

Keygen ==
  /\ read.pc = "keygen" /\ authority # 0
  /\ read' = [read EXCEPT !.pc = "store", !.key = authority]
  /\ UNCHANGED <<infra, cached, authority, made, replaced, books, at, who>>

StoreKey ==
  /\ read.pc = "store" /\ cached' = read.key
  /\ read' = [read EXCEPT !.pc = "decrypt"]
  /\ UNCHANGED <<infra, authority, made, replaced, books, at, who>>

\* A key opens only what its own authority encrypted; whether it still does
\* once that authority is gone is up to OpenABE.
Fits == IF read.key # read.epoch THEN {FALSE}
        ELSE IF authority = read.epoch THEN {TRUE} ELSE BOOLEAN

\* Each gated group has an oabe_dec of its own, which may fail for no fault of
\* the key's; a barred one gives nothing anyway.
Decrypt ==
  /\ read.pc = "decrypt" /\ Loads(read.doc)
  /\ \E fits \in Fits,
        failed \in SUBSET {g \in DOMAIN read.doc.groups : read.doc.groups[g].gate = "entitled"} :
       read' = [read EXCEPT !.pc = "end", !.failed = failed,
                            !.out = Decrypted(read.doc, fits, failed)]
  /\ UNCHANGED <<infra, cached, authority, made, replaced, books, at, who>>

\* Any step may raise, the storing of a key with or without its effect: no
\* authority, a document that does not load, a store that is gone.
ReadFails ==
  /\ read.pc \in {"keygen", "store", "decrypt"} /\ read' = NoRead
  /\ cached' \in {cached} \cup (IF read.pc = "store" THEN {read.key} ELSE {})
  /\ UNCHANGED <<infra, authority, made, replaced, books, at, who>>

----------------------------------------------------------------------------

Next ==
  \/ Fail \/ Command
  \/ RealmFile \/ ComposeUp \/ Wait \/ Profile \/ InitSchema \/ SetupAuthority
  \/ Product \/ SetProduct \/ Role \/ Check \/ CreateClient \/ Secret \/ InsertRow \/ HandOut
  \/ SetRow \/ SetClient
  \/ Down \/ RemoveFiles \/ Done \/ Recreate
  \/ Open \/ Keygen \/ StoreKey \/ Decrypt \/ ReadFails

Spec == Init /\ [][Next]_vars

----------------------------------------------------------------------------

TypeOK ==
  /\ {up, file, schema, product, enabled, halted, replaced} \subseteq BOOLEAN
  /\ realm \in [profile : BOOLEAN, role : BOOLEAN]
  /\ client \in [Clients -> {"absent", "enabled", "disabled"}]
  /\ row \in [Clients -> {"absent", "active", "revoked"}]
  /\ {cached, authority, read.key} \subseteq 0..made /\ made \in 0..MaxEpoch
  /\ who \in Clients \cup {None}
  /\ read.doc \in Shapes \cup {None} /\ read.epoch \in 0..made
  /\ told \cup owed \subseteq Clients /\ lost \subseteq Clients \cup {"role"}

\* An installation whose line was handed out, or that was enabled again without
\* a warning, keeps its client and its row until someone revokes it or
\* Keycloak's container goes, and is served exactly while its product was not
\* disabled last, by whichever commands are run for others meanwhile: one handed
\* out for a disabled product is refused until someone enables that, and no
\* onboarding does.  The role its users need is there as well, unless it went
\* with an earlier container, a command failed, or `add` never created it.
InstallationsServe ==
  \A c \in owed : /\ client[c] = "enabled" /\ row[c] = "active"
                  /\ product /\ enabled = ~halted
                  /\ realm.role \/ "role" \in lost \/ told # {}

\* Keycloak and Postgres disagree about an installation only while a command
\* works on it, after an error or a warning about it, or - silently, as
\* generate_realm.py warns - after Keycloak's container was removed.
StoresAgreeOrTold ==
  \A c \in Clients \ (told \cup lost \cup {who}) :
    row[c] = "active" <=> client[c] = "enabled"

\* What a read of a document returns.  No section gets another's text or, if the
\* reader is barred from it, any; an ungated one always gets its own; and the
\* sections of a group are read together or not at all.  Under a document's own
\* authority a section the reader is entitled to is denied only if the oabe_dec
\* of its group failed - whichever command runs meanwhile, as long as no
\* authority replaced one whose keys were still cached or in use.
ReadsAreWhole ==
  [][read.pc = "decrypt" /\ read'.pc = "end" /\ WellFormed(read.doc) =>
       LET doc == read.doc
           out == read'.out
           meant == AsWritten(doc)
       IN  \A i \in DOMAIN doc.sections :
             /\ out[i] \in {Denied, meant[i]}
             /\ doc.groups[GroupOf(doc, i)].gate = "none" => out[i] = i
             /\ \A j \in DOMAIN doc.sections :
                  GroupOf(doc, i) = GroupOf(doc, j) => (out[i] = Denied <=> out[j] = Denied)
             /\ ~replaced /\ read.epoch = authority /\ GroupOf(doc, i) \notin read'.failed =>
                  out[i] = meant[i]]_vars

\* teardown: "done. Run `python admin.py bootstrap` for a clean deployment."
TeardownIsClean ==
  at = "done" => /\ ~up /\ authority = 0
                 /\ cached = 0 /\ ~product /\ \A c \in Clients : row[c] = "absent"
=============================================================================
