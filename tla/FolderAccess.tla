---------------------------- MODULE FolderAccess ----------------------------
(***************************************************************************)
(* How somebody comes to read a shared folder: key-grants.ts, known-keys,  *)
(* folder-invite and awaiting-folders, with folder-key-service,            *)
(* identity-session and folder-crypto, the people dialog of modals.ts, and *)
(* the parts of main.ts that run them.                                     *)
(*                                                                         *)
(* One folder, the vault of its owner, and the vault of each guest.  An    *)
(* address that starts over gets a new account with a new key: lives are   *)
(* numbered, and the key of a life has its number.  The server knows an    *)
(* account by its life, keeps no wrap for a stranger, and ends an account's*)
(* membership with the account.  A request is answered in one action that  *)
(* ends the await; an answer may be lost after the server has acted.       *)
(*                                                                         *)
(* A start over waits seven days, longer than any pass or dialog runs.     *)
(***************************************************************************)
EXTENDS Naturals, FiniteSets

CONSTANTS
    Guests,
    Seated,         \* guests who hold a seat in the organisation from the start
    MaxLives,       \* accounts an address has, one after another
    MaxFaults       \* answers lost, sign-outs, restarts and removals, together

ASSUME SeatedAssumption == Seated \subseteq Guests
ASSUME BoundsAssumption == {MaxLives, MaxFaults} \subseteq Nat

Lives == 1..MaxLives
NoKey == 0
SignedOut == 0

VARIABLES
    account,    \* the server: an address's account, seat, membership and wraps
    invited,    \* the server: invitations to the folder and the organisation
    known,      \* knownKeys of the owner's vault
    keysHere,   \* the owner's vault is signed in and holds the folder's keys
    pass,       \* KeyGrantService.pass
    dialog,     \* the owner adding or inviting somebody
    vault,      \* a guest's settings and session
    look,       \* AwaitingFolders.pass of a guest
    adding,     \* a guest's vault adding the folder
    \* What follows no code reads.
    offers,     \* offers made since the guest's vault signed in
    crossed,    \* guests who signed out while their vault waited for an answer
    confirmed,  \* keys the owner said they had compared, with whose
    alone,      \* guests whose folder invitation was taken back
    faults

server == <<account, invited>>
owner == <<known, keysHere, pass, dialog>>
guest == <<vault, look, adding>>
ghosts == <<offers, crossed, alone, confirmed>>
vars == <<server, owner, guest, ghosts, faults>>

(***************************************************************************)
(* The remembered keys.                                                    *)
(***************************************************************************)
checkKey(remembered, key) ==
    CASE remembered = NoKey -> "new"
      [] remembered = key -> "same"
      [] OTHER -> "changed"

rememberKey(keys, g, key) ==
    IF keys[g] # NoKey THEN keys ELSE [keys EXCEPT ![g] = key]

markCompared(keys, g, key) == [keys EXCEPT ![g] = key]

(***************************************************************************)
(* The server.  A life is enrolled once it has a public key.               *)
(***************************************************************************)
Stranger(l) ==
    [life |-> l, enrolled |-> FALSE, seat |-> FALSE, member |-> FALSE, wrapped |-> FALSE]

Awaiting == {g \in Guests : account[g].member /\ ~account[g].wrapped}

\* What the server tells of a member's public key.
PublicKey(g) == IF account[g].enrolled THEN account[g].life ELSE NoKey

\* POST /folders/:id/keys: a stranger is refused, a repeated wrap is a 409.
Accepts(g, key) == account[g].member /\ account[g].life = key

Wrapped(g, key) ==
    IF Accepts(g, key) THEN [account EXCEPT ![g].wrapped = TRUE] ELSE account

\* A request goes out for the account the vault is signed in to at the time,
\* and the server answers it for as long as that account lives.
Idle == [at |-> "idle", life |-> SignedOut]
Served(g, request) == request.life = account[g].life

Init ==
    /\ account = [g \in Guests |-> [Stranger(1) EXCEPT !.seat = g \in Seated]]
    /\ invited = [g \in Guests |-> {}]
    /\ known = [g \in Guests |-> NoKey]
    /\ keysHere = TRUE
    /\ pass = [at |-> "idle"]
    /\ dialog = [at |-> "idle"]
    /\ vault = [g \in Guests |-> [life |-> SignedOut, held |-> NoKey, device |-> {},
                                  keys |-> FALSE, mapped |-> FALSE, seen |-> "null"]]
    /\ look = [g \in Guests |-> Idle]
    /\ adding = [g \in Guests |-> Idle]
    /\ offers = [g \in Guests |-> 0]
    /\ crossed = {}
    /\ alone = {}
    /\ confirmed = {}
    /\ faults = 0

Fault == faults < MaxFaults /\ faults' = faults + 1

(***************************************************************************)
(* The owner's passes over who waits for a key.                            *)
(***************************************************************************)
runCollaborationChecks ==
    /\ keysHere /\ pass.at = "idle"
    /\ pass' = [at |-> "asked", known |-> known]
    /\ UNCHANGED <<server, known, keysHere, dialog, guest, ghosts, faults>>

Listed ==
    /\ pass.at = "asked"
    /\ pass' = [at |-> "member", known |-> pass.known,
                left |-> {<<g, PublicKey(g)>> : g \in Awaiting}]
    /\ UNCHANGED <<server, known, keysHere, dialog, guest, ghosts, faults>>

NotListed ==
    /\ pass.at = "asked"
    /\ Fault
    /\ pass' = [at |-> "member", known |-> pass.known, left |-> {}]
    /\ UNCHANGED <<server, known, keysHere, dialog, guest, ghosts>>

\* Slip: a pass wraps whatever the vault remembers.
GrantsUnchecked(remembered, key) == key # NoKey /\ keysHere

\* May this vault wrap for the member: the rule of a pass.
MayGrant(remembered, key) ==
    /\ key # NoKey
    /\ keysHere
    /\ checkKey(remembered, key) # "changed"

NextMember ==
    /\ pass.at = "member"
    /\ \E m \in pass.left :
         pass' = [at |-> IF MayGrant(pass.known[m[1]], m[2]) THEN "posting" ELSE "member",
                  known |-> pass.known, left |-> pass.left \ {m}, to |-> m]
    /\ UNCHANGED <<server, known, keysHere, dialog, guest, ghosts, faults>>

\* The wraps reach the server; `learned` when its answer reaches the vault.
Grant(answered) ==
    LET g == pass.to[1]
        key == pass.to[2]
        accepted == answered /\ Accepts(g, key)
    IN  /\ account' = Wrapped(g, key)
        /\ pass' = [at |-> "member", left |-> pass.left,
                    known |-> IF accepted THEN rememberKey(pass.known, g, key) ELSE pass.known]

Granted ==
    /\ pass.at = "posting"
    /\ Grant(TRUE)
    /\ UNCHANGED <<invited, known, keysHere, dialog, guest, ghosts, faults>>

GrantUnheard ==
    /\ pass.at = "posting"
    /\ Fault
    /\ Grant(FALSE)
    /\ UNCHANGED <<invited, known, keysHere, dialog, guest, ghosts>>

\* `learned` compares what the pass holds with what the vault holds by now.
PassEnds ==
    /\ pass.at = "member" /\ pass.left = {}
    /\ known' = pass.known
    /\ pass' = [at |-> "idle"]
    /\ UNCHANGED <<server, keysHere, dialog, guest, ghosts, faults>>

(***************************************************************************)
(* The owner adds or invites somebody.                                     *)
(***************************************************************************)
InviteOpened(g) ==
    /\ dialog.at = "idle" /\ keysHere
    /\ dialog' = [at |-> "routing", who |-> g]
    /\ UNCHANGED <<server, known, keysHere, pass, guest, ghosts, faults>>

\* Slip: somebody new is invited to the organisation only.
RoutedPastFolder(g) ==
    CASE account[g].member -> "idle"
      [] account[g].seat -> "adding"
      [] OTHER -> "sending"

routeInvite(g) ==
    CASE account[g].member -> "idle"
      [] account[g].seat -> "adding"
      [] OTHER -> "inviting"

Routed ==
    /\ dialog.at = "routing"
    /\ dialog' = [dialog EXCEPT !.at = routeInvite(dialog.who)]
    /\ UNCHANGED <<server, known, keysHere, pass, guest, ghosts, faults>>

\* Also the way the people dialog changes a role, whoever the member is.
RoleChanged(g) ==
    /\ dialog.at = "idle" /\ keysHere /\ account[g].member
    /\ dialog' = [at |-> "adding", who |-> g]
    /\ UNCHANGED <<server, known, keysHere, pass, guest, ghosts, faults>>

addExistingMember ==
    /\ dialog.at = "adding"
    /\ IF account[dialog.who].seat
       THEN /\ account' = [account EXCEPT ![dialog.who].member = TRUE]
            /\ dialog' = [dialog EXCEPT !.at = "reading"]
       ELSE dialog' = [at |-> "idle"] /\ UNCHANGED account
    /\ UNCHANGED <<invited, known, keysHere, pass, guest, ghosts, faults>>

shareKeyWith ==
    /\ dialog.at = "reading"
    /\ LET g == dialog.who
           key == PublicKey(g)
       IN  dialog' = IF keysHere /\ account[g].member /\ key # NoKey
                        /\ checkKey(known[g], key) # "changed"
                     THEN [at |-> "posting", who |-> g, key |-> key, status |-> checkKey(known[g], key)]
                     ELSE [at |-> "idle"]
    /\ UNCHANGED <<server, known, keysHere, pass, guest, ghosts, faults>>

Shared ==
    /\ dialog.at = "posting"
    /\ LET g == dialog.who
       IN  /\ account' = Wrapped(g, dialog.key)
           /\ known' = IF Accepts(g, dialog.key) /\ dialog.status = "new"
                       THEN rememberKey(known, g, dialog.key) ELSE known
    /\ dialog' = [at |-> "idle"]
    /\ UNCHANGED <<invited, keysHere, pass, guest, ghosts, faults>>

\* The folder's invitation first: the server answers ALREADY_IN_ORGANISATION
\* for a seat taken since the roster was read.
InvitedToFolder ==
    /\ dialog.at = "inviting"
    /\ IF account[dialog.who].seat
       THEN dialog' = [dialog EXCEPT !.at = "adding"] /\ UNCHANGED <<invited, alone>>
       ELSE /\ invited' = [invited EXCEPT ![dialog.who] = @ \cup {"folder"}]
            /\ dialog' = [dialog EXCEPT !.at = "sending"]
            /\ alone' = alone \ {dialog.who}
    /\ UNCHANGED <<account, known, keysHere, pass, guest, offers, crossed, confirmed, faults>>

\* The identity service sends none to somebody who has the seat.
InvitedToOrganisation ==
    /\ dialog.at = "sending" /\ ~account[dialog.who].seat
    /\ invited' = [invited EXCEPT ![dialog.who] = @ \cup {"organisation"}]
    /\ dialog' = [at |-> "idle"]
    /\ UNCHANGED <<account, known, keysHere, pass, guest, ghosts, faults>>

NotSent ==
    /\ dialog.at = "sending"
    /\ IF account[dialog.who].seat THEN UNCHANGED faults ELSE Fault
    /\ dialog' = [dialog EXCEPT !.at = "withdrawing"]
    /\ UNCHANGED <<server, known, keysHere, pass, guest, ghosts>>

Withdrawn ==
    /\ dialog.at = "withdrawing"
    /\ invited' = [invited EXCEPT ![dialog.who] = @ \ {"folder"}]
    /\ alone' = alone \cup (IF "organisation" \in invited[dialog.who] THEN {dialog.who} ELSE {})
    /\ dialog' = [at |-> "idle"]
    /\ UNCHANGED <<account, known, keysHere, pass, guest, offers, crossed, confirmed, faults>>

Revoke(g) ==
    /\ keysHere /\ "folder" \in invited[g] /\ dialog.at = "idle"
    /\ invited' = [invited EXCEPT ![g] = @ \ {"folder"}]
    /\ alone' = alone \cup {g}
    /\ UNCHANGED <<account, owner, guest, offers, crossed, confirmed, faults>>

RemoveMember(g) ==
    /\ keysHere /\ account[g].member /\ dialog.at = "idle" /\ Fault
    /\ account' = [account EXCEPT ![g].member = FALSE, ![g].wrapped = FALSE]
    /\ UNCHANGED <<invited, owner, guest, ghosts>>

\* In the people dialog, beside the key the server gives for the member.
MarkedCompared(g) ==
    /\ keysHere /\ account[g].member /\ PublicKey(g) # NoKey
    /\ known' = markCompared(known, g, PublicKey(g))
    /\ confirmed' = confirmed \cup {<<g, PublicKey(g)>>}
    /\ UNCHANGED <<server, keysHere, pass, dialog, guest, offers, crossed, alone, faults>>

OwnerSignsOut ==
    /\ keysHere /\ Fault
    /\ keysHere' = FALSE
    /\ UNCHANGED <<server, known, pass, dialog, guest, ghosts>>

OwnerUnlocks ==
    /\ ~keysHere
    /\ keysHere' = TRUE
    /\ UNCHANGED <<server, known, pass, dialog, guest, ghosts, faults>>

(***************************************************************************)
(* A guest's account.                                                      *)
(***************************************************************************)
SignIn(g) ==
    /\ vault[g].life = SignedOut
    /\ vault' = [vault EXCEPT ![g].life = account[g].life,
                              ![g].seen = IF @ = "null" THEN "none" ELSE @]
    /\ offers' = [offers EXCEPT ![g] = 0]
    /\ UNCHANGED <<server, owner, look, adding, crossed, alone, confirmed, faults>>

\* The keypair in hand for the session, and kept for the device.
KeptOnDevice(v) == [v EXCEPT !.held = v.life, !.device = @ \cup {v.life}]

\* Setting a passphrase: the keypair of the account, offered only where the
\* account has none.
Enrol(g) ==
    /\ vault[g].life = account[g].life /\ ~account[g].enrolled
    /\ account' = [account EXCEPT ![g].enrolled = TRUE]
    /\ vault' = [vault EXCEPT ![g] = KeptOnDevice(@)]
    /\ UNCHANGED <<invited, owner, look, adding, ghosts, faults>>

\* A seat is taken, and with it the folder the address was invited to.
acceptInvite(g) ==
    /\ vault[g].life = account[g].life /\ account[g].enrolled
    /\ "organisation" \in invited[g]
    /\ account' = [account EXCEPT ![g].seat = TRUE, ![g].member = @ \/ "folder" \in invited[g]]
    /\ invited' = [invited EXCEPT ![g] = {}]
    /\ alone' = alone \ {g}
    /\ UNCHANGED <<owner, guest, offers, crossed, confirmed, faults>>

StartOver(g) ==
    /\ account[g].enrolled /\ account[g].life < MaxLives
    /\ pass.at = "idle" /\ dialog.at = "idle" /\ look[g] = Idle /\ adding[g] = Idle
    /\ account' = [account EXCEPT ![g] = Stranger(@.life + 1)]
    /\ invited' = [invited EXCEPT ![g] = {}]
    /\ alone' = alone \ {g}
    /\ UNCHANGED <<owner, guest, offers, crossed, confirmed, faults>>

\* What every sign-out takes; one the person asked for takes the mapping too.
Forgotten(v, forced) ==
    [v EXCEPT !.life = SignedOut, !.held = NoKey, !.device = @ \ {v.life}, !.keys = FALSE,
              !.mapped = @ /\ forced, !.seen = "null"]

SignOut(g) ==
    /\ vault[g].life # SignedOut
    /\ vault' = [vault EXCEPT ![g] = Forgotten(@, vault[g].life # account[g].life)]
    /\ IF vault[g].life # account[g].life THEN UNCHANGED faults ELSE Fault
    /\ crossed' = IF look[g] # Idle \/ adding[g] # Idle THEN crossed \cup {g} ELSE crossed
    /\ UNCHANGED <<server, owner, look, adding, offers, alone, confirmed>>

\* The app is closed and opened: the folder's keys are kept, the key in hand
\* is not (restoreFolderKeys).
Restart(g) ==
    /\ <<look[g], adding[g], vault[g].held>> # <<Idle, Idle, NoKey>>
    /\ vault' = [vault EXCEPT ![g].held = NoKey]
    /\ look' = [look EXCEPT ![g] = Idle]
    /\ adding' = [adding EXCEPT ![g] = Idle]
    /\ Fault
    /\ UNCHANGED <<server, owner, ghosts>>

(***************************************************************************)
(* A guest's vault looks for folders shared with it and offers them.       *)
(***************************************************************************)
Look(g) ==
    /\ vault[g].life # SignedOut /\ look[g] = Idle
    /\ look' = [look EXCEPT ![g] = [at |-> IF vault[g].mapped THEN "mapped" ELSE "unmapped",
                                    life |-> vault[g].life]]
    /\ UNCHANGED <<server, owner, vault, adding, ghosts, faults>>

\* The listing and, for a folder in it that is not here, its keys.
Found(g) ==
    IF ~account[g].member \/ look[g].at = "mapped" THEN "nothing"
    ELSE IF account[g].wrapped THEN "ready" ELSE "waiting"

\* Slip: a folder that waits for its key counts as offered.
SeenWaiting(seen, found) ==
    CASE found # "nothing" -> "listed"
      [] seen = "null" -> "none"
      [] OTHER -> seen

\* Slip: what was offered is recorded only at a first look.
SeenUnrecorded(seen, found) ==
    CASE seen = "null" /\ found # "nothing" -> "listed"
      [] seen = "null" -> "none"
      [] OTHER -> seen

\* What the vault has a record of having seen, after a complete look.
SeenAfter(seen, found) ==
    CASE seen = "null" /\ found # "nothing" -> "listed"
      [] seen = "null" -> "none"
      [] seen = "none" /\ found = "ready" -> "listed"
      [] OTHER -> seen

LookAnswered(g) ==
    /\ look[g] # Idle /\ Served(g, look[g])
    /\ vault' = [vault EXCEPT ![g].seen = SeenAfter(@, Found(g))]
    /\ offers' = IF vault[g].seen = "none" /\ Found(g) = "ready"
                 THEN [offers EXCEPT ![g] = @ + 1] ELSE offers
    /\ look' = [look EXCEPT ![g] = Idle]
    /\ UNCHANGED <<server, owner, adding, crossed, alone, confirmed, faults>>

LookRefused(g) ==
    /\ look[g] # Idle
    /\ IF Served(g, look[g]) THEN Fault ELSE UNCHANGED faults
    /\ look' = [look EXCEPT ![g] = Idle]
    /\ UNCHANGED <<server, owner, vault, adding, ghosts>>

(***************************************************************************)
(* A guest adds the folder: the identity, then the keys, then the mapping. *)
(***************************************************************************)
Await(g, at) == adding' = [adding EXCEPT ![g] = [at |-> at, life |-> vault[g].life]]
GivesUp(g) == adding' = [adding EXCEPT ![g] = Idle]

AddAsked(g) ==
    /\ vault[g].life # SignedOut /\ ~vault[g].mapped /\ adding[g] = Idle
    /\ account[g].member
    /\ Await(g, IF vault[g].keys THEN "opened"
                ELSE IF vault[g].held # NoKey THEN "fetching" ELSE "unlocking")
    /\ UNCHANGED <<server, owner, vault, look, ghosts, faults>>

\* The device's store has the key of the account, where one was kept.
OnDevice(v) == v.life \in v.device

Restored(g) ==
    /\ adding[g].at = "unlocking" /\ vault[g].life = adding[g].life
    /\ OnDevice(vault[g])
    /\ vault' = [vault EXCEPT ![g].held = vault[g].life]
    /\ Await(g, "fetching")
    /\ UNCHANGED <<server, owner, look, ghosts, faults>>

Unlocked(g) ==
    /\ adding[g].at = "unlocking" /\ vault[g].life = adding[g].life
    /\ ~OnDevice(vault[g])
    /\ vault' = [vault EXCEPT ![g] = KeptOnDevice(@)]
    /\ Await(g, "fetching")
    /\ UNCHANGED <<server, owner, look, ghosts, faults>>

NotUnlocked(g) ==
    /\ adding[g].at = "unlocking"
    /\ adding[g].life \notin vault[g].device
    /\ GivesUp(g)
    /\ UNCHANGED <<server, owner, vault, look, ghosts, faults>>

\* Slip: the folder is added whether or not its keys opened.
KeysIgnored(g) ==
    /\ adding[g].at = "fetching"
    /\ vault' = [vault EXCEPT ![g].keys = Served(g, adding[g]) /\ account[g].wrapped]
    /\ adding' = [adding EXCEPT ![g].at = "opened"]
    /\ UNCHANGED <<server, owner, look, ghosts, faults>>

\* Only what was wrapped to the key in hand opens.
unwrapFolderKeys(g) == account[g].wrapped /\ adding[g].life = account[g].life

KeysFetched(g) ==
    /\ adding[g].at = "fetching"
    /\ IF Served(g, adding[g]) /\ unwrapFolderKeys(g)
       THEN /\ vault' = [vault EXCEPT ![g].keys = TRUE]
            /\ adding' = [adding EXCEPT ![g].at = "opened"]
       ELSE GivesUp(g) /\ UNCHANGED vault
    /\ UNCHANGED <<server, owner, look, ghosts, faults>>

\* The name is opened, an await, and the mapping is stored.
Mapped(g) ==
    /\ adding[g].at = "opened"
    /\ vault' = [vault EXCEPT ![g].mapped = TRUE]
    /\ GivesUp(g)
    /\ UNCHANGED <<server, owner, look, ghosts, faults>>

\* The pane opens what this vault has no key for, without asking anything.
openEnvelopes(g) ==
    /\ vault[g].held # NoKey /\ ~vault[g].keys
    /\ Served(g, vault[g]) /\ account[g].wrapped
    /\ vault' = [vault EXCEPT ![g].keys = TRUE]
    /\ UNCHANGED <<server, owner, look, adding, ghosts, faults>>

Next ==
    \/ runCollaborationChecks \/ Listed \/ NotListed \/ NextMember \/ Granted
    \/ GrantUnheard \/ PassEnds
    \/ Routed \/ addExistingMember \/ shareKeyWith \/ Shared
    \/ InvitedToFolder \/ InvitedToOrganisation \/ NotSent \/ Withdrawn
    \/ OwnerSignsOut \/ OwnerUnlocks
    \/ \E g \in Guests :
         \/ InviteOpened(g) \/ RoleChanged(g) \/ Revoke(g) \/ RemoveMember(g)
         \/ MarkedCompared(g)
         \/ SignIn(g) \/ Enrol(g) \/ acceptInvite(g) \/ StartOver(g) \/ SignOut(g) \/ Restart(g)
         \/ Look(g) \/ LookAnswered(g) \/ LookRefused(g)
         \/ AddAsked(g) \/ Restored(g) \/ Unlocked(g) \/ NotUnlocked(g) \/ KeysFetched(g) \/ Mapped(g)
         \/ openEnvelopes(g)

\* The timer of the collaboration checks is set again whenever a vault is
\* signed in, and a request is answered or fails.
Fairness ==
    /\ WF_vars(runCollaborationChecks) /\ WF_vars(Listed) /\ WF_vars(NextMember)
    /\ WF_vars(Granted) /\ WF_vars(PassEnds)
    /\ \A g \in Guests : WF_vars(Look(g)) /\ WF_vars(LookAnswered(g))

Spec == Init /\ [][Next]_vars /\ Fairness

(***************************************************************************)
(* Properties.                                                             *)
(***************************************************************************)
TypeOK ==
    /\ account \in [Guests -> [life : Lives, enrolled : BOOLEAN, seat : BOOLEAN,
                               member : BOOLEAN, wrapped : BOOLEAN]]
    /\ invited \in [Guests -> SUBSET {"folder", "organisation"}]
    /\ known \in [Guests -> {NoKey} \cup Lives]
    /\ keysHere \in BOOLEAN
    /\ pass.at \in {"idle", "asked", "member", "posting"}
    /\ dialog.at \in {"idle", "routing", "adding", "reading", "posting", "inviting",
                      "sending", "withdrawing"}
    /\ vault \in [Guests -> [life : {SignedOut} \cup Lives, held : {NoKey} \cup Lives,
                             device : SUBSET Lives, keys : BOOLEAN, mapped : BOOLEAN,
                             seen : {"null", "none", "listed"}]]
    /\ look \in [Guests -> [at : {"idle", "mapped", "unmapped"}, life : {SignedOut} \cup Lives]]
    /\ adding \in [Guests -> [at : {"idle", "unlocking", "fetching", "opened"},
                              life : {SignedOut} \cup Lives]]
    /\ faults \in 0..MaxFaults

\* While this vault remembers a key for a person, the folder's key goes to no
\* other key of theirs that its owner has not compared, whichever of the pass
\* and the dialogs sends it (known-keys.ts, docs/security-model.md).
KeyGoesToTheKnown ==
    [][\A g \in Guests :
          account'[g].wrapped /\ ~account[g].wrapped =>
              \/ known[g] \in {NoKey, account[g].life}
              \/ <<g, account[g].life>> \in confirmed]_vars

\* Someone invited to the folder who has not joined yet still has the
\* invitation that makes them a member when they do, unless it was taken back
\* (folder-invite.ts: the folder's invitation cannot be sent later).
JoiningBringsTheFolder ==
    \A g \in Guests : "organisation" \in invited[g] /\ g \notin alone => "folder" \in invited[g]

\* A folder in the vault of somebody who is signed in can be opened, unless
\* they signed out while their vault waited for an answer, or the session
\* ended by itself and left the mapping (main.ts, doMapFolder: a mapping
\* without keys is worse than none).
MappedOpens ==
    \A g \in Guests :
        vault[g].mapped /\ vault[g].life = 1 /\ g \notin crossed => vault[g].keys

\* A folder is offered once for a sign-in.
OfferedOnce == \A g \in Guests : g \notin crossed => offers[g] <= 1

\* A member with a key of their own, whom nothing holds up any more, gets the
\* folder's key and is offered the folder without anybody pressing a button.
Waits(g) ==
    /\ account[g].member /\ account[g].enrolled
    /\ keysHere /\ known[g] \in {NoKey, account[g].life}
    /\ vault[g].life = account[g].life /\ g \notin crossed

EverybodyArrives ==
    \A g \in Guests :
        <>[]Waits(g) => <>(account[g].wrapped /\ (offers[g] > 0 \/ vault[g].mapped))

\* The key remembered for a person is replaced only by comparing another one
\* (known-keys.ts: a first sighting is never overwritten).
RememberedStands ==
    [][\A g \in Guests :
          known[g] # NoKey /\ known'[g] # known[g] => known'[g] = PublicKey(g)]_vars
=============================================================================
