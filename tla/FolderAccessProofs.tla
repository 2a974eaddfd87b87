------------------------- MODULE FolderAccessProofs -------------------------
(***************************************************************************)
(* That a folder's key goes to nobody but the remembered or compared key,  *)
(* that a folder in a vault can be opened, and that an invitation to join  *)
(* keeps the folder with it: for any guests, lives and faults.             *)
(*                                                                         *)
(* The keys a pass goes by are those remembered when it began, and what    *)
(* the dialogs remember meanwhile is not in them.  What makes a pass right *)
(* all the same is that an account does not start over while one runs: by  *)
(* whichever record the two differ, one of them names the account's key.   *)
(***************************************************************************)
EXTENDS FolderAccess, TLAPS

(***************************************************************************)
(* Types, as far as the proofs need them.                                  *)
(***************************************************************************)
Account == [life : Nat \ {0}, enrolled : BOOLEAN, seat : BOOLEAN, member : BOOLEAN,
            wrapped : BOOLEAN]
Vault == [life : Nat, held : Nat, device : SUBSET Nat, keys : BOOLEAN, mapped : BOOLEAN,
          seen : {"null", "none", "listed"}]
Request == [at : {"idle", "mapped", "unmapped", "unlocking", "fetching", "opened"}, life : Nat]
Keys == [Guests -> Nat]
Members == SUBSET (Guests \X Nat)

Asking == [at : {"asked"}, known : Keys]
Choosing == [at : {"member"}, known : Keys, left : Members]
Granting == [at : {"member", "posting"}, known : Keys, left : Members, to : Guests \X Nat]

Talking == [at : {"routing", "adding", "reading", "inviting", "sending", "withdrawing", "idle"},
            who : Guests]
Sharing == [at : {"posting"}, who : Guests, key : Nat, status : {"new", "same", "changed"}]

AccessType ==
    /\ account \in [Guests -> Account]
    /\ invited \in [Guests -> SUBSET {"folder", "organisation"}]
    /\ known \in Keys
    /\ pass = [at |-> "idle"] \/ pass \in Asking \cup Choosing \cup Granting
    /\ dialog = [at |-> "idle"] \/ dialog \in Talking \cup Sharing
    /\ vault \in [Guests -> Vault]
    /\ look \in [Guests -> Request]
    /\ adding \in [Guests -> Request]

LEMMA PassIs ==
    ASSUME AccessType
    PROVE  /\ pass.at = "asked" => pass \in Asking
           /\ pass.at = "member" => pass \in Choosing \cup Granting
           /\ pass.at = "posting" => pass \in Granting
           /\ pass.at # "idle" => pass.known \in Keys
           /\ pass.at \in {"idle", "asked", "member", "posting"}
  BY DEF AccessType, Asking, Choosing, Granting

LEMMA DialogIs ==
    ASSUME AccessType
    PROVE  /\ dialog.at \notin {"idle", "posting"} => dialog \in Talking
           /\ dialog.at = "posting" => dialog \in Sharing
  BY DEF AccessType, Talking, Sharing

LEMMA InitAccess == Init => AccessType
<1> SUFFICES ASSUME Init PROVE AccessType
  OBVIOUS
<1>1. account \in [Guests -> Account]
  <2>1. ASSUME NEW b \in BOOLEAN PROVE [Stranger(1) EXCEPT !.seat = b] \in Account
    <3>1. Stranger(1) \in Account
      BY DEF Account, Stranger
    <3> QED BY <3>1 DEF Account
  <2>2. \A g \in Guests : (g \in Seated) \in BOOLEAN
    OBVIOUS
  <2> QED BY <2>1, <2>2 DEF Init
<1>2. vault \in [Guests -> Vault]
  BY DEF Init, Vault, SignedOut, NoKey
<1>3. look \in [Guests -> Request] /\ adding \in [Guests -> Request]
  BY DEF Init, Request, Idle, SignedOut
<1> QED BY <1>1, <1>2, <1>3 DEF Init, AccessType, Keys, NoKey

(***************************************************************************)
(* The helpers.                                                            *)
(***************************************************************************)
LEMMA KeyTypes ==
    ASSUME AccessType, NEW g \in Guests
    PROVE  /\ PublicKey(g) \in Nat
           /\ PublicKey(g) # NoKey => PublicKey(g) = account[g].life
           /\ account[g] \in Account /\ account[g].life \in Nat \ {0}
  BY DEF AccessType, Account, PublicKey, NoKey

LEMMA WrappedKeeps ==
    ASSUME AccessType, NEW g \in Guests, NEW key
    PROVE  /\ Wrapped(g, key) \in [Guests -> Account]
           /\ \A h \in Guests : /\ Wrapped(g, key)[h].life = account[h].life
                                /\ Wrapped(g, key)[h].seat = account[h].seat
                                /\ Wrapped(g, key)[h].wrapped /\ ~account[h].wrapped
                                      => h = g /\ Accepts(g, key)
<1>1. account[g] \in Account /\ account \in [Guests -> Account]
  BY DEF AccessType
<1>2. CASE Accepts(g, key)
  <2>1. Wrapped(g, key) = [account EXCEPT ![g] = [account[g] EXCEPT !.wrapped = TRUE]]
    BY <1>2 DEF Wrapped
  <2>2. /\ [account[g] EXCEPT !.wrapped = TRUE] \in Account
        /\ [account[g] EXCEPT !.wrapped = TRUE].life = account[g].life
        /\ [account[g] EXCEPT !.wrapped = TRUE].seat = account[g].seat
    BY <1>1 DEF Account
  <2> QED BY <1>1, <1>2, <2>1, <2>2
<1>3. CASE ~Accepts(g, key)
  BY <1>1, <1>3 DEF Wrapped
<1> QED BY <1>2, <1>3

LEMMA RememberTypes ==
    ASSUME NEW keys \in Keys, NEW g \in Guests, NEW key \in Nat
    PROVE  /\ rememberKey(keys, g, key) \in Keys
           /\ markCompared(keys, g, key) \in Keys
           /\ \A h \in Guests : \/ rememberKey(keys, g, key)[h] = keys[h]
                                \/ h = g /\ keys[h] = NoKey /\ rememberKey(keys, g, key)[h] = key
           /\ \A h \in Guests : markCompared(keys, g, key)[h] = IF h = g THEN key ELSE keys[h]
  BY DEF Keys, rememberKey, markCompared

(***************************************************************************)
(* Every action keeps the types.                                           *)
(***************************************************************************)
PassStep ==
    \/ runCollaborationChecks \/ Listed \/ NotListed \/ NextMember \/ Granted
    \/ GrantUnheard \/ PassEnds

DialogStep ==
    \/ Routed \/ addExistingMember \/ shareKeyWith \/ Shared
    \/ InvitedToFolder \/ InvitedToOrganisation \/ NotSent \/ Withdrawn
    \/ OwnerSignsOut \/ OwnerUnlocks

OwnerStep(g) ==
    \/ InviteOpened(g) \/ RoleChanged(g) \/ Revoke(g) \/ RemoveMember(g) \/ MarkedCompared(g)

AccountStep(g) ==
    \/ SignIn(g) \/ Enrol(g) \/ acceptInvite(g) \/ StartOver(g) \/ SignOut(g) \/ Restart(g)

VaultStep(g) ==
    \/ Look(g) \/ LookAnswered(g) \/ LookRefused(g)
    \/ AddAsked(g) \/ Restored(g) \/ Unlocked(g) \/ NotUnlocked(g) \/ KeysFetched(g)
    \/ Mapped(g) \/ openEnvelopes(g)

LEMMA NextSteps ==
    Next => PassStep \/ DialogStep
            \/ \E g \in Guests : OwnerStep(g) \/ AccountStep(g) \/ VaultStep(g)
  BY DEF Next, PassStep, DialogStep, OwnerStep, AccountStep, VaultStep

\* The wraps of a pass, whether or not its answer is heard.
LEMMA GrantSays ==
    ASSUME AccessType, pass.at = "posting", NEW answered \in BOOLEAN, Grant(answered)
    PROVE  \E g \in Guests : \E key \in Nat :
               /\ pass.to = <<g, key>> /\ account' = Wrapped(g, key)
               /\ pass' \in Choosing
               /\ \/ pass'.known = pass.known
                  \/ pass'.known = rememberKey(pass.known, g, key) /\ Accepts(g, key)
<1>1. pass \in Granting
  BY PassIs
<1>2. PICK g \in Guests, key \in Nat : pass.to = <<g, key>>
  BY <1>1 DEF Granting
<1>3. /\ account' = Wrapped(g, key)
      /\ pass' = [at |-> "member", left |-> pass.left,
                  known |-> IF answered /\ Accepts(g, key)
                            THEN rememberKey(pass.known, g, key) ELSE pass.known]
  BY <1>2 DEF Grant
<1>4. pass.known \in Keys /\ pass.left \in Members /\ rememberKey(pass.known, g, key) \in Keys
  BY <1>1, RememberTypes DEF Granting
<1> QED BY <1>2, <1>3, <1>4 DEF Choosing

LEMMA PassTypes == ASSUME AccessType, PassStep PROVE AccessType'
<1>1. CASE runCollaborationChecks
  BY <1>1 DEF runCollaborationChecks, AccessType, server, guest, Asking
<1>2. CASE Listed
  <2>1. pass \in Asking
    BY <1>2, PassIs DEF Listed
  <2>2. {<<g, PublicKey(g)>> : g \in Awaiting} \in Members
    BY KeyTypes DEF Members, Awaiting
  <2> QED BY <1>2, <2>1, <2>2 DEF Listed, AccessType, server, guest, Asking, Choosing
<1>3. CASE NotListed
  <2>1. pass \in Asking
    BY <1>3, PassIs DEF NotListed
  <2> QED BY <1>3, <2>1 DEF NotListed, AccessType, server, guest, Asking, Choosing, Members
<1>4. CASE NextMember
  <2>1. pass.known \in Keys /\ pass.left \in Members
    BY <1>4, PassIs DEF NextMember, Choosing, Granting
  <2>2. PICK m \in pass.left :
            pass' = [at |-> IF MayGrant(pass.known[m[1]], m[2]) THEN "posting" ELSE "member",
                     known |-> pass.known, left |-> pass.left \ {m}, to |-> m]
    BY <1>4 DEF NextMember
  <2>3. pass' \in Granting
    BY <2>1, <2>2 DEF Granting, Members
  <2> QED BY <1>4, <2>3 DEF NextMember, AccessType, server, guest
<1>5. CASE Granted \/ GrantUnheard
  <2>1. account' \in [Guests -> Account] /\ pass' \in Choosing
    <3>1. pass.at = "posting" /\ \E answered \in BOOLEAN : Grant(answered)
      BY <1>5 DEF Granted, GrantUnheard
    <3>2. PICK g \in Guests, key \in Nat : account' = Wrapped(g, key) /\ pass' \in Choosing
      BY <3>1, GrantSays
    <3> QED BY <3>2, WrappedKeeps
  <2> QED BY <1>5, <2>1 DEF Granted, GrantUnheard, AccessType, guest
<1>6. CASE PassEnds
  <2>1. pass.known \in Keys
    BY <1>6, PassIs DEF PassEnds
  <2> QED BY <1>6, <2>1 DEF PassEnds, AccessType, server, guest
<1> QED BY <1>1, <1>2, <1>3, <1>4, <1>5, <1>6 DEF PassStep

LEMMA DialogTypes == ASSUME AccessType, DialogStep PROVE AccessType'
<1>1. CASE Routed
  <2>1. dialog \in Talking /\ routeInvite(dialog.who) \in {"idle", "adding", "inviting"}
    BY <1>1, DialogIs DEF Routed, routeInvite
  <2> QED BY <1>1, <2>1 DEF Routed, AccessType, server, guest, Talking
<1>2. CASE addExistingMember
  <2>1. dialog \in Talking /\ dialog.who \in Guests
    BY <1>2, DialogIs DEF addExistingMember, Talking
  <2>2. account' \in [Guests -> Account]
    <3>1. account[dialog.who] \in Account
      BY <2>1 DEF AccessType
    <3>2. [account[dialog.who] EXCEPT !.member = TRUE] \in Account
      BY <3>1 DEF Account
    <3> QED BY <1>2, <2>1, <3>2 DEF addExistingMember, AccessType
  <2> QED BY <1>2, <2>1, <2>2 DEF addExistingMember, AccessType, guest, Talking
<1>3. CASE shareKeyWith
  <2>1. dialog.who \in Guests
    BY <1>3, DialogIs DEF shareKeyWith, Talking
  <2>2. PublicKey(dialog.who) \in Nat
    BY <2>1, KeyTypes
  <2>3. checkKey(known[dialog.who], PublicKey(dialog.who)) \in {"new", "same", "changed"}
    BY DEF checkKey
  <2> QED BY <1>3, <2>1, <2>2, <2>3 DEF shareKeyWith, AccessType, server, guest, Sharing
<1>4. CASE Shared
  <2>1. dialog \in Sharing /\ dialog.who \in Guests /\ dialog.key \in Nat
    BY <1>4, DialogIs DEF Shared, Sharing
  <2>2. account' \in [Guests -> Account]
    BY <1>4, <2>1, WrappedKeeps DEF Shared
  <2>3. known' \in Keys
    BY <1>4, <2>1, RememberTypes DEF Shared, AccessType
  <2> QED BY <1>4, <2>2, <2>3 DEF Shared, AccessType, guest
<1>5. CASE InvitedToFolder
  <2>1. dialog \in Talking
    BY <1>5, DialogIs DEF InvitedToFolder
  <2> QED BY <1>5, <2>1 DEF InvitedToFolder, AccessType, guest, Talking
<1>6. CASE InvitedToOrganisation
  BY <1>6 DEF InvitedToOrganisation, AccessType, guest
<1>7. CASE NotSent
  <2>1. dialog \in Talking
    BY <1>7, DialogIs DEF NotSent
  <2> QED BY <1>7, <2>1 DEF NotSent, AccessType, server, guest, Talking
<1>8. CASE Withdrawn
  BY <1>8 DEF Withdrawn, AccessType, guest
<1>9. CASE OwnerSignsOut \/ OwnerUnlocks
  BY <1>9 DEF OwnerSignsOut, OwnerUnlocks, AccessType, server, guest
<1> QED BY <1>1, <1>2, <1>3, <1>4, <1>5, <1>6, <1>7, <1>8, <1>9 DEF DialogStep

LEMMA OwnerTypes ==
    ASSUME AccessType, NEW g \in Guests, OwnerStep(g) PROVE AccessType'
<1>1. CASE InviteOpened(g)
  BY <1>1 DEF InviteOpened, AccessType, server, guest, Talking
<1>2. CASE RoleChanged(g)
  BY <1>2 DEF RoleChanged, AccessType, server, guest, Talking
<1>3. CASE Revoke(g)
  BY <1>3 DEF Revoke, AccessType, owner, guest
<1>4. CASE RemoveMember(g)
  <2>1. account' \in [Guests -> Account]
    <3>1. account[g] \in Account
      BY DEF AccessType
    <3>2. [account[g] EXCEPT !.member = FALSE, !.wrapped = FALSE] \in Account
      BY <3>1 DEF Account
    <3> QED BY <1>4, <3>2 DEF RemoveMember, AccessType
  <2> QED BY <1>4, <2>1 DEF RemoveMember, AccessType, owner, guest
<1>5. CASE MarkedCompared(g)
  <2>1. known' \in Keys
    BY <1>5, KeyTypes, RememberTypes DEF MarkedCompared, AccessType
  <2> QED BY <1>5, <2>1 DEF MarkedCompared, AccessType, server, guest
<1> QED BY <1>1, <1>2, <1>3, <1>4, <1>5 DEF OwnerStep

LEMMA AccountTypes ==
    ASSUME AccessType, NEW g \in Guests, AccountStep(g) PROVE AccessType'
<1>0. account[g] \in Account /\ vault[g] \in Vault
  BY DEF AccessType
<1>1. CASE SignIn(g)
  <2>1. vault' \in [Guests -> Vault]
    BY <1>0, <1>1 DEF SignIn, AccessType, Account, Vault
  <2> QED BY <1>1, <2>1 DEF SignIn, AccessType, server, owner
<1>2. CASE Enrol(g)
  <2>1. account' \in [Guests -> Account]
    BY <1>2 DEF Enrol, AccessType, Account
  <2>2. KeptOnDevice(vault[g]) \in Vault
    BY <1>0 DEF KeptOnDevice, Vault
  <2> QED BY <1>2, <2>1, <2>2 DEF Enrol, AccessType, owner
<1>3. CASE acceptInvite(g)
  <2>1. account' \in [Guests -> Account]
    <3>1. [account[g] EXCEPT !.seat = TRUE, !.member = @ \/ "folder" \in invited[g]] \in Account
      BY <1>0 DEF Account
    <3> QED BY <1>3, <3>1 DEF acceptInvite, AccessType
  <2> QED BY <1>3, <2>1 DEF acceptInvite, AccessType, owner, guest
<1>4. CASE StartOver(g)
  <2>1. account' \in [Guests -> Account]
    <3>1. Stranger(account[g].life + 1) \in Account
      BY <1>0 DEF Account, Stranger
    <3> QED BY <1>4, <3>1 DEF StartOver, AccessType
  <2> QED BY <1>4, <2>1 DEF StartOver, AccessType, owner, guest
<1>5. CASE SignOut(g)
  <2>1. \A forced \in BOOLEAN : Forgotten(vault[g], forced) \in Vault
    BY <1>0 DEF Forgotten, Vault, SignedOut, NoKey
  <2>2. (vault[g].life # account[g].life) \in BOOLEAN
    OBVIOUS
  <2> QED BY <1>5, <2>1, <2>2 DEF SignOut, AccessType, server, owner
<1>6. CASE Restart(g)
  <2>1. vault' \in [Guests -> Vault]
    BY <1>0, <1>6 DEF Restart, AccessType, Vault, NoKey
  <2>2. Idle \in Request
    BY DEF Idle, Request, SignedOut
  <2> QED BY <1>6, <2>1, <2>2 DEF Restart, AccessType, server, owner
<1> QED BY <1>1, <1>2, <1>3, <1>4, <1>5, <1>6 DEF AccountStep

LEMMA VaultTypes ==
    ASSUME AccessType, NEW g \in Guests, VaultStep(g) PROVE AccessType'
<1>0. /\ account[g] \in Account /\ vault[g] \in Vault /\ Idle \in Request
      /\ look[g] \in Request /\ adding[g] \in Request
  BY DEF AccessType, Idle, Request, SignedOut
<1>1. CASE Look(g)
  BY <1>0, <1>1 DEF Look, AccessType, server, owner, Request, Vault
<1>2. CASE LookAnswered(g)
  <2>1. SeenAfter(vault[g].seen, Found(g)) \in {"null", "none", "listed"}
    BY <1>0 DEF SeenAfter, Vault
  <2>2. vault' \in [Guests -> Vault]
    BY <1>0, <1>2, <2>1 DEF LookAnswered, AccessType, Vault
  <2> QED BY <1>0, <1>2, <2>2 DEF LookAnswered, AccessType, server, owner
<1>3. CASE LookRefused(g)
  BY <1>0, <1>3 DEF LookRefused, AccessType, server, owner
<1>4. ASSUME NEW at \in {"unlocking", "fetching", "opened"}, Await(g, at)
      PROVE  adding' \in [Guests -> Request]
  BY <1>0, <1>4 DEF Await, AccessType, Request, Vault
<1>5. CASE AddAsked(g)
  BY <1>4, <1>5 DEF AddAsked, AccessType, server, owner
<1>6. CASE Restored(g)
  <2>1. vault' \in [Guests -> Vault]
    BY <1>0, <1>6 DEF Restored, AccessType, Vault
  <2> QED BY <1>4, <1>6, <2>1 DEF Restored, AccessType, server, owner
<1>7. CASE Unlocked(g)
  <2>1. KeptOnDevice(vault[g]) \in Vault
    BY <1>0 DEF KeptOnDevice, Vault
  <2> QED BY <1>4, <1>7, <2>1 DEF Unlocked, AccessType, server, owner
<1>8. CASE NotUnlocked(g)
  BY <1>0, <1>8 DEF NotUnlocked, GivesUp, AccessType, server, owner
<1>9. CASE KeysFetched(g)
  <2>1. vault' \in [Guests -> Vault]
    <3>1. [vault[g] EXCEPT !.keys = TRUE] \in Vault
      BY <1>0 DEF Vault
    <3> QED BY <1>9, <3>1 DEF KeysFetched, AccessType
  <2>2. adding' \in [Guests -> Request]
    BY <1>0, <1>9 DEF KeysFetched, GivesUp, AccessType, Request
  <2> QED BY <1>9, <2>1, <2>2 DEF KeysFetched, AccessType, server, owner
<1>10. CASE Mapped(g)
  <2>1. vault' \in [Guests -> Vault]
    BY <1>10 DEF Mapped, AccessType, Vault
  <2> QED BY <1>0, <1>10, <2>1 DEF Mapped, GivesUp, AccessType, server, owner
<1>11. CASE openEnvelopes(g)
  <2>1. vault' \in [Guests -> Vault]
    BY <1>11 DEF openEnvelopes, AccessType, Vault
  <2> QED BY <1>11, <2>1 DEF openEnvelopes, AccessType, server, owner
<1> QED BY <1>1, <1>2, <1>3, <1>5, <1>6, <1>7, <1>8, <1>9, <1>10, <1>11 DEF VaultStep

LEMMA NextAccess == AccessType /\ [Next]_vars => AccessType'
<1> SUFFICES ASSUME AccessType, [Next]_vars PROVE AccessType'
  OBVIOUS
<1>1. CASE UNCHANGED vars
  BY <1>1 DEF vars, server, owner, guest, AccessType
<1>2. CASE Next
  BY <1>2, NextSteps, PassTypes, DialogTypes, OwnerTypes, AccountTypes, VaultTypes
<1> QED BY <1>1, <1>2

(***************************************************************************)
(* What the steps do to the accounts.                                      *)
(***************************************************************************)
\* No account starts over, and none gets a wrap.
AccountKept ==
    \A h \in Guests : /\ account'[h].life = account[h].life
                      /\ account'[h].wrapped => account[h].wrapped

LEMMA OwnerKeeps ==
    ASSUME AccessType, NEW g \in Guests, OwnerStep(g)
    PROVE  /\ AccountKept
           /\ \A h \in Guests : account'[h].seat = account[h].seat
<1>1. CASE RemoveMember(g)
  <2>1. account[g] \in Account /\ account \in [Guests -> Account]
    BY DEF AccessType
  <2>2. account' = [account EXCEPT ![g] = [account[g] EXCEPT !.member = FALSE, !.wrapped = FALSE]]
    BY <1>1 DEF RemoveMember
  <2>3. /\ [account[g] EXCEPT !.member = FALSE, !.wrapped = FALSE].life = account[g].life
        /\ [account[g] EXCEPT !.member = FALSE, !.wrapped = FALSE].seat = account[g].seat
        /\ ~[account[g] EXCEPT !.member = FALSE, !.wrapped = FALSE].wrapped
    BY <2>1 DEF Account
  <2> QED BY <2>1, <2>2, <2>3 DEF AccountKept
<1>2. CASE ~RemoveMember(g)
  BY <1>2 DEF OwnerStep, AccountKept, InviteOpened, RoleChanged, Revoke, MarkedCompared, server
<1> QED BY <1>1, <1>2

LEMMA GuestKeeps ==
    ASSUME AccessType, NEW g \in Guests, AccountStep(g) \/ VaultStep(g)
    PROVE  /\ ~StartOver(g) => AccountKept
           /\ \A h \in Guests : /\ account'[h].wrapped => account[h].wrapped
                                /\ account'[h].life >= account[h].life
                                /\ h # g => account'[h] = account[h]
<1>0. account[g] \in Account /\ account \in [Guests -> Account]
      /\ \A h \in Guests : account[h].life \in Nat
  BY DEF AccessType, Account
<1>1. CASE Enrol(g)
  <2>1. account' = [account EXCEPT ![g] = [account[g] EXCEPT !.enrolled = TRUE]]
    BY <1>1 DEF Enrol
  <2>2. /\ [account[g] EXCEPT !.enrolled = TRUE].life = account[g].life
        /\ [account[g] EXCEPT !.enrolled = TRUE].wrapped = account[g].wrapped
    BY <1>0 DEF Account
  <2> QED BY <1>0, <2>1, <2>2 DEF AccountKept
<1>2. CASE acceptInvite(g)
  <2>1. PICK r : r = [account[g] EXCEPT !.seat = TRUE, !.member = @ \/ "folder" \in invited[g]]
    OBVIOUS
  <2>2. r.life = account[g].life /\ r.wrapped = account[g].wrapped
    BY <1>0, <2>1 DEF Account
  <2>3. account' = [account EXCEPT ![g] = r]
    BY <1>2, <2>1 DEF acceptInvite
  <2> QED BY <1>0, <2>2, <2>3 DEF AccountKept
<1>3. CASE StartOver(g)
  <2>1. account' = [account EXCEPT ![g] = Stranger(account[g].life + 1)]
    BY <1>3 DEF StartOver
  <2>2. ~Stranger(account[g].life + 1).wrapped /\ Stranger(account[g].life + 1).life = account[g].life + 1
    BY DEF Stranger
  <2> QED BY <1>0, <1>3, <2>1, <2>2
<1>4. CASE ~Enrol(g) /\ ~acceptInvite(g) /\ ~StartOver(g)
  <2>1. account' = account
    BY <1>4 DEF AccountStep, VaultStep, SignIn, SignOut, Restart, Look, LookAnswered,
       LookRefused, AddAsked, Restored, Unlocked, NotUnlocked, KeysFetched, Mapped,
       openEnvelopes, server
  <2> QED BY <1>0, <2>1 DEF AccountKept
<1> QED BY <1>1, <1>2, <1>3, <1>4

(***************************************************************************)
(* The keys the owner's vault goes by.                                     *)
(***************************************************************************)
\* The record of a pass, and that of the vault, differ only over the key of the
\* account there is; one the pass alone has of another key has been compared.
PassKnows ==
    pass.at # "idle" =>
        \A g \in Guests :
            /\ known[g] \in {NoKey, account[g].life, pass.known[g]}
            /\ \/ pass.known[g] \in {NoKey, account[g].life, known[g]}
               \/ <<g, account[g].life>> \in confirmed

\* The wraps a pass is sending are for a key its record allows.
PostingFits == pass.at = "posting" => pass.known[pass.to[1]] \in {NoKey, pass.to[2]}

\* A dialog is sending wraps for the account's key, remembered or compared.
SharingFits ==
    dialog.at = "posting" =>
        /\ dialog.key = account[dialog.who].life
        /\ \/ known[dialog.who] \in {NoKey, dialog.key}
           \/ <<dialog.who, dialog.key>> \in confirmed

KeysInv == PassKnows /\ PostingFits /\ SharingFits

LEMMA KeysStand ==
    ASSUME AccessType, KeysInv, \A h \in Guests : account'[h].life = account[h].life,
           pass' = pass, known' = known, confirmed' = confirmed,
           dialog' = dialog \/ dialog'.at # "posting"
    PROVE  KeysInv'
<1>1. PassKnows' /\ PostingFits'
  BY DEF KeysInv, PassKnows, PostingFits
<1>2. SharingFits'
  <2>1. dialog.at = "posting" => dialog.who \in Guests
    BY DialogIs DEF Sharing
  <2> QED BY <2>1 DEF KeysInv, SharingFits
<1> QED BY <1>1, <1>2 DEF KeysInv

LEMMA PassKeys == ASSUME AccessType, KeysInv, PassStep PROVE KeysInv'
<1>1. UNCHANGED <<dialog, confirmed>>
  BY DEF PassStep, runCollaborationChecks, Listed, NotListed, NextMember, Granted, GrantUnheard,
     PassEnds, server, ghosts
<1>2. dialog.at = "posting" => dialog.who \in Guests
  BY DialogIs DEF Sharing
<1>3. CASE runCollaborationChecks
  <2>1. pass' = [at |-> "asked", known |-> known] /\ account' = account /\ known' = known
    BY <1>3 DEF runCollaborationChecks, server
  <2> QED BY <1>1, <1>2, <2>1 DEF KeysInv, PassKnows, PostingFits, SharingFits
<1>4. CASE Listed \/ NotListed
  <2>1. /\ pass.at = "asked" /\ pass'.at = "member" /\ pass'.known = pass.known
        /\ account' = account /\ known' = known
    BY <1>4 DEF Listed, NotListed, server
  <2> QED BY <1>1, <1>2, <2>1 DEF KeysInv, PassKnows, PostingFits, SharingFits
<1>5. CASE NextMember
  <2>1. PICK m \in pass.left :
            pass' = [at |-> IF MayGrant(pass.known[m[1]], m[2]) THEN "posting" ELSE "member",
                     known |-> pass.known, left |-> pass.left \ {m}, to |-> m]
    BY <1>5 DEF NextMember
  <2>2. /\ pass.at = "member" /\ pass'.known = pass.known /\ pass'.to = m
        /\ account' = account /\ known' = known
        /\ pass'.at = "posting" => MayGrant(pass.known[m[1]], m[2])
    BY <1>5, <2>1 DEF NextMember, server
  <2>3. MayGrant(pass.known[m[1]], m[2]) => pass.known[m[1]] \in {NoKey, m[2]}
    BY DEF MayGrant, checkKey
  <2> QED BY <1>1, <1>2, <2>2, <2>3 DEF KeysInv, PassKnows, PostingFits, SharingFits
<1>6. CASE Granted \/ GrantUnheard
  <2>1. /\ pass.at = "posting" /\ \E answered \in BOOLEAN : Grant(answered)
        /\ known' = known
    BY <1>6 DEF Granted, GrantUnheard
  <2>2. PICK g \in Guests, key \in Nat :
            /\ account' = Wrapped(g, key) /\ pass' \in Choosing
            /\ \/ pass'.known = pass.known
               \/ pass'.known = rememberKey(pass.known, g, key) /\ Accepts(g, key)
    BY <2>1, GrantSays
  <2>3. \A h \in Guests : account'[h].life = account[h].life
    BY <2>2, WrappedKeeps
  <2>4. pass.known \in Keys /\ pass'.at = "member"
    BY <2>1, <2>2, PassIs DEF Choosing
  <2>5. \A h \in Guests : \/ pass'.known[h] = pass.known[h]
                          \/ pass.known[h] = NoKey /\ pass'.known[h] = account[h].life
    BY <2>2, <2>4, RememberTypes DEF Accepts
  <2>6. PassKnows'
    BY <1>1, <2>1, <2>3, <2>4, <2>5 DEF KeysInv, PassKnows
  <2> QED BY <1>1, <1>2, <2>1, <2>3, <2>4, <2>6 DEF KeysInv, PostingFits, SharingFits
<1>7. CASE PassEnds
  <2>1. known' = pass.known /\ pass'.at = "idle" /\ pass.at # "idle" /\ account' = account
    BY <1>7 DEF PassEnds, server
  <2>2. SharingFits'
    BY <1>1, <1>2, <2>1 DEF KeysInv, SharingFits, PassKnows
  <2> QED BY <2>1, <2>2 DEF KeysInv, PassKnows, PostingFits
<1> QED BY <1>3, <1>4, <1>5, <1>6, <1>7 DEF PassStep

LEMMA DialogKeys == ASSUME AccessType, KeysInv, DialogStep PROVE KeysInv'
<1>1. CASE shareKeyWith
  <2>1. dialog.who \in Guests
    BY <1>1, DialogIs DEF shareKeyWith, Talking
  <2>2. UNCHANGED <<account, known, pass, confirmed>>
    BY <1>1 DEF shareKeyWith, server, ghosts
  <2>3. ASSUME dialog'.at = "posting"
        PROVE  /\ dialog'.who = dialog.who /\ dialog'.key = account[dialog.who].life
               /\ known[dialog.who] \in {NoKey, dialog'.key}
    <3>1. /\ PublicKey(dialog.who) # NoKey
          /\ checkKey(known[dialog.who], PublicKey(dialog.who)) # "changed"
          /\ dialog'.who = dialog.who /\ dialog'.key = PublicKey(dialog.who)
      BY <1>1, <2>3 DEF shareKeyWith
    <3> QED BY <2>1, <3>1, KeyTypes DEF checkKey
  <2> QED BY <2>1, <2>2, <2>3 DEF KeysInv, PassKnows, PostingFits, SharingFits
<1>2. CASE Shared
  <2>1. /\ dialog.who \in Guests /\ dialog.key \in Nat /\ dialog'.at # "posting"
        /\ pass' = pass /\ confirmed' = confirmed /\ account' = Wrapped(dialog.who, dialog.key)
    BY <1>2, DialogIs DEF Shared, Sharing, ghosts
  <2>2. \A h \in Guests : account'[h].life = account[h].life
    BY <2>1, WrappedKeeps
  <2>3. \A h \in Guests : \/ known'[h] = known[h]
                          \/ known[h] = NoKey /\ known'[h] = account[h].life
    <3>1. \/ known' = known
          \/ known' = rememberKey(known, dialog.who, dialog.key) /\ dialog.key = account[dialog.who].life
      BY <1>2 DEF Shared, Accepts
    <3>2. known \in Keys
      BY DEF AccessType
    <3>3. CASE known' = known
      BY <3>3
    <3>4. CASE known' # known
      <4>1. \A h \in Guests :
                \/ rememberKey(known, dialog.who, dialog.key)[h] = known[h]
                \/ /\ h = dialog.who /\ known[h] = NoKey
                   /\ rememberKey(known, dialog.who, dialog.key)[h] = dialog.key
        BY <2>1, <3>2 DEF Keys, rememberKey
      <4> QED BY <3>1, <3>4, <4>1
    <3> QED BY <3>3, <3>4
  <2>4. PassKnows'
    BY <2>1, <2>2, <2>3 DEF KeysInv, PassKnows
  <2> QED BY <2>1, <2>4 DEF KeysInv, PostingFits, SharingFits
<1>3. CASE addExistingMember
  <2>1. dialog.who \in Guests /\ dialog \in Talking
    BY <1>3, DialogIs DEF addExistingMember, Talking
  <2>2. \A h \in Guests : account'[h].life = account[h].life
    <3>1. account[dialog.who] \in Account /\ account \in [Guests -> Account]
      BY <2>1 DEF AccessType
    <3>2. [account[dialog.who] EXCEPT !.member = TRUE].life = account[dialog.who].life
      BY <3>1 DEF Account
    <3> QED BY <1>3, <2>1, <3>1, <3>2 DEF addExistingMember
  <2>3. dialog'.at # "posting"
    BY <1>3, <2>1 DEF addExistingMember, Talking
  <2> QED BY <1>3, <2>2, <2>3, KeysStand DEF addExistingMember, ghosts
<1>4. CASE OwnerSignsOut \/ OwnerUnlocks \/ InvitedToOrganisation \/ Withdrawn
  <2>1. /\ UNCHANGED <<account, known, pass, confirmed>>
        /\ dialog' = dialog \/ dialog'.at # "posting"
    BY <1>4 DEF OwnerSignsOut, OwnerUnlocks, InvitedToOrganisation, Withdrawn, server, ghosts
  <2> QED BY <2>1, KeysStand
<1>5. CASE Routed \/ InvitedToFolder \/ NotSent
  <2>1. UNCHANGED <<account, known, pass, confirmed>> /\ dialog \in Talking
    BY <1>5, DialogIs DEF Routed, InvitedToFolder, NotSent, server, ghosts
  <2>2. routeInvite(dialog.who) # "posting"
    BY DEF routeInvite
  <2>3. dialog'.at # "posting"
    BY <1>5, <2>1, <2>2 DEF Routed, InvitedToFolder, NotSent, Talking
  <2> QED BY <2>1, <2>3, KeysStand
<1> QED BY <1>1, <1>2, <1>3, <1>4, <1>5 DEF DialogStep

LEMMA OwnerKeys ==
    ASSUME AccessType, KeysInv, NEW g \in Guests, OwnerStep(g) PROVE KeysInv'
<1>1. \A h \in Guests : account'[h].life = account[h].life
  BY OwnerKeeps DEF AccountKept
<1>2. CASE MarkedCompared(g)
  <2>1. /\ pass' = pass /\ dialog' = dialog /\ account' = account
        /\ confirmed' = confirmed \cup {<<g, account[g].life>>}
        /\ \A h \in Guests : known'[h] = IF h = g THEN account[g].life ELSE known[h]
    <3>1. PublicKey(g) = account[g].life /\ account[g].life \in Nat
      BY <1>2, KeyTypes DEF MarkedCompared
    <3>2. known \in Keys
      BY DEF AccessType
    <3>3. /\ pass' = pass /\ dialog' = dialog /\ account' = account
          /\ confirmed' = confirmed \cup {<<g, account[g].life>>}
          /\ known' = markCompared(known, g, account[g].life)
      BY <1>2, <3>1 DEF MarkedCompared, server
    <3>4. \A h \in Guests : markCompared(known, g, account[g].life)[h]
                                = IF h = g THEN account[g].life ELSE known[h]
      BY <3>2 DEF Keys, markCompared
    <3> QED BY <3>3, <3>4
  <2>2. dialog.at = "posting" => dialog.who \in Guests
    BY DialogIs DEF Sharing
  <2>3. PassKnows'
    BY <2>1 DEF KeysInv, PassKnows
  <2>4. SharingFits'
    BY <2>1, <2>2 DEF KeysInv, SharingFits
  <2> QED BY <2>1, <2>3, <2>4 DEF KeysInv, PostingFits
<1>3. CASE ~MarkedCompared(g)
  <2>1. /\ UNCHANGED <<known, pass, confirmed>>
        /\ dialog' = dialog \/ dialog'.at # "posting"
    BY <1>3 DEF OwnerStep, InviteOpened, RoleChanged, Revoke, RemoveMember, owner, ghosts
  <2> QED BY <1>1, <2>1, KeysStand
<1> QED BY <1>2, <1>3

LEMMA GuestKeys ==
    ASSUME AccessType, KeysInv, NEW g \in Guests, AccountStep(g) \/ VaultStep(g) PROVE KeysInv'
<1>1. UNCHANGED <<known, pass, dialog, confirmed>>
  BY DEF AccountStep, VaultStep, SignIn, Enrol, acceptInvite, StartOver, SignOut, Restart,
     Look, LookAnswered, LookRefused, AddAsked, Restored, Unlocked, NotUnlocked, KeysFetched,
     Mapped, openEnvelopes, owner, ghosts
<1>2. CASE StartOver(g)
  BY <1>1, <1>2 DEF StartOver, KeysInv, PassKnows, PostingFits, SharingFits
<1>3. CASE ~StartOver(g)
  BY <1>1, <1>3, GuestKeeps, KeysStand DEF AccountKept
<1> QED BY <1>2, <1>3

LEMMA NextKeys == AccessType /\ KeysInv /\ [Next]_vars => KeysInv'
<1> SUFFICES ASSUME AccessType, KeysInv, [Next]_vars PROVE KeysInv'
  OBVIOUS
<1>1. CASE UNCHANGED vars
  BY <1>1, KeysStand DEF vars, server, owner, ghosts
<1>2. CASE Next
  BY <1>2, NextSteps, PassKeys, DialogKeys, OwnerKeys, GuestKeys
<1> QED BY <1>1, <1>2

LEMMA InitKeys == Init => KeysInv
  BY DEF Init, KeysInv, PassKnows, PostingFits, SharingFits

\* A step that gives a guest the folder's key gives it to the key remembered, or
\* to one compared.
LEMMA WrapsFit ==
    ASSUME AccessType, KeysInv, [Next]_vars, NEW g \in Guests,
           account'[g].wrapped, ~account[g].wrapped
    PROVE  known[g] \in {NoKey, account[g].life} \/ <<g, account[g].life>> \in confirmed
<1>1. CASE UNCHANGED vars
  BY <1>1 DEF vars, server
<1>2. CASE PassStep
  <2>1. CASE Granted \/ GrantUnheard
    <3>1. pass.at = "posting" /\ \E answered \in BOOLEAN : Grant(answered)
      BY <2>1 DEF Granted, GrantUnheard
    <3>2. PICK h \in Guests, key \in Nat : pass.to = <<h, key>> /\ account' = Wrapped(h, key)
      BY <3>1, GrantSays
    <3>3. g = h /\ key = account[g].life
      BY <3>2, WrappedKeeps DEF Accepts
    <3>4. pass.known[g] \in {NoKey, account[g].life}
      BY <3>1, <3>2, <3>3 DEF KeysInv, PostingFits
    <3> QED BY <3>1, <3>4 DEF KeysInv, PassKnows
  <2>2. CASE ~(Granted \/ GrantUnheard)
    BY <1>2, <2>2 DEF PassStep, runCollaborationChecks, Listed, NotListed, NextMember, PassEnds,
       server
  <2> QED BY <2>1, <2>2
<1>3. CASE DialogStep
  <2>1. CASE Shared
    <3>1. dialog.who \in Guests /\ dialog.at = "posting" /\ account' = Wrapped(dialog.who, dialog.key)
      BY <2>1, DialogIs DEF Shared, Sharing
    <3>2. g = dialog.who /\ dialog.key = account[g].life
      BY <3>1, WrappedKeeps DEF Accepts
    <3> QED BY <3>1, <3>2 DEF KeysInv, SharingFits
  <2>2. CASE addExistingMember
    <3>1. dialog.who \in Guests /\ account[dialog.who] \in Account /\ account \in [Guests -> Account]
      BY <2>2, DialogIs DEF addExistingMember, Talking, AccessType
    <3>2. [account[dialog.who] EXCEPT !.member = TRUE].wrapped = account[dialog.who].wrapped
      BY <3>1 DEF Account
    <3> QED BY <2>2, <3>1, <3>2 DEF addExistingMember
  <2>3. CASE ~Shared /\ ~addExistingMember
    BY <1>3, <2>3 DEF DialogStep, Routed, shareKeyWith, InvitedToFolder, InvitedToOrganisation,
       NotSent, Withdrawn, OwnerSignsOut, OwnerUnlocks, server
  <2> QED BY <2>1, <2>2, <2>3
<1>4. CASE \E h \in Guests : OwnerStep(h) \/ AccountStep(h) \/ VaultStep(h)
  BY <1>4, OwnerKeeps, GuestKeeps DEF AccountKept
<1> QED BY <1>1, <1>2, <1>3, <1>4, NextSteps

\* While the owner's vault remembers a key for a person, no pass and no dialog
\* gives the folder's key to another key of theirs, unless the owner compared
\* it: whatever the two remember past each other (key-grants.ts, runPass and
\* learned; known-keys.ts; modals.ts, shareKeyWith).
THEOREM KeyGoesOnlyToTheKnown == Spec => KeyGoesToTheKnown
<1>1. AccessType /\ KeysInv /\ [Next]_vars =>
        [\A g \in Guests :
            account'[g].wrapped /\ ~account[g].wrapped =>
                \/ known[g] \in {NoKey, account[g].life}
                \/ <<g, account[g].life>> \in confirmed]_vars
  BY WrapsFit
<1> QED BY <1>1, InitAccess, NextAccess, InitKeys, NextKeys, PTL DEF Spec, KeyGoesToTheKnown

(***************************************************************************)
(* The folder in a guest's vault.                                          *)
(***************************************************************************)
\* A vault is never signed in to an account still to come.
LivesBehind == \A g \in Guests : vault[g].life <= account[g].life

\* A vault that is about to map the folder has its keys.
OpenedHasKeys == \A g \in Guests : adding[g].at = "opened" /\ g \notin crossed => vault[g].keys

\* A mapping without keys was left by a session that ended by itself, and that
\* was one of an account that has been followed by another.
LeftBehind ==
    \A g \in Guests :
        vault[g].mapped /\ ~vault[g].keys /\ g \notin crossed =>
            account[g].life # 1 /\ vault[g].life # 1

MappingInv == LivesBehind /\ OpenedHasKeys /\ LeftBehind

\* What the owner does is nothing to the lives and seats of the accounts.
LEMMA OwnersKeep ==
    ASSUME AccessType, PassStep \/ DialogStep
    PROVE  \A h \in Guests : account'[h].life = account[h].life /\ account'[h].seat = account[h].seat
<1>1. CASE Granted \/ GrantUnheard
  <2>1. pass.at = "posting" /\ \E answered \in BOOLEAN : Grant(answered)
    BY <1>1 DEF Granted, GrantUnheard
  <2>2. PICK h \in Guests, key \in Nat : account' = Wrapped(h, key)
    BY <2>1, GrantSays
  <2> QED BY <2>2, WrappedKeeps
<1>2. CASE Shared
  <2>1. dialog.who \in Guests /\ account' = Wrapped(dialog.who, dialog.key)
    BY <1>2, DialogIs DEF Shared, Sharing
  <2> QED BY <2>1, WrappedKeeps
<1>3. CASE addExistingMember
  <2>1. dialog.who \in Guests /\ account[dialog.who] \in Account /\ account \in [Guests -> Account]
    BY <1>3, DialogIs DEF addExistingMember, Talking, AccessType
  <2>2. /\ [account[dialog.who] EXCEPT !.member = TRUE].life = account[dialog.who].life
        /\ [account[dialog.who] EXCEPT !.member = TRUE].seat = account[dialog.who].seat
    BY <2>1 DEF Account
  <2> QED BY <1>3, <2>1, <2>2 DEF addExistingMember
<1>4. CASE ~(Granted \/ GrantUnheard \/ Shared \/ addExistingMember)
  <2>1. account' = account
    BY <1>4 DEF PassStep, DialogStep, runCollaborationChecks, Listed, NotListed, NextMember, PassEnds,
       Routed, shareKeyWith, InvitedToFolder, InvitedToOrganisation, NotSent, Withdrawn,
       OwnerSignsOut, OwnerUnlocks, server
  <2> QED BY <2>1
<1> QED BY <1>1, <1>2, <1>3, <1>4

\* Nor is it anything to the guests' vaults.
LEMMA OwnersStandBack ==
    ASSUME PassStep \/ DialogStep \/ \E g \in Guests : OwnerStep(g)
    PROVE  UNCHANGED <<vault, adding, crossed>>
<1>1. CASE PassStep
  BY <1>1 DEF PassStep, runCollaborationChecks, Listed, NotListed, NextMember, Granted,
     GrantUnheard, PassEnds, guest, ghosts
<1>2. CASE DialogStep
  BY <1>2 DEF DialogStep, Routed, addExistingMember, shareKeyWith, Shared, InvitedToFolder,
     InvitedToOrganisation, NotSent, Withdrawn, OwnerSignsOut, OwnerUnlocks, guest, ghosts
<1>3. CASE \E g \in Guests : OwnerStep(g)
  BY <1>3 DEF OwnerStep, InviteOpened, RoleChanged, Revoke, RemoveMember, MarkedCompared, guest, ghosts
<1> QED BY <1>1, <1>2, <1>3

LEMMA InitMapping == Init => MappingInv
  BY DEF Init, MappingInv, LivesBehind, OpenedHasKeys, LeftBehind, Idle, Stranger, SignedOut

\* A vault that stays with its account, and keeps its keys and its mapping.
VaultKept(g) ==
    /\ vault'[g].life = vault[g].life
    /\ vault[g].keys => vault'[g].keys
    /\ vault'[g].mapped => vault[g].mapped
    /\ adding'[g].at = "opened" => adding[g].at = "opened" \/ vault'[g].keys
    /\ crossed' = crossed

LEMMA KeptSteps ==
    ASSUME AccessType, NEW g \in Guests, AccountStep(g) \/ VaultStep(g),
           ~SignIn(g), ~SignOut(g), ~Mapped(g)
    PROVE  VaultKept(g)
<1>0. /\ vault[g] \in Vault /\ vault \in [Guests -> Vault]
      /\ adding[g] \in Request /\ adding \in [Guests -> Request]
  BY DEF AccessType
<1>1. CASE Enrol(g) \/ Unlocked(g)
  <2>1. /\ KeptOnDevice(vault[g]).life = vault[g].life
        /\ KeptOnDevice(vault[g]).keys = vault[g].keys
        /\ KeptOnDevice(vault[g]).mapped = vault[g].mapped
    BY <1>0 DEF KeptOnDevice, Vault
  <2>2. vault'[g] = KeptOnDevice(vault[g]) /\ crossed' = crossed
    BY <1>0, <1>1 DEF Enrol, Unlocked, ghosts
  <2>3. adding'[g].at = "opened" => adding[g].at = "opened"
    BY <1>0, <1>1 DEF Enrol, Unlocked, Await
  <2> QED BY <2>1, <2>2, <2>3 DEF VaultKept
<1>2. CASE Restart(g) \/ LookAnswered(g) \/ Restored(g)
  <2>1. \/ \E n \in Nat \cup {NoKey} : vault' = [vault EXCEPT ![g].held = n]
        \/ \E seen : vault' = [vault EXCEPT ![g].seen = seen]
    BY <1>0, <1>2 DEF Restart, LookAnswered, Restored, Vault
  <2>2. /\ vault'[g].life = vault[g].life /\ vault'[g].keys = vault[g].keys
        /\ vault'[g].mapped = vault[g].mapped
    BY <1>0, <2>1 DEF Vault
  <2>3. crossed' = crossed /\ (adding'[g].at = "opened" => adding[g].at = "opened")
    BY <1>0, <1>2 DEF Restart, LookAnswered, Restored, Await, ghosts, Idle
  <2> QED BY <2>2, <2>3 DEF VaultKept
<1>3. CASE KeysFetched(g) \/ openEnvelopes(g)
  <2>1. \/ vault' = [vault EXCEPT ![g].keys = TRUE]
        \/ vault' = vault /\ GivesUp(g)
    BY <1>3 DEF KeysFetched, openEnvelopes
  <2>2. /\ vault'[g].life = vault[g].life /\ vault'[g].mapped = vault[g].mapped
        /\ vault[g].keys => vault'[g].keys
        /\ vault'[g].keys \/ GivesUp(g)
    BY <1>0, <2>1 DEF Vault
  <2>3. crossed' = crossed
    BY <1>3 DEF KeysFetched, openEnvelopes, ghosts
  <2>4. GivesUp(g) => adding'[g].at = "idle"
    BY <1>0 DEF GivesUp, Idle
  <2> QED BY <2>2, <2>3, <2>4 DEF VaultKept
<1>4. CASE \/ acceptInvite(g) \/ StartOver(g) \/ Look(g) \/ LookRefused(g) \/ AddAsked(g)
           \/ NotUnlocked(g)
  <2>1. vault' = vault /\ crossed' = crossed
    BY <1>4 DEF acceptInvite, StartOver, Look, LookRefused, AddAsked, NotUnlocked, guest, ghosts
  <2>2. adding'[g].at = "opened" => adding[g].at = "opened" \/ vault[g].keys
    BY <1>0, <1>4 DEF acceptInvite, StartOver, Look, LookRefused, AddAsked, NotUnlocked, guest,
       GivesUp, Await, Idle
  <2> QED BY <2>1, <2>2 DEF VaultKept
<1> QED BY <1>1, <1>2, <1>3, <1>4 DEF AccountStep, VaultStep

\* A step of one guest's is nothing to the other guests' vaults.
LEMMA OthersStand ==
    ASSUME AccessType, NEW g \in Guests, AccountStep(g) \/ VaultStep(g), NEW h \in Guests, h # g
    PROVE  /\ vault'[h] = vault[h] /\ adding'[h] = adding[h]
           /\ h \in crossed' <=> h \in crossed
<1>0. vault \in [Guests -> Vault] /\ adding \in [Guests -> Request]
  BY DEF AccessType
<1>1. CASE AccountStep(g)
  BY <1>0, <1>1 DEF AccountStep, SignIn, Enrol, acceptInvite, StartOver, SignOut, Restart, guest, ghosts
<1>2. CASE VaultStep(g)
  BY <1>0, <1>2 DEF VaultStep, Look, LookAnswered, LookRefused, AddAsked, Restored, Unlocked,
     NotUnlocked, KeysFetched, Mapped, openEnvelopes, Await, GivesUp, guest, ghosts
<1> QED BY <1>1, <1>2

LEMMA GuestMapping ==
    ASSUME AccessType, AccessType', MappingInv, NEW g \in Guests, AccountStep(g) \/ VaultStep(g)
    PROVE  /\ vault'[g].life <= account'[g].life
           /\ adding'[g].at = "opened" /\ g \notin crossed' => vault'[g].keys
           /\ vault'[g].mapped /\ ~vault'[g].keys /\ g \notin crossed' =>
                 account'[g].life # 1 /\ vault'[g].life # 1
<1>0. /\ vault[g] \in Vault /\ vault \in [Guests -> Vault]
      /\ adding[g] \in Request /\ adding \in [Guests -> Request]
  BY DEF AccessType
<1>1. /\ account[g].life \in Nat \ {0} /\ account'[g].life \in Nat \ {0}
      /\ account'[g].life >= account[g].life /\ vault[g].life \in Nat
  BY <1>0, GuestKeeps DEF AccessType, Account, Vault
<1>2. /\ vault[g].life <= account[g].life
      /\ adding[g].at = "opened" /\ g \notin crossed => vault[g].keys
      /\ vault[g].mapped /\ ~vault[g].keys /\ g \notin crossed =>
            account[g].life # 1 /\ vault[g].life # 1
  BY DEF MappingInv, LivesBehind, OpenedHasKeys, LeftBehind
<1>3. CASE SignIn(g)
  <2>1. /\ UNCHANGED <<account, adding, crossed>>
        /\ vault' = [vault EXCEPT ![g].life = account[g].life,
                                  ![g].seen = IF @ = "null" THEN "none" ELSE @]
    BY <1>3 DEF SignIn, server
  <2>2. /\ vault'[g].life = account[g].life
        /\ vault'[g].keys = vault[g].keys /\ vault'[g].mapped = vault[g].mapped
    BY <1>0, <2>1 DEF Vault
  <2> QED BY <1>1, <1>2, <2>1, <2>2
<1>4. CASE SignOut(g)
  <2>1. /\ UNCHANGED <<account, adding>>
        /\ vault' = [vault EXCEPT ![g] = Forgotten(vault[g], vault[g].life # account[g].life)]
        /\ vault[g].life # 0
        /\ crossed' = IF look[g] # Idle \/ adding[g] # Idle THEN crossed \cup {g} ELSE crossed
    BY <1>4 DEF SignOut, server, SignedOut
  <2>2. \A forced \in BOOLEAN :
            /\ Forgotten(vault[g], forced).life = 0
            /\ Forgotten(vault[g], forced).mapped => forced
    BY <1>0 DEF Forgotten, Vault, SignedOut
  <2>3. vault'[g].life = 0 /\ (vault'[g].mapped => vault[g].life # account[g].life)
    BY <1>0, <2>1, <2>2
  <2>4. adding[g].at = "opened" => g \in crossed'
    BY <2>1 DEF Idle
  <2> QED BY <1>1, <1>2, <2>1, <2>3, <2>4
<1>5. CASE Mapped(g)
  <2>1. /\ adding[g].at = "opened" /\ UNCHANGED <<account, crossed>>
        /\ vault' = [vault EXCEPT ![g].mapped = TRUE] /\ GivesUp(g)
    BY <1>5 DEF Mapped, server, ghosts
  <2>2. vault'[g].life = vault[g].life /\ vault'[g].keys = vault[g].keys
    BY <1>0, <2>1 DEF Vault
  <2>3. adding'[g].at # "opened"
    BY <1>0, <2>1 DEF GivesUp, Idle
  <2> QED BY <1>1, <1>2, <2>1, <2>2, <2>3
<1>6. CASE ~SignIn(g) /\ ~SignOut(g) /\ ~Mapped(g)
  <2>1. VaultKept(g)
    BY <1>6, KeptSteps
  <2>2. /\ vault'[g].life = vault[g].life
        /\ vault[g].keys => vault'[g].keys
        /\ vault'[g].mapped => vault[g].mapped
        /\ adding'[g].at = "opened" => adding[g].at = "opened" \/ vault'[g].keys
        /\ crossed' = crossed
    BY <2>1 DEF VaultKept
  <2>3. vault'[g].life <= account'[g].life
    BY <1>1, <1>2, <2>2
  <2>4. account[g].life # 1 => account'[g].life # 1
    BY <1>1
  <2> QED BY <1>2, <2>2, <2>3, <2>4
<1> QED BY <1>3, <1>4, <1>5, <1>6

LEMMA NextMapping ==
    AccessType /\ AccessType' /\ MappingInv /\ [Next]_vars => MappingInv'
<1> SUFFICES ASSUME AccessType, AccessType', MappingInv, [Next]_vars PROVE MappingInv'
  OBVIOUS
<1>1. ASSUME UNCHANGED <<vault, adding, crossed>>,
             \A h \in Guests : account'[h].life = account[h].life
      PROVE  MappingInv'
  BY <1>1 DEF MappingInv, LivesBehind, OpenedHasKeys, LeftBehind
<1>2. CASE UNCHANGED vars
  BY <1>1, <1>2 DEF vars, server, guest, ghosts
<1>3. CASE PassStep \/ DialogStep
  BY <1>1, <1>3, OwnersKeep, OwnersStandBack
<1>4. ASSUME NEW g \in Guests, OwnerStep(g) PROVE MappingInv'
  BY <1>1, <1>4, OwnerKeeps, OwnersStandBack DEF AccountKept
<1>5. ASSUME NEW g \in Guests, AccountStep(g) \/ VaultStep(g) PROVE MappingInv'
  <2>1. \A h \in Guests : h # g => /\ vault'[h] = vault[h] /\ adding'[h] = adding[h]
                                   /\ h \in crossed' <=> h \in crossed
                                   /\ account'[h] = account[h]
    BY <1>5, OthersStand, GuestKeeps
  <2>2. LivesBehind'
    BY <1>5, <2>1, GuestMapping DEF MappingInv, LivesBehind
  <2>3. OpenedHasKeys'
    BY <1>5, <2>1, GuestMapping DEF MappingInv, OpenedHasKeys
  <2>4. LeftBehind'
    BY <1>5, <2>1, GuestMapping DEF MappingInv, LeftBehind
  <2> QED BY <2>2, <2>3, <2>4 DEF MappingInv
<1> QED BY <1>2, <1>3, <1>4, <1>5, NextSteps

\* The folder in the vault of somebody who is signed in opens: whenever they
\* sign out, are signed out, start over or restart, the keys go with the
\* mapping or the mapping came after them (main.ts, doMapFolder, signOutCloud).
THEOREM MappedFoldersOpen == Spec => []MappedOpens
<1>1. AccessType /\ MappingInv => MappedOpens
  BY DEF MappingInv, LeftBehind, MappedOpens
<1> QED BY <1>1, InitAccess, NextAccess, InitMapping, NextMapping, PTL DEF Spec

(***************************************************************************)
(* The invitations.                                                        *)
(***************************************************************************)
\* An invitation to the organisation is on its way only when the folder's is
\* there, or the seat has been taken meanwhile and none will be sent.
SendingHasFolder ==
    dialog.at = "sending" => account[dialog.who].seat \/ "folder" \in invited[dialog.who]

InvitedInv == JoiningBringsTheFolder /\ SendingHasFolder

LEMMA InvitedStand ==
    ASSUME AccessType, InvitedInv, UNCHANGED <<invited, alone>>,
           \A h \in Guests : account'[h].seat = account[h].seat,
           dialog' = dialog \/ dialog'.at # "sending"
    PROVE  InvitedInv'
<1>1. dialog.at = "sending" => dialog.who \in Guests
  BY DialogIs DEF Talking
<1> QED BY <1>1 DEF InvitedInv, JoiningBringsTheFolder, SendingHasFolder

LEMMA DialogInvited == ASSUME AccessType, InvitedInv, DialogStep PROVE InvitedInv'
<1>0. invited \in [Guests -> SUBSET {"folder", "organisation"}]
  BY DEF AccessType
<1>1. CASE InvitedToFolder
  <2>1. dialog.who \in Guests /\ dialog \in Talking
    BY <1>1, DialogIs DEF InvitedToFolder, Talking
  <2>2. CASE account[dialog.who].seat
    <3>1. UNCHANGED <<account, invited, alone>> /\ dialog'.at = "adding"
      BY <1>1, <2>1, <2>2 DEF InvitedToFolder, Talking
    <3> QED BY <3>1, InvitedStand
  <2>3. CASE ~account[dialog.who].seat
    <3>1. /\ invited' = [invited EXCEPT ![dialog.who] = @ \cup {"folder"}]
          /\ alone' = alone \ {dialog.who}
          /\ dialog'.who = dialog.who
      BY <1>1, <2>1, <2>3 DEF InvitedToFolder, Talking
    <3> QED BY <1>0, <2>1, <3>1 DEF InvitedInv, JoiningBringsTheFolder, SendingHasFolder
  <2> QED BY <2>2, <2>3
<1>2. CASE InvitedToOrganisation
  <2>1. /\ dialog.who \in Guests /\ "folder" \in invited[dialog.who]
        /\ invited' = [invited EXCEPT ![dialog.who] = @ \cup {"organisation"}]
        /\ alone' = alone /\ dialog'.at = "idle"
    BY <1>2, DialogIs DEF InvitedToOrganisation, Talking, ghosts, InvitedInv, SendingHasFolder
  <2> QED BY <1>0, <2>1 DEF InvitedInv, JoiningBringsTheFolder, SendingHasFolder
<1>3. CASE Withdrawn
  <2>1. /\ dialog.who \in Guests
        /\ invited' = [invited EXCEPT ![dialog.who] = @ \ {"folder"}]
        /\ alone' = alone \cup (IF "organisation" \in invited[dialog.who] THEN {dialog.who} ELSE {})
        /\ dialog'.at = "idle"
    BY <1>3, DialogIs DEF Withdrawn, Talking
  <2> QED BY <1>0, <2>1 DEF InvitedInv, JoiningBringsTheFolder, SendingHasFolder
<1>4. CASE NotSent
  <2>1. dialog'.at # "sending" /\ UNCHANGED <<account, invited, alone>>
    BY <1>4, DialogIs DEF NotSent, Talking, server, ghosts
  <2> QED BY <2>1, InvitedStand
<1>5. CASE Routed
  <2>1. dialog \in Talking /\ routeInvite(dialog.who) # "sending"
    BY <1>5, DialogIs DEF Routed, routeInvite
  <2>2. dialog'.at # "sending" /\ UNCHANGED <<account, invited, alone>>
    BY <1>5, <2>1 DEF Routed, Talking, server, ghosts
  <2> QED BY <2>2, InvitedStand
<1>6. CASE addExistingMember \/ shareKeyWith \/ Shared \/ OwnerSignsOut \/ OwnerUnlocks
  <2>1. UNCHANGED <<invited, alone>>
    BY <1>6 DEF addExistingMember, shareKeyWith, Shared, OwnerSignsOut, OwnerUnlocks, server, ghosts
  <2>2. dialog' = dialog \/ dialog'.at # "sending"
    BY <1>6, DialogIs DEF addExistingMember, shareKeyWith, Shared, OwnerSignsOut, OwnerUnlocks, Talking
  <2> QED BY <2>1, <2>2, OwnersKeep, InvitedStand
<1> QED BY <1>1, <1>2, <1>3, <1>4, <1>5, <1>6 DEF DialogStep

LEMMA OwnerInvited ==
    ASSUME AccessType, InvitedInv, NEW g \in Guests, OwnerStep(g) PROVE InvitedInv'
<1>0. invited \in [Guests -> SUBSET {"folder", "organisation"}]
  BY DEF AccessType
<1>1. CASE Revoke(g)
  <2>1. /\ invited' = [invited EXCEPT ![g] = @ \ {"folder"}] /\ alone' = alone \cup {g}
        /\ dialog' = dialog /\ dialog.at = "idle"
    BY <1>1 DEF Revoke, owner
  <2> QED BY <1>0, <2>1 DEF InvitedInv, JoiningBringsTheFolder, SendingHasFolder
<1>2. CASE ~Revoke(g)
  <2>1. UNCHANGED <<invited, alone>> /\ (dialog' = dialog \/ dialog'.at # "sending")
    BY <1>2 DEF OwnerStep, InviteOpened, RoleChanged, RemoveMember, MarkedCompared, server, owner, ghosts
  <2> QED BY <2>1, OwnerKeeps, InvitedStand
<1> QED BY <1>1, <1>2

LEMMA GuestInvited ==
    ASSUME AccessType, InvitedInv, NEW g \in Guests, AccountStep(g) \/ VaultStep(g)
    PROVE  InvitedInv'
<1>0. /\ invited \in [Guests -> SUBSET {"folder", "organisation"}]
      /\ account[g] \in Account /\ account \in [Guests -> Account]
  BY DEF AccessType
<1>1. dialog' = dialog /\ (dialog.at = "sending" => dialog.who \in Guests)
  BY DialogIs DEF AccountStep, VaultStep, SignIn, Enrol, acceptInvite, StartOver, SignOut,
     Restart, Look, LookAnswered, LookRefused, AddAsked, Restored, Unlocked, NotUnlocked,
     KeysFetched, Mapped, openEnvelopes, owner, Talking
<1>2. CASE acceptInvite(g)
  <2>1. PICK r : r = [account[g] EXCEPT !.seat = TRUE, !.member = @ \/ "folder" \in invited[g]]
    OBVIOUS
  <2>2. /\ account' = [account EXCEPT ![g] = r] /\ r.seat
        /\ invited' = [invited EXCEPT ![g] = {}] /\ alone' = alone \ {g}
    BY <1>0, <1>2, <2>1 DEF acceptInvite, Account
  <2> QED BY <1>0, <1>1, <2>2 DEF InvitedInv, JoiningBringsTheFolder, SendingHasFolder
<1>3. CASE StartOver(g)
  <2>1. /\ dialog.at = "idle" /\ invited' = [invited EXCEPT ![g] = {}] /\ alone' = alone \ {g}
    BY <1>3 DEF StartOver
  <2> QED BY <1>0, <1>1, <2>1 DEF InvitedInv, JoiningBringsTheFolder, SendingHasFolder
<1>4. CASE ~acceptInvite(g) /\ ~StartOver(g)
  <2>1. UNCHANGED <<invited, alone>>
    BY <1>4 DEF AccountStep, VaultStep, SignIn, Enrol, SignOut, Restart, Look, LookAnswered,
       LookRefused, AddAsked, Restored, Unlocked, NotUnlocked, KeysFetched, Mapped,
       openEnvelopes, server, ghosts
  <2>2. \A h \in Guests : account'[h].seat = account[h].seat
    <3>1. [account[g] EXCEPT !.enrolled = TRUE].seat = account[g].seat
      BY <1>0 DEF Account
    <3>2. account' = account \/ account' = [account EXCEPT ![g] = [account[g] EXCEPT !.enrolled = TRUE]]
      BY <1>4 DEF AccountStep, VaultStep, SignIn, Enrol, SignOut, Restart, Look, LookAnswered,
         LookRefused, AddAsked, Restored, Unlocked, NotUnlocked, KeysFetched, Mapped,
         openEnvelopes, server
    <3> QED BY <1>0, <3>1, <3>2
  <2> QED BY <1>1, <2>1, <2>2, InvitedStand
<1> QED BY <1>2, <1>3, <1>4

LEMMA NextInvited == AccessType /\ InvitedInv /\ [Next]_vars => InvitedInv'
<1> SUFFICES ASSUME AccessType, InvitedInv, [Next]_vars PROVE InvitedInv'
  OBVIOUS
<1>1. CASE UNCHANGED vars
  BY <1>1, InvitedStand DEF vars, server, owner, ghosts
<1>2. CASE PassStep
  <2>1. UNCHANGED <<invited, alone, dialog>>
    BY <1>2 DEF PassStep, runCollaborationChecks, Listed, NotListed, NextMember, Granted,
       GrantUnheard, PassEnds, server, ghosts
  <2> QED BY <1>2, <2>1, OwnersKeep, InvitedStand
<1>3. CASE Next /\ ~PassStep
  BY <1>3, NextSteps, DialogInvited, OwnerInvited, GuestInvited
<1> QED BY <1>1, <1>2, <1>3

\* Somebody invited to a folder who takes a seat gets the folder with it,
\* unless the folder's invitation was taken back: the two invitations are sent
\* and withdrawn in the one order that allows it (folder-invite.ts,
\* inviteNewAddress).
THEOREM JoinersGetTheFolder == Spec => []JoiningBringsTheFolder
<1>1. Init => InvitedInv
  BY DEF Init, InvitedInv, JoiningBringsTheFolder, SendingHasFolder
<1>2. InvitedInv => JoiningBringsTheFolder
  BY DEF InvitedInv
<1> QED BY <1>1, <1>2, InitAccess, NextAccess, NextInvited, PTL DEF Spec
=============================================================================
