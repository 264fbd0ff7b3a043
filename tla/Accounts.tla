------------------------------ MODULE Accounts ------------------------------
(***************************************************************************)
(* Microsoft accounts: sign-in, session restoration, selection, removal    *)
(* and the avatar cache.  Three stores hold an account (the record in      *)
(* accounts.json, the refresh credential in the operating system's store,  *)
(* the avatar under cache/) and one process-wide cache holds its session.  *)
(* Three guards order the commands: the login slot, the restoration gate   *)
(* (an async mutex) and accounts_lock.  A refresh token is a number; the   *)
(* provider redeems each at most once and answers with its replacement.    *)
(* Every request and every save may fail, and the launcher may die between *)
(* any two steps.                                                          *)
(***************************************************************************)
EXTENDS Naturals

CONSTANTS
    Accounts,    \* Minecraft profile UUIDs
    Names,       \* Minecraft names
    Workers,     \* asynchronous commands under way
    None,
    MaxTokens,   \* bound: refresh tokens the provider issues
    Crashes      \* may the launcher die?

ASSUME NoneIsNothing == None \notin Accounts \cup Names \cup Workers
ASSUME TokensAssumption == MaxTokens \in Nat

VARIABLES
    \* persistent
    names,         \* accounts.json: the name recorded, or None
    selected,      \* accounts.json: selected_account_id
    credentials,   \* the credential store: a refresh token, 0 when absent
    avatars,       \* cache/avatars/<account>.json
    \* in memory
    sessions,      \* accounts with a usable session in SessionCache
    loginSlot,     \* the worker of the active login, or None
    cancelled,     \* the permit cancel_active_login left in its Notify
    gate,          \* session_restoration_guard
    accountsLock,  \* accounts_lock
    \* one command of each worker, and select_account on the main thread
    pc,
    kind,          \* what wants the session restored
    subject,       \* the account
    held,          \* the refresh token in hand
    profile,       \* the name the chain has returned
    draft,         \* the document it has loaded and changed
    choice,        \* select_account: the document it will write, or None
    \* the provider, and what excuses a dead credential
    issued,        \* refresh tokens issued: 1 .. issued
    dead,          \* tokens redeemed or revoked
    excused        \* accounts whose token was revoked, or whose rotation
                   \* was lost to a failure or a crash

document == <<names, selected>>
stores == <<names, selected, credentials, avatars>>
guards == <<loginSlot, gate, accountsLock>>
locals == <<pc, kind, subject, held, profile, draft>>
provider == <<issued, dead, excused>>
vars == <<stores, sessions, guards, cancelled, locals, choice, provider>>

Kinds == {"check", "play", "avatar"}

LoginSteps ==
    {"browser", "exchange", "chain", "commit", "commitSave", "commitCredential",
     "commitSession"}
GatedSteps == {"redeem", "reject", "rotate", "profile", "rename", "renameSave", "cache"}
RemoveSteps ==
    {"removeLoad", "removeCredential", "removeSave", "removeSession", "removeAvatar"}
Steps ==
    {"idle", "gate", "image", "store", "removeGate"}
        \cup LoginSteps \cup GatedSteps \cup RemoveSteps

\* The steps inside a window of accounts_lock.
LockedSteps ==
    {"commitSave", "commitCredential", "commitSession", "renameSave",
     "removeCredential", "removeSave", "removeSession"}

Tokens == 0 .. MaxTokens
Documents == [names : [Accounts -> Names \cup {None}], selected : Accounts \cup {None}]

\* accounts.json, missing or empty.
NoDocument == [names |-> [a \in Accounts |-> None], selected |-> None]

StoresOK ==
    /\ names \in [Accounts -> Names \cup {None}]
    /\ selected \in Accounts \cup {None}
    /\ credentials \in [Accounts -> Tokens]
    /\ avatars \subseteq Accounts
    /\ sessions \subseteq Accounts

GuardsOK ==
    /\ loginSlot \in Workers \cup {None}
    /\ gate \in Workers \cup {None}
    /\ accountsLock \in Workers \cup {None}
    /\ cancelled \in BOOLEAN

LocalsOK ==
    /\ pc \in [Workers -> Steps]
    /\ kind \in [Workers -> Kinds]
    /\ subject \in [Workers -> Accounts \cup {None}]
    /\ held \in [Workers -> Tokens]
    /\ profile \in [Workers -> Names \cup {None}]
    /\ draft \in [Workers -> Documents]
    /\ choice \in Documents \cup {None}

ProviderOK ==
    /\ issued \in Tokens
    /\ dead \subseteq 1 .. issued
    /\ excused \subseteq Accounts

TypeOK == StoresOK /\ GuardsOK /\ LocalsOK /\ ProviderOK

Init ==
    /\ names = NoDocument.names
    /\ selected = None
    /\ credentials = [a \in Accounts |-> 0]
    /\ avatars = {}
    /\ sessions = {}
    /\ loginSlot = None /\ gate = None /\ accountsLock = None
    /\ cancelled = FALSE
    /\ pc = [w \in Workers |-> "idle"]
    /\ kind = [w \in Workers |-> "check"]
    /\ subject = [w \in Workers |-> None]
    /\ held = [w \in Workers |-> 0]
    /\ profile = [w \in Workers |-> None]
    /\ draft = [w \in Workers |-> NoDocument]
    /\ choice = None
    /\ issued = 0
    /\ dead = {}
    /\ excused = {}

-----------------------------------------------------------------------------
(* The accounts document *)

Merged(a, name) ==
    [names |-> [names EXCEPT ![a] = name],
     selected |-> IF selected = None THEN a ELSE selected]

Renamed(a, name) == [names |-> [names EXCEPT ![a] = name], selected |-> selected]

Without(a) ==
    [names |-> [names EXCEPT ![a] = None],
     selected |-> IF selected = a THEN None ELSE selected]

Selecting(a) == [names |-> names, selected |-> a]

\* A sibling file renamed over the document: all of it or nothing.
Save(d) == names' = d.names /\ selected' = d.selected

\* launch_account_status: what Play asks for before it starts.
Ready(a) == names[a] # None /\ (a \in sessions \/ credentials[a] # 0)

(* What the interface's busy flags hold back. *)
SignInBusy == loginSlot # None

AccountBusy ==
    \/ choice # None
    \/ \E w \in Workers :
        \/ pc[w] \in {"removeGate"} \cup RemoveSteps
        \/ kind[w] = "check" /\ pc[w] \in {"gate"} \cup GatedSteps

-----------------------------------------------------------------------------
(* Steps of a command *)

At(w, step) == pc[w] = step

Goto(w, step) == pc' = [pc EXCEPT ![w] = step]

\* Every way out drops the guards the command holds, and its locals.
Return(w) ==
    /\ loginSlot' = IF loginSlot = w THEN None ELSE loginSlot
    /\ gate' = IF gate = w THEN None ELSE gate
    /\ accountsLock' = IF accountsLock = w THEN None ELSE accountsLock
    /\ pc' = [pc EXCEPT ![w] = "idle"]
    /\ kind' = [kind EXCEPT ![w] = "check"]
    /\ subject' = [subject EXCEPT ![w] = None]
    /\ held' = [held EXCEPT ![w] = 0]
    /\ profile' = [profile EXCEPT ![w] = None]
    /\ draft' = [draft EXCEPT ![w] = NoDocument]

\* A credential the provider accepts replaces the account's, and with it any
\* excuse.
Keep(a, token) ==
    /\ credentials' = [credentials EXCEPT ![a] = token]
    /\ excused' = excused \ {a}

-----------------------------------------------------------------------------
(* sign_in *)

\* LoginTransaction::acquire.  The button is not offered while another
\* account command runs, unless no account is listed.
BeginLogin(w) ==
    /\ At(w, "idle")
    /\ loginSlot = None
    /\ AccountBusy => names = NoDocument.names
    /\ loginSlot' = w
    /\ cancelled' = FALSE
    /\ Goto(w, "browser")
    /\ UNCHANGED <<stores, sessions, gate, accountsLock, kind, subject, held, profile,
                   draft, choice, provider>>

\* cancel_active_login leaves a permit; whoever waits takes it.  Past the
\* callback nobody waits for it.
Cancel ==
    /\ choice = None
    /\ loginSlot # None
    /\ cancelled' = TRUE
    /\ UNCHANGED <<stores, sessions, guards, locals, choice, provider>>

\* The browser comes back to the receiver with a code and the right state;
\* other requests leave it waiting.
Callback(w) ==
    /\ At(w, "browser")
    /\ Goto(w, "exchange")
    /\ UNCHANGED <<stores, sessions, guards, cancelled, kind, subject, held, profile,
                   draft, choice, provider>>

LoginCancelled(w) ==
    /\ At(w, "browser")
    /\ cancelled
    /\ cancelled' = FALSE
    /\ Return(w)
    /\ UNCHANGED <<stores, sessions, choice, provider>>

\* The authorization code buys a first refresh token.
Exchange(w) ==
    /\ At(w, "exchange")
    /\ issued < MaxTokens
    /\ issued' = issued + 1
    /\ held' = [held EXCEPT ![w] = issued + 1]
    /\ Goto(w, "chain")
    /\ UNCHANGED <<stores, sessions, guards, cancelled, kind, subject, profile, draft,
                   choice, dead, excused>>

\* The account that signed in is the one whose profile the chain returns.
LoginChain(w) ==
    /\ At(w, "chain")
    /\ \E a \in Accounts, name \in Names :
        /\ subject' = [subject EXCEPT ![w] = a]
        /\ profile' = [profile EXCEPT ![w] = name]
    /\ Goto(w, "commit")
    /\ UNCHANGED <<stores, sessions, guards, cancelled, kind, held, draft, choice,
                   provider>>

(* commit_account, one window of accounts_lock *)

CommitLoad(w) ==
    /\ At(w, "commit")
    /\ accountsLock = None
    /\ accountsLock' = w
    /\ draft' = [draft EXCEPT ![w] = Merged(subject[w], profile[w])]
    /\ Goto(w, "commitSave")
    /\ UNCHANGED <<stores, sessions, loginSlot, gate, cancelled, kind, subject, held,
                   profile, choice, provider>>

\* Mutant: a failed save of the record goes unnoticed.
CommitSaveUnnoticed(w) ==
    /\ At(w, "commitSave")
    /\ Goto(w, "commitCredential")
    /\ UNCHANGED <<stores, sessions, guards, cancelled, kind, subject, held, profile,
                   draft, choice, provider>>

CommitSave(w) ==
    /\ At(w, "commitSave")
    /\ Save(draft[w])
    /\ Goto(w, "commitCredential")
    /\ UNCHANGED <<credentials, avatars, sessions, guards, cancelled, kind, subject,
                   held, profile, draft, choice, provider>>

CommitCredential(w) ==
    /\ At(w, "commitCredential")
    /\ Keep(subject[w], held[w])
    /\ Goto(w, "commitSession")
    /\ UNCHANGED <<document, avatars, sessions, guards, cancelled, kind, subject, held,
                   profile, draft, choice, issued, dead>>

CommitSession(w) ==
    /\ At(w, "commitSession")
    /\ sessions' = sessions \cup {subject[w]}
    /\ Return(w)
    /\ UNCHANGED <<stores, cancelled, choice, provider>>

\* A refused or lost answer, the ten-minute timeout, a failed load or save.
LoginFails(w) ==
    /\ pc[w] \in LoginSteps \ {"commitSession"}
    /\ Return(w)
    /\ UNCHANGED <<stores, sessions, cancelled, choice, provider>>

-----------------------------------------------------------------------------
(* ensure_session, for Check account, for Play and for avatars *)

BeginRestore(w, k, a) ==
    /\ At(w, "idle")
    /\ k = "check" => ~AccountBusy /\ ~SignInBusy /\ names[a] # None
    /\ k = "play" => Ready(a) /\ a \notin sessions
    /\ kind' = [kind EXCEPT ![w] = k]
    /\ subject' = [subject EXCEPT ![w] = a]
    /\ Goto(w, "gate")
    /\ UNCHANGED <<stores, sessions, guards, cancelled, held, profile, draft, choice,
                   provider>>

\* The session may have been restored while the command waited for the gate.
SessionFound(w) ==
    /\ At(w, "gate")
    /\ gate = None
    /\ subject[w] \in sessions
    /\ IF kind[w] = "avatar"
          THEN /\ Goto(w, "image")
               /\ UNCHANGED <<guards, kind, subject, held, profile, draft>>
          ELSE Return(w)
    /\ UNCHANGED <<stores, sessions, cancelled, choice, provider>>

\* No record, no credential, or a store that cannot be read.
NothingToRestore(w) ==
    /\ At(w, "gate")
    /\ gate = None
    /\ subject[w] \notin sessions
    /\ Return(w)
    /\ UNCHANGED <<stores, sessions, cancelled, choice, provider>>

EnterGate(w) ==
    /\ At(w, "gate")
    /\ gate = None
    /\ subject[w] \notin sessions
    /\ names[subject[w]] # None /\ credentials[subject[w]] # 0
    /\ gate' = w
    /\ held' = [held EXCEPT ![w] = credentials[subject[w]]]
    /\ Goto(w, "redeem")
    /\ UNCHANGED <<stores, sessions, loginSlot, accountsLock, cancelled, kind, subject,
                   profile, draft, choice, provider>>

\* The provider takes the token and answers with its replacement.
Redeem(w) ==
    /\ At(w, "redeem")
    /\ held[w] \notin dead
    /\ issued < MaxTokens
    /\ issued' = issued + 1
    /\ dead' = dead \cup {held[w]}
    /\ held' = [held EXCEPT ![w] = issued + 1]
    /\ Goto(w, "rotate")
    /\ UNCHANGED <<stores, sessions, guards, cancelled, kind, subject, profile, draft,
                   choice, excused>>

\* ... and the answer is lost.
RedeemLost(w) ==
    /\ At(w, "redeem")
    /\ held[w] \notin dead
    /\ dead' = dead \cup {held[w]}
    /\ excused' = excused \cup {a \in Accounts : credentials[a] \in dead'}
    /\ Return(w)
    /\ UNCHANGED <<stores, sessions, cancelled, choice, issued>>

\* invalid_grant
RedeemRejected(w) ==
    /\ At(w, "redeem")
    /\ held[w] \in dead
    /\ Goto(w, "reject")
    /\ UNCHANGED <<stores, sessions, guards, cancelled, kind, subject, held, profile,
                   draft, choice, provider>>

\* What is deleted is whatever the store holds by now.
Reject(w) ==
    /\ At(w, "reject")
    /\ credentials' = [credentials EXCEPT ![subject[w]] = 0]
    /\ Return(w)
    /\ UNCHANGED <<document, avatars, sessions, cancelled, choice, provider>>

\* Mutant: the rotated credential stays in memory, with the session.
RotateInMemory(w) ==
    /\ At(w, "rotate")
    /\ Goto(w, "profile")
    /\ UNCHANGED <<stores, sessions, guards, cancelled, kind, subject, held, profile,
                   draft, choice, provider>>

\* The replacement is saved before anything else can fail.
Rotate(w) ==
    /\ At(w, "rotate")
    /\ Keep(subject[w], held[w])
    /\ Goto(w, "profile")
    /\ UNCHANGED <<document, avatars, sessions, guards, cancelled, kind, subject, held,
                   profile, draft, choice, issued, dead>>

RotateFails(w) ==
    /\ At(w, "rotate")
    /\ excused' = excused \cup {a \in Accounts : credentials[a] \in dead}
    /\ Return(w)
    /\ UNCHANGED <<stores, sessions, cancelled, choice, issued, dead>>

RestoreChain(w) ==
    /\ At(w, "profile")
    /\ \E name \in Names : profile' = [profile EXCEPT ![w] = name]
    /\ Goto(w, "rename")
    /\ UNCHANGED <<stores, sessions, guards, cancelled, kind, subject, held, draft,
                   choice, provider>>

\* The credential now belongs to another profile.
ChainMismatch(w) ==
    /\ At(w, "profile")
    /\ credentials' = [credentials EXCEPT ![subject[w]] = 0]
    /\ Return(w)
    /\ UNCHANGED <<document, avatars, sessions, cancelled, choice, provider>>

(* update_record_name_if_changed *)

NameUnchanged(w) ==
    /\ At(w, "rename")
    /\ accountsLock = None
    /\ names[subject[w]] \in {None, profile[w]}
    /\ Goto(w, "cache")
    /\ UNCHANGED <<stores, sessions, guards, cancelled, kind, subject, held, profile,
                   draft, choice, provider>>

RenameLoad(w) ==
    /\ At(w, "rename")
    /\ accountsLock = None
    /\ names[subject[w]] \notin {None, profile[w]}
    /\ accountsLock' = w
    /\ draft' = [draft EXCEPT ![w] = Renamed(subject[w], profile[w])]
    /\ Goto(w, "renameSave")
    /\ UNCHANGED <<stores, sessions, loginSlot, gate, cancelled, kind, subject, held,
                   profile, choice, provider>>

RenameSave(w) ==
    /\ At(w, "renameSave")
    /\ Save(draft[w])
    /\ accountsLock' = None
    /\ draft' = [draft EXCEPT ![w] = NoDocument]
    /\ Goto(w, "cache")
    /\ UNCHANGED <<credentials, avatars, sessions, loginSlot, gate, cancelled, kind,
                   subject, held, profile, choice, provider>>

CacheSession(w) ==
    /\ At(w, "cache")
    /\ sessions' = sessions \cup {subject[w]}
    /\ IF kind[w] = "avatar"
          THEN /\ gate' = None
               /\ held' = [held EXCEPT ![w] = 0]
               /\ profile' = [profile EXCEPT ![w] = None]
               /\ Goto(w, "image")
               /\ UNCHANGED <<loginSlot, accountsLock, kind, subject, draft>>
          ELSE Return(w)
    /\ UNCHANGED <<stores, cancelled, choice, provider>>

\* A request that reaches nobody or is answered badly, a credential or a
\* document that cannot be read, saved or deleted.
RestoreFails(w) ==
    /\ pc[w] \in {"redeem", "reject", "profile", "rename", "renameSave"}
    /\ Return(w)
    /\ UNCHANGED <<stores, sessions, cancelled, choice, provider>>

(* fetch_account_avatar and store_cached, after the gate *)

FetchAvatar(w) ==
    /\ At(w, "image")
    /\ subject[w] \in sessions
    /\ Goto(w, "store")
    /\ UNCHANGED <<stores, sessions, guards, cancelled, kind, subject, held, profile,
                   draft, choice, provider>>

StoreAvatar(w) ==
    /\ At(w, "store")
    /\ avatars' = avatars \cup {subject[w]}
    /\ Return(w)
    /\ UNCHANGED <<document, credentials, sessions, cancelled, choice, provider>>

\* No session any more, no image, or nowhere to keep it.
NoAvatar(w) ==
    /\ pc[w] \in {"image", "store"}
    /\ Return(w)
    /\ UNCHANGED <<stores, sessions, cancelled, choice, provider>>

-----------------------------------------------------------------------------
(* remove_account *)

\* The confirmation looks at the account flag only: a login may be under way.
BeginRemove(w, a) ==
    /\ At(w, "idle")
    /\ ~AccountBusy
    /\ names[a] # None
    /\ subject' = [subject EXCEPT ![w] = a]
    /\ Goto(w, "removeGate")
    /\ UNCHANGED <<stores, sessions, guards, cancelled, kind, held, profile, draft,
                   choice, provider>>

\* Mutant: removal does not wait for a restoration.
EnterRemovalAtOnce(w) ==
    /\ At(w, "removeGate")
    /\ Goto(w, "removeLoad")
    /\ UNCHANGED <<stores, sessions, guards, cancelled, kind, subject, held, profile,
                   draft, choice, provider>>

EnterRemoval(w) ==
    /\ At(w, "removeGate")
    /\ gate = None
    /\ gate' = w
    /\ Goto(w, "removeLoad")
    /\ UNCHANGED <<stores, sessions, loginSlot, accountsLock, cancelled, kind, subject,
                   held, profile, draft, choice, provider>>

RemoveLoad(w) ==
    /\ At(w, "removeLoad")
    /\ accountsLock = None
    /\ names[subject[w]] # None
    /\ accountsLock' = w
    /\ draft' = [draft EXCEPT ![w] = Without(subject[w])]
    /\ Goto(w, "removeCredential")
    /\ UNCHANGED <<stores, sessions, loginSlot, gate, cancelled, kind, subject, held,
                   profile, choice, provider>>

RemoveCredential(w) ==
    /\ At(w, "removeCredential")
    /\ credentials' = [credentials EXCEPT ![subject[w]] = 0]
    /\ Goto(w, "removeSave")
    /\ UNCHANGED <<document, avatars, sessions, guards, cancelled, kind, subject, held,
                   profile, draft, choice, provider>>

RemoveSave(w) ==
    /\ At(w, "removeSave")
    /\ Save(draft[w])
    /\ Goto(w, "removeSession")
    /\ UNCHANGED <<credentials, avatars, sessions, guards, cancelled, kind, subject,
                   held, profile, draft, choice, provider>>

\* Mutant: the session stays in the cache.
RemoveSessionKeeps(w) ==
    /\ At(w, "removeSession")
    /\ accountsLock' = None
    /\ draft' = [draft EXCEPT ![w] = NoDocument]
    /\ Goto(w, "removeAvatar")
    /\ UNCHANGED <<stores, sessions, loginSlot, gate, cancelled, kind, subject, held,
                   profile, choice, provider>>

RemoveSession(w) ==
    /\ At(w, "removeSession")
    /\ sessions' = sessions \ {subject[w]}
    /\ accountsLock' = None
    /\ draft' = [draft EXCEPT ![w] = NoDocument]
    /\ Goto(w, "removeAvatar")
    /\ UNCHANGED <<stores, loginSlot, gate, cancelled, kind, subject, held, profile,
                   choice, provider>>

\* Best effort: a file that cannot be removed stays.
RemoveAvatar(w) ==
    /\ At(w, "removeAvatar")
    /\ avatars' \in {avatars, avatars \ {subject[w]}}
    /\ Return(w)
    /\ UNCHANGED <<document, credentials, sessions, cancelled, choice, provider>>

RemoveFails(w) ==
    /\ pc[w] \in {"removeLoad", "removeCredential", "removeSave"}
    /\ Return(w)
    /\ UNCHANGED <<stores, sessions, cancelled, choice, provider>>

-----------------------------------------------------------------------------
(* select_account, on the main thread and outside accounts_lock *)

SelectLoad(a) ==
    /\ ~AccountBusy /\ ~SignInBusy
    /\ names[a] # None
    /\ choice' = Selecting(a)
    /\ UNCHANGED <<stores, sessions, guards, cancelled, locals, provider>>

SelectSave ==
    /\ choice # None
    /\ Save(choice)
    /\ choice' = None
    /\ UNCHANGED <<credentials, avatars, sessions, guards, cancelled, locals, provider>>

SelectFails ==
    /\ choice # None
    /\ choice' = None
    /\ UNCHANGED <<stores, sessions, guards, cancelled, locals, provider>>

-----------------------------------------------------------------------------
(* The world outside *)

\* Five minutes before the token's end.
Expire(a) ==
    /\ a \in sessions
    /\ sessions' = sessions \ {a}
    /\ UNCHANGED <<stores, guards, cancelled, locals, choice, provider>>

\* The user revokes Aurora's access in the Microsoft account.
Revoke(a) ==
    /\ credentials[a] \in (1 .. issued) \ dead
    /\ dead' = dead \cup {credentials[a]}
    /\ excused' = excused \cup {a}
    /\ UNCHANGED <<stores, sessions, guards, cancelled, locals, choice, issued>>

\* The launcher dies and starts again.
Crash ==
    /\ Crashes
    /\ sessions' = {}
    /\ loginSlot' = None /\ gate' = None /\ accountsLock' = None
    /\ cancelled' = FALSE
    /\ pc' = [w \in Workers |-> "idle"]
    /\ kind' = [w \in Workers |-> "check"]
    /\ subject' = [w \in Workers |-> None]
    /\ held' = [w \in Workers |-> 0]
    /\ profile' = [w \in Workers |-> None]
    /\ draft' = [w \in Workers |-> NoDocument]
    /\ choice' = None
    /\ excused' = excused \cup {a \in Accounts : credentials[a] \in dead}
    /\ UNCHANGED <<stores, issued, dead>>

LoginStep(w) ==
    \/ Callback(w) \/ LoginCancelled(w) \/ Exchange(w) \/ LoginChain(w) \/ CommitLoad(w)
    \/ CommitSave(w) \/ CommitCredential(w) \/ CommitSession(w) \/ LoginFails(w)

RestoreStep(w) ==
    \/ SessionFound(w) \/ NothingToRestore(w) \/ EnterGate(w) \/ Redeem(w)
    \/ RedeemLost(w) \/ RedeemRejected(w) \/ Reject(w) \/ Rotate(w) \/ RotateFails(w)
    \/ RestoreChain(w) \/ ChainMismatch(w) \/ NameUnchanged(w) \/ RenameLoad(w)
    \/ RenameSave(w) \/ CacheSession(w) \/ RestoreFails(w) \/ FetchAvatar(w)
    \/ StoreAvatar(w) \/ NoAvatar(w)

RemoveStep(w) ==
    \/ EnterRemoval(w) \/ RemoveLoad(w) \/ RemoveCredential(w) \/ RemoveSave(w)
    \/ RemoveSession(w) \/ RemoveAvatar(w) \/ RemoveFails(w)

Step(w) == LoginStep(w) \/ RestoreStep(w) \/ RemoveStep(w)

Next ==
    \/ \E w \in Workers :
        \/ BeginLogin(w)
        \/ \E k \in Kinds, a \in Accounts : BeginRestore(w, k, a)
        \/ \E a \in Accounts : BeginRemove(w, a)
        \/ Step(w)
    \/ Cancel
    \/ \E a \in Accounts : SelectLoad(a)
    \/ SelectSave
    \/ SelectFails
    \/ \E a \in Accounts : Expire(a) \/ Revoke(a)
    \/ Crash

Spec == Init /\ [][Next]_vars

-----------------------------------------------------------------------------
(* Properties *)

\* commit_account saves the record before the credential and sign_out
\* deletes the credential before the record, so that, whatever fails and
\* whenever the launcher dies, no credential is left that nothing addresses
\* (flow.rs:473-477).
CredentialIsAddressed ==
    \A a \in Accounts : credentials[a] # 0 => names[a] # None

\* A removed account has no session: the restoration that was under way
\* when it was removed cannot bring one back (flow.rs:370-371).  Only the
\* removal itself is ever between the two.
SessionHasRecord ==
    \A a \in sessions :
        \/ names[a] # None
        \/ \E w \in Workers : At(w, "removeSession") /\ subject[w] = a

\* ensure_session saves a rotated credential immediately, and redeems under
\* one gate: a stored credential is dead only while its replacement is about
\* to be saved, or when it was revoked or its replacement was lost
\* (flow.rs:274-280).
RotatedCredentialIsKept ==
    \A a \in Accounts :
        credentials[a] \in dead =>
            \/ a \in excused
            \/ \E w \in Workers : At(w, "rotate") /\ subject[w] = a

\* After a removal nothing but a new sign-in recreates the account's record,
\* credential or session: not a restoration that began earlier, and not a
\* selection or a renaming that writes a document it loaded earlier
\* (ARCHITECTURE.md:1536).
SignInOfCreates(a) ==
    /\ names[a] = None /\ names'[a] # None =>
        \E w \in Workers : At(w, "commitSave") /\ subject[w] = a
    /\ credentials[a] = 0 /\ credentials'[a] # 0 =>
        \E w \in Workers : At(w, "commitCredential") /\ subject[w] = a
    /\ a \in sessions' \ sessions => names'[a] # None

OnlySignInCreates == [][\A a \in Accounts : SignInOfCreates(a)]_vars

\* No way out of a command keeps the login slot, the gate or accounts_lock:
\* each is held by the one command that is at a step inside it.  The gate is
\* entered before accounts_lock and never waited for inside it, so that the
\* two cannot wait for each other.
NothingLeaks ==
    \A w \in Workers :
        /\ loginSlot = w <=> pc[w] \in LoginSteps
        /\ gate = w <=> pc[w] \in GatedSteps \cup RemoveSteps
        /\ accountsLock = w <=> pc[w] \in LockedSteps
=============================================================================
