------------------------------ MODULE Cosmetics ------------------------------
(***************************************************************************)
(* The skin library (cosmetics.rs): a document of presets and one image    *)
(* file each, under one lock; the skin and the capes of an account at      *)
(* Minecraft Services, read and changed by requests that may be lost; and  *)
(* the page's store (cosmetics.svelte.ts), which shows both, changes one   *)
(* thing at a time and may reload an account meanwhile.  Names of presets  *)
(* are left out: what they decide is only whether a request is refused.    *)
(***************************************************************************)
EXTENDS Naturals, Sequences, FiniteSets, SequencesExt

CONSTANTS
    None,
    Accounts, Capes,
    Images,         \* what an image file may hold
    Shape,          \* what each of them is, as a file
    Ids,            \* the identities that are generated for presets
    MaxPresets,     \* stands for 64
    MaxTasks, MaxLoads,
    MaxUpsets       \* failures, changes made elsewhere and restarts

VARIABLES
    document,   \* presets.json: whether it can be read, and its records
    images,     \* the image file of each identity
    issued,     \* the identities that were generated so far, and for which image
    profile,    \* of each account, at the provider
    page,       \* the page's store
    loads,      \* the requests for an account's profile under way
    listing,    \* the first listing of the library
    job,        \* the change the page is busy with
    bounds,     \* tasks and upsets so far
    was,        \* every state that an account has been in
    asked,      \* the skins chosen for an account, or given to it elsewhere
    touched     \* the images changed by others

libraryVars == <<document, images, issued, touched>>
remoteVars == <<profile, was, asked>>
cosmeticsVars == <<libraryVars, remoteVars, page, loads, listing, job, bounds>>

Models == {"classic", "slim"}

Idle == [kind |-> "none", at |-> "idle", account |-> None, id |-> None,
         model |-> None, image |-> None, cape |-> None, state |-> None, serial |-> 0]

Upset == bounds.upsets < MaxUpsets /\ bounds' = [bounds EXCEPT !.upsets = @ + 1]

\* validate_png_chunks: the header first, an image, and the end at the end.
WellFormed(chunks) ==
    /\ chunks # <<>> /\ Head(chunks) = "header"
    /\ "corrupt" \notin ToSet(chunks)
    /\ \E n \in 1..Len(chunks) :
        /\ SelectInSeq(chunks, LAMBDA c : c = "end") = n /\ n = Len(chunks)
        /\ "image" \in ToSet(SubSeq(chunks, 1, n))

\* validate_png
ValidSkin(image) ==
    /\ Shape[image].small /\ WellFormed(Shape[image].chunks)
    /\ Shape[image].size \in {"64x64", "64x32"} /\ Shape[image].still

\* normalize: what the page is told of a profile.
Told(account, p) ==
    [account |-> account, model |-> p.model, capes |-> p.capes, cape |-> p.cape]

State(account) == Told(account, profile[account])

Record(id) == {p \in document.presets : p.id = id}

----------------------------------------------------------------------------
\* The page.

Fails == job' = [job EXCEPT !.at = "failed"]
Goes(at) == job' = [job EXCEPT !.at = at]

Free == ~page.busy /\ bounds.tasks < MaxTasks
Begins(task) ==
    /\ job' = task
    /\ page' = [page EXCEPT !.busy = TRUE]
    /\ bounds' = [bounds EXCEPT !.tasks = @ + 1]
    /\ UNCHANGED <<libraryVars, profile, was, loads, listing>>

ImportFile(image, model) ==
    /\ Free /\ Shape[image].small
    /\ Begins([Idle EXCEPT !.kind = "import", !.at = "image", !.image = image, !.model = model])
    /\ UNCHANGED asked

SaveCurrent ==
    /\ Free /\ page.account # None /\ ~page.offline
    /\ Begins([Idle EXCEPT !.kind = "save", !.at = "session", !.account = page.account])
    /\ UNCHANGED asked

SetModel(id, model) ==
    /\ Free /\ \E p \in page.listed : p.id = id
    /\ Begins([Idle EXCEPT !.kind = "model", !.at = "record", !.id = id, !.model = model])
    /\ UNCHANGED asked

RemovePreset(id) ==
    /\ Free /\ \E p \in page.listed : p.id = id
    /\ Begins([Idle EXCEPT !.kind = "remove", !.at = "record", !.id = id])
    /\ UNCHANGED asked

\* The model is the one that is listed.
Apply(p) ==
    /\ Free /\ p \in page.listed /\ page.account # None /\ ~page.offline
    /\ Begins([Idle EXCEPT !.kind = "apply", !.at = "session",
                           !.account = page.account, !.id = p.id, !.model = p.model])
    /\ asked' = [asked EXCEPT ![page.account] = @ \cup {<<p.image, p.model>>}]

ChangeCape(cape) ==
    /\ Free /\ page.account # None /\ ~page.offline /\ page.remote # {}
    /\ \A shown \in page.remote :
        IF cape = None THEN shown.cape # None ELSE cape \in shown.capes \ {shown.cape}
    /\ Begins([Idle EXCEPT !.kind = "cape", !.at = "session",
                           !.account = page.account, !.cape = cape])
    /\ UNCHANGED asked

----------------------------------------------------------------------------
\* load: another account, or the same once more.

Loads(account) ==
    /\ page.serial < MaxLoads
    /\ loads' = IF account = None THEN loads
                ELSE loads \cup {[serial |-> page.serial + 1, account |-> account,
                                  at |-> "asked", state |-> {}]}

Shown(account) ==
    [page EXCEPT !.serial = @ + 1, !.account = account, !.offline = FALSE,
                 !.loading = (account # None),
                 !.remote = IF page.account = account THEN @ ELSE {}]

\* The widgets follow the account chosen in the launcher.
ChooseAccount(account) ==
    /\ \/ account # page.account
       \/ account # None /\ page.remote = {} /\ ~page.loading /\ ~page.offline
    /\ Loads(account)
    /\ page' = Shown(account)
    /\ UNCHANGED <<libraryVars, remoteVars, listing, job, bounds>>

Refresh ==
    /\ page.account # None /\ ~page.loading /\ ~page.busy
    /\ Loads(page.account)
    /\ page' = Shown(page.account)
    /\ UNCHANGED <<libraryVars, remoteVars, listing, job, bounds>>

\* fetch
LoadReads(l) ==
    /\ l.at = "asked"
    /\ \/ /\ loads' = (loads \ {l}) \cup {[l EXCEPT !.at = "read", !.state = {State(l.account)}]}
          /\ UNCHANGED bounds
       \/ Upset /\ loads' = (loads \ {l}) \cup {[l EXCEPT !.at = "read"]}
    /\ UNCHANGED <<libraryVars, remoteVars, page, listing, job>>

\* Mutant: an answer is shown whichever load it is of.
ShowsAny(l) == TRUE

\* An answer is shown when no load began after it.
Shows(l) == l.serial = page.serial

LoadAnswers(l) ==
    /\ l.at = "read"
    /\ loads' = loads \ {l}
    /\ page' = IF ~Shows(l) THEN page
               ELSE [page EXCEPT !.loading = FALSE,
                                 !.remote = IF l.state = {} THEN @ ELSE l.state,
                                 !.offline = (l.state = {})]
    /\ UNCHANGED <<libraryVars, remoteVars, listing, job, bounds>>

\* loadPresets, until it succeeded once: the presets are read, and later shown.
ListReads ==
    /\ listing.at = "none" /\ document.readable
    /\ listing' = [at |-> "read", presets |-> document.presets]
    /\ UNCHANGED <<libraryVars, remoteVars, page, loads, job, bounds>>

ListAnswers ==
    /\ listing.at = "read"
    /\ page' = [page EXCEPT !.listed = listing.presets]
    /\ listing' = [at |-> "done", presets |-> {}]
    /\ UNCHANGED <<libraryVars, remoteVars, loads, job, bounds>>

----------------------------------------------------------------------------
\* The library's commands hold its lock from the reading of the document to
\* the last write.

Found(image, model) == {p \in document.presets : p.image = image /\ p.model = model}

\* import_preset, to the image file, under an identity that is new (new_v4).
ImportImage ==
    /\ job.at = "image"
    /\ IF ~ValidSkin(job.image) \/ ~document.readable
          \/ Cardinality(document.presets) >= MaxPresets
       THEN Fails /\ UNCHANGED <<images, issued, bounds>>
       ELSE IF Found(job.image, job.model) # {}
       THEN Goes("list") /\ UNCHANGED <<images, issued, bounds>>
       ELSE \/ \E id \in Ids :
                  /\ \A pair \in issued : pair[1] # id
                  /\ issued' = issued \cup {<<id, job.image>>}
                  /\ images' = [images EXCEPT ![id] = job.image]
                  /\ job' = [job EXCEPT !.at = "record", !.id = id]
                  /\ UNCHANGED bounds
            \/ Upset /\ Fails /\ UNCHANGED <<images, issued>>
    /\ UNCHANGED <<document, touched, remoteVars, page, loads, listing>>

Writing == job.at = "record" /\ job.kind \in {"import", "save"}

\* save_document, over whatever the document has become since it was read;
\* when it fails the image goes again, if it can.
ImportRecord ==
    /\ Writing
    /\ \/ /\ document' = [readable |-> TRUE, presets |-> document.presets
                  \cup {[id |-> job.id, model |-> job.model, image |-> job.image]}]
          /\ Goes("list") /\ UNCHANGED <<images, bounds>>
       \/ /\ Upset /\ Fails /\ UNCHANGED document
          /\ images' \in {images, [images EXCEPT ![job.id] = None]}
    /\ UNCHANGED <<issued, touched, remoteVars, page, loads, listing>>

\* update_preset; its answer lists the presets.
ModelRecord ==
    /\ job.at = "record" /\ job.kind = "model"
    /\ \/ /\ document.readable /\ Record(job.id) # {}
          /\ document' = [document EXCEPT !.presets =
                (@ \ Record(job.id)) \cup {[p EXCEPT !.model = job.model] : p \in Record(job.id)}]
          /\ job' = [job EXCEPT !.at = "listed", !.state = document'.presets]
          /\ UNCHANGED bounds
       \/ /\ ~document.readable \/ Record(job.id) = {}
          /\ Fails /\ UNCHANGED <<document, bounds>>
       \/ Upset /\ Fails /\ UNCHANGED document
    /\ UNCHANGED <<images, issued, touched, remoteVars, page, loads, listing>>

\* The image file is still the one that was stored.
Unaltered(p) == images[p.id] = p.image

\* remove_preset: the record, then the file.
RemoveRecord ==
    /\ job.at = "record" /\ job.kind = "remove"
    /\ \/ /\ document.readable
          /\ \E p \in Record(job.id) :
                /\ Unaltered(p)
                /\ document' = [document EXCEPT !.presets = @ \ {p}]
          /\ Goes("file") /\ UNCHANGED bounds
       \/ /\ document.readable => \A p \in Record(job.id) : ~Unaltered(p)
          /\ Fails /\ UNCHANGED <<document, bounds>>
       \/ Upset /\ Fails /\ UNCHANGED document
    /\ UNCHANGED <<images, issued, touched, remoteVars, page, loads, listing>>

RemoveFile ==
    /\ job.at = "file"
    /\ \/ images' = [images EXCEPT ![job.id] = None] /\ Goes("list") /\ UNCHANGED bounds
       \/ Upset /\ Fails /\ UNCHANGED images
    /\ UNCHANGED <<document, issued, touched, remoteVars, page, loads, listing>>

\* list_presets, after an import or a removal.
List ==
    /\ job.at = "list"
    /\ IF document.readable
       THEN job' = [job EXCEPT !.at = "listed", !.state = document.presets]
       ELSE Fails
    /\ UNCHANGED <<libraryVars, remoteVars, page, loads, listing, bounds>>

Listed ==
    /\ job.at = "listed"
    /\ page' = [page EXCEPT !.listed = job.state, !.busy = FALSE]
    /\ job' = Idle
    /\ UNCHANGED <<libraryVars, remoteVars, loads, listing, bounds>>

----------------------------------------------------------------------------
\* The commands about an account.

\* cosmetic_session
Session ==
    /\ job.at = "session"
    /\ \/ /\ Goes(CASE job.kind = "save" -> "current" [] job.kind = "apply" -> "upload"
                    [] job.kind = "cape" -> IF job.cape = None THEN "send" ELSE "before")
          /\ UNCHANGED bounds
       \/ Upset /\ Fails
    /\ UNCHANGED <<libraryVars, remoteVars, page, loads, listing>>

\* save_current_skin: the profile, and the image it names.
ReadCurrent ==
    /\ job.at = "current"
    /\ \/ /\ profile[job.account].skin # None
          /\ job' = [job EXCEPT !.at = "image", !.image = profile[job.account].skin,
                                !.model = profile[job.account].model]
          /\ UNCHANGED bounds
       \/ profile[job.account].skin = None /\ Fails /\ UNCHANGED bounds
       \/ Upset /\ Fails
    /\ UNCHANGED <<libraryVars, remoteVars, page, loads, listing>>

\* preset_for_upload
ReadPreset ==
    /\ job.at = "upload"
    /\ \/ /\ document.readable
          /\ \E p \in Record(job.id) :
                Unaltered(p) /\ job' = [job EXCEPT !.at = "send", !.image = p.image]
       \/ /\ document.readable => \A p \in Record(job.id) : ~Unaltered(p)
          /\ Fails
    /\ UNCHANGED <<libraryVars, remoteVars, page, loads, listing, bounds>>

\* select_cape: the cape must still be the account's.
CheckOwned ==
    /\ job.at = "before"
    /\ \/ /\ UNCHANGED bounds
          /\ IF job.cape \notin profile[job.account].capes THEN Fails
             ELSE IF profile[job.account].cape = job.cape
             THEN job' = [job EXCEPT !.at = "answered", !.state = {State(job.account)}]
             ELSE Goes("send")
       \/ Upset /\ Fails
    /\ UNCHANGED <<libraryVars, remoteVars, page, loads, listing>>

Becomes(account, p) ==
    /\ profile' = [profile EXCEPT ![account] = p]
    /\ was' = [was EXCEPT ![account] = @ \cup {Told(account, p)}]

\* request: what is granted is done; it may be refused, or its answer lost.
Requests(granted, p) ==
    \/ /\ granted /\ Becomes(job.account, p)
       /\ \/ Goes("confirm") /\ UNCHANGED bounds
          \/ Upset /\ Fails
    \/ ~granted /\ Fails /\ UNCHANGED <<profile, was, bounds>>
    \/ Upset /\ Fails /\ UNCHANGED <<profile, was>>

\* apply_skin
SendSkin ==
    /\ job.at = "send" /\ job.kind = "apply"
    /\ Requests(TRUE, [profile[job.account] EXCEPT !.skin = job.image, !.model = job.model])
    /\ UNCHANGED <<libraryVars, asked, page, loads, listing>>

\* select_cape and disable_cape
SendCape ==
    /\ job.at = "send" /\ job.kind = "cape"
    /\ Requests(job.cape \in {None} \cup profile[job.account].capes,
                [profile[job.account] EXCEPT !.cape = job.cape])
    /\ UNCHANGED <<libraryVars, asked, page, loads, listing>>

\* The profile is read again, and must say so.
Confirm ==
    LET now == profile[job.account]
    IN  /\ job.at = "confirm"
        /\ \/ /\ UNCHANGED bounds
              /\ IF CASE job.kind = "apply" -> now.model = job.model
                      [] job.kind = "cape" -> now.cape = job.cape
                 THEN job' = [job EXCEPT !.at = "answered", !.state = {State(job.account)}]
                 ELSE Fails
           \/ Upset /\ Fails
        /\ UNCHANGED <<libraryVars, remoteVars, page, loads, listing>>

Answered ==
    /\ job.at = "answered"
    /\ page' = [page EXCEPT !.busy = FALSE,
                            !.remote = IF page.account = job.account THEN job.state ELSE @]
    /\ job' = Idle
    /\ UNCHANGED <<libraryVars, remoteVars, loads, listing, bounds>>

\* A failed change of the account shown loads it again before the page is free.
Failed ==
    /\ job.at = "failed"
    /\ IF job.kind \in {"apply", "cape"} /\ page.account = job.account
       THEN /\ Loads(page.account)
            /\ page' = Shown(page.account)
            /\ job' = [job EXCEPT !.at = "reload", !.serial = page.serial + 1]
       ELSE /\ page' = [page EXCEPT !.busy = FALSE]
            /\ job' = Idle /\ UNCHANGED loads
    /\ UNCHANGED <<libraryVars, remoteVars, listing, bounds>>

Reloaded ==
    /\ job.at = "reload" /\ \A l \in loads : l.serial # job.serial
    /\ page' = [page EXCEPT !.busy = FALSE]
    /\ job' = Idle
    /\ UNCHANGED <<libraryVars, remoteVars, loads, listing, bounds>>

----------------------------------------------------------------------------
\* What happens elsewhere.

\* The player changes the profile on the website, or a cape is taken back.
ProfileChanges(account) ==
    /\ Upset
    /\ \/ \E image \in Images, model \in Models :
            /\ ValidSkin(image)
            /\ Becomes(account, [profile[account] EXCEPT !.skin = image, !.model = model])
            /\ asked' = [asked EXCEPT ![account] = @ \cup {<<image, model>>}]
       \/ \E cape \in profile[account].capes :
            /\ Becomes(account, [profile[account] EXCEPT !.capes = @ \ {cape},
                                 !.cape = IF @ = cape THEN None ELSE @])
            /\ UNCHANGED asked
    /\ UNCHANGED <<libraryVars, page, loads, listing, job>>

\* Somebody edits an image of the library, or its document.
FileChanges ==
    /\ Upset
    /\ \/ \E id \in Ids, image \in Images \cup {None} :
            /\ image # images[id] /\ images[id] # None
            /\ images' = [images EXCEPT ![id] = image]
            /\ touched' = touched \cup {id} /\ UNCHANGED document
       \/ /\ document' = [document EXCEPT !.readable = FALSE]
          /\ UNCHANGED <<images, touched>>
    /\ UNCHANGED <<issued, remoteVars, page, loads, listing, job>>

\* The launcher is gone and started again.
FreshPage == [account |-> None, remote |-> {}, loading |-> FALSE, offline |-> FALSE,
              busy |-> FALSE, serial |-> 0, listed |-> {}]

Restart ==
    /\ Upset
    /\ page' = [FreshPage EXCEPT !.serial = page.serial]
    /\ loads' = {} /\ listing' = [at |-> "none", presets |-> {}] /\ job' = Idle
    /\ UNCHANGED <<libraryVars, remoteVars>>

----------------------------------------------------------------------------
CosmeticsInit ==
    /\ document = [readable |-> TRUE, presets |-> {}]
    /\ images = [id \in Ids |-> None] /\ issued = {} /\ touched = {}
    /\ profile \in [Accounts ->
          {[skin |-> None, model |-> None, capes |-> Capes, cape |-> None]}]
    /\ was = [account \in Accounts |-> {State(account)}]
    /\ asked = [account \in Accounts |-> {<<None, None>>}]
    /\ page = FreshPage /\ loads = {} /\ job = Idle
    /\ listing = [at |-> "none", presets |-> {}]
    /\ bounds = [tasks |-> 0, upsets |-> 0]

CosmeticsNext ==
    \/ \E image \in Images, model \in Models : ImportFile(image, model)
    \/ \E id \in Ids, model \in Models : SetModel(id, model)
    \/ \E id \in Ids : RemovePreset(id)
    \/ \E p \in page.listed : Apply(p)
    \/ \E cape \in Capes \cup {None} : ChangeCape(cape)
    \/ \E account \in Accounts \cup {None} : ChooseAccount(account)
    \/ SaveCurrent \/ Refresh
    \/ \E l \in loads : LoadReads(l) \/ LoadAnswers(l)
    \/ ListReads \/ ListAnswers
    \/ ImportImage \/ ImportRecord \/ ModelRecord \/ RemoveRecord \/ RemoveFile
    \/ List \/ Listed
    \/ Session \/ ReadCurrent \/ ReadPreset \/ CheckOwned \/ SendSkin \/ SendCape \/ Confirm
    \/ Answered \/ Failed \/ Reloaded
    \/ \E account \in Accounts : ProfileChanges(account)
    \/ FileChanges \/ Restart

----------------------------------------------------------------------------
\* Every preset has its image, whatever failed and wherever the launcher
\* ended (import_preset, remove_preset); only others can change that.
LibraryIsWhole ==
    \A p \in document.presets : p.id \notin touched => Unaltered(p)

\* What the page shows of an account is of the account chosen, and was so
\* once (load, apply and changeCape with the account changed meanwhile).
ShownIsTrue ==
    \A shown \in page.remote : page.account # None /\ shown \in was[page.account]

\* An account wears a skin that was chosen for it, with the model chosen.
WornIsChosen ==
    \A account \in Accounts :
        <<profile[account].skin, profile[account].model>> \in asked[account]
=============================================================================
