---------------------------- MODULE ProfileEditor ----------------------------
(***************************************************************************)
(* The profile page of a member (profile-tab.tsx) over the profile that    *)
(* profiles.service.ts stores: one form that the member types into, that a *)
(* location search fills in and that saves and reloads write over, while a *)
(* photo is uploaded beside it.  Loads of the profile share one query and  *)
(* its cache; each new access token starts another one.                    *)
(*                                                                         *)
(* Two fields stand for the form: a text, and the place, which the search  *)
(* fills in.  "" is an empty field.  The bytes of a photo are module       *)
(* ProfilePhotos, the memberships that an incomplete profile costs too.    *)
(***************************************************************************)
EXTENDS Naturals

CONSTANTS
    MaxTyping,      \* bound on what is typed
    MaxSaves, MaxUploads, MaxSearchesOfPlace,
    MaxElsewhere,   \* bound on the changes from another device
    MaxRenewals,    \* bound on the new access tokens
    MaxRefusals     \* bound on failed requests

ASSUME ProfileEditorAssumption ==
    {MaxTyping, MaxSaves, MaxUploads, MaxSearchesOfPlace, MaxElsewhere, MaxRenewals, MaxRefusals}
        \subseteq Nat

VARIABLES
    setup,          \* the page is the setup of a new member
    stored,         \* the profile in the database: text, place, photo
    form,           \* profileForm
    profilePage,    \* profileView, isLoadingProfile, the profile it has, and whether the cache answers with it
    profileQuery,   \* the shared query: where it is, what it read, and which loads wait for it
    save,           \* the request of saveProfile
    upload,         \* the photo being uploaded
    locating,       \* the search of detectProfileLocation
    ready,          \* onProfileReady was called: the setup is over
    typed,          \* what the member last put into the form (history)
    rewritten,      \* since the editor opened, a save or a load after a save or a new token wrote the form (history)
    budget

editorVars == <<setup, stored, form, profilePage, profileQuery, save, upload, locating, ready, typed, rewritten, budget>>

Entry == {"", "old", "new"}
Fields == [text : Entry, place : Entry]
Profile == [text : Entry, place : Entry, photo : BOOLEAN]
Blank == [text |-> "", place |-> "", photo |-> FALSE]

\* createProfileForm
FormOf(p) == [text |-> p.text, place |-> p.place]

\* getProfileSetupIssuesFromForm, and getProfileSetupIssues of a profile.
SetupComplete(f, photo) == photo /\ f.text # "" /\ f.place # ""
IsProfileReady(p) == SetupComplete(FormOf(p), p.photo)

IdleQuery == [at |-> "none", got |-> Blank, waiting |-> {}]
IdleSave == [at |-> "none", sends |-> FormOf(Blank), answer |-> Blank]

EditorInit ==
    /\ setup \in BOOLEAN
    /\ stored \in {Blank, [text |-> "old", place |-> "old", photo |-> TRUE]}
    /\ setup <=> stored = Blank
    /\ form = FormOf(Blank) /\ typed = FormOf(Blank)
    /\ profilePage = [view |-> IF setup THEN "edit" ELSE "overview", loading |-> TRUE, has |-> Blank, cached |-> FALSE]
    /\ profileQuery = [at |-> "sent", got |-> Blank, waiting |-> {"opening"}]
    /\ save = IdleSave /\ upload = "none" /\ locating = "none"
    /\ ready = FALSE /\ rewritten = FALSE
    /\ budget = [typing |-> MaxTyping, saves |-> MaxSaves, uploads |-> MaxUploads, searches |-> MaxSearchesOfPlace,
                 elsewhere |-> MaxElsewhere, renewals |-> MaxRenewals, refusals |-> MaxRefusals]

Spends(b) == budget[b] > 0 /\ budget' = [budget EXCEPT ![b] = @ - 1]

\* The form is on the screen.
InForm == ~ready /\ profilePage.view = "edit" /\ ~profilePage.loading

-----------------------------------------------------------------------------
(* Loads: loadProfile, by the reason for it.                                 *)

\* A load that is forced asks, or shares the query under way.
Waits(q, reason) ==
    IF q.at = "none" THEN [at |-> "sent", got |-> Blank, waiting |-> {reason}]
    ELSE [q EXCEPT !.waiting = @ \cup {reason}]

QueryReads ==
    /\ profileQuery.at = "sent"
    /\ profileQuery' = [profileQuery EXCEPT !.at = "answered", !.got = stored]
    /\ UNCHANGED <<setup, stored, form, profilePage, save, upload, locating, ready, typed, rewritten, budget>>

\* Variant: the load after an upload writes the form as well.
Syncs_AfterUpload(reasons) == reasons # {}

\* The loads that write the form: not the one after an upload.
Syncs(reasons) == reasons \cap {"opening", "saved", "renewed"} # {}

QueryArrives ==
    /\ profileQuery.at = "answered"
    /\ profilePage' = [profilePage EXCEPT !.has = profileQuery.got, !.loading = FALSE, !.cached = TRUE]
    /\ form' = IF Syncs(profileQuery.waiting) THEN FormOf(profileQuery.got) ELSE form
    /\ typed' = IF "opening" \in profileQuery.waiting THEN form' ELSE typed
    /\ rewritten' = (rewritten \/ profileQuery.waiting \cap {"saved", "renewed"} # {})
    /\ upload' = IF "uploaded" \in profileQuery.waiting THEN "none" ELSE upload
    /\ profileQuery' = IdleQuery
    /\ UNCHANGED <<setup, stored, save, locating, ready, budget>>

QueryFails ==
    /\ profileQuery.at # "none" /\ Spends("refusals")
    /\ profilePage' = [profilePage EXCEPT !.loading = FALSE]
    /\ upload' = IF "uploaded" \in profileQuery.waiting THEN "none" ELSE upload
    /\ profileQuery' = IdleQuery
    /\ UNCHANGED <<setup, stored, form, save, locating, ready, typed, rewritten>>

\* A new access token runs the effect of the opening again, whatever is on the screen:
\* the cache answers for five minutes, or the page waits for another load.
ProfileReloads ==
    /\ ~ready /\ Spends("renewals")
    /\ \/ /\ profilePage.cached
          /\ form' = FormOf(profilePage.has) /\ rewritten' = TRUE
          /\ UNCHANGED <<profilePage, profileQuery>>
       \/ /\ profilePage' = [profilePage EXCEPT !.loading = TRUE]
          /\ profileQuery' = Waits(profileQuery, "renewed")
          /\ UNCHANGED <<form, rewritten>>
    /\ UNCHANGED <<setup, stored, save, upload, locating, ready, typed>>

-----------------------------------------------------------------------------
(* The views and the form.                                                   *)

Edits ==
    /\ ~ready /\ profilePage.view = "overview" /\ ~profilePage.loading
    /\ profilePage' = [profilePage EXCEPT !.view = "edit"]
    /\ typed' = form /\ rewritten' = FALSE
    /\ UNCHANGED <<setup, stored, form, profileQuery, save, upload, locating, ready, budget>>

Previews ==
    /\ ~ready /\ profilePage.view = "overview" /\ ~profilePage.loading
    /\ profilePage' = [profilePage EXCEPT !.view = "preview"]
    /\ UNCHANGED <<setup, stored, form, profileQuery, save, upload, locating, ready, typed, rewritten, budget>>

\* closeProfileEditor, from the editor or the preview: the form is the profile's again.
ClosesEditor ==
    /\ ~setup /\ profilePage.view \in {"edit", "preview"}
    /\ form' = FormOf(profilePage.has) /\ typed' = form'
    /\ profilePage' = [profilePage EXCEPT !.view = "overview"]
    /\ UNCHANGED <<setup, stored, profileQuery, save, upload, locating, ready, rewritten, budget>>

TypesField(field, w) ==
    /\ InForm /\ form[field] # w /\ Spends("typing")
    /\ form' = [form EXCEPT ![field] = w]
    /\ typed' = form'
    /\ UNCHANGED <<setup, stored, profilePage, profileQuery, save, upload, locating, ready, rewritten>>

\* detectProfileLocation: it fills in the place, if the lookup knows one, whatever is on
\* the screen by then.
Locates ==
    /\ InForm /\ locating = "none" /\ save.at = "none" /\ Spends("searches")
    /\ locating' = "asked"
    /\ UNCHANGED <<setup, stored, form, profilePage, profileQuery, save, upload, ready, typed, rewritten>>

Located ==
    /\ locating = "asked"
    /\ \/ form' = [form EXCEPT !.place = "new"] /\ typed' = [typed EXCEPT !.place = "new"]
       \/ UNCHANGED <<form, typed>>
    /\ locating' = "none"
    /\ UNCHANGED <<setup, stored, profilePage, profileQuery, save, upload, ready, rewritten, budget>>

-----------------------------------------------------------------------------
(* saveProfile and updateMyProfile.                                          *)

Saves ==
    /\ InForm /\ save.at = "none"
    /\ setup => SetupComplete(form, profilePage.has.photo)
    /\ Spends("saves")
    /\ save' = [IdleSave EXCEPT !.at = "sent", !.sends = form]
    /\ UNCHANGED <<setup, stored, form, profilePage, profileQuery, upload, locating, ready, typed, rewritten>>

\* One transaction writes every field of the form; the answer is the row and the photo there is.
SaveWrites ==
    /\ save.at = "sent"
    /\ stored' = [stored EXCEPT !.text = save.sends.text, !.place = save.sends.place]
    /\ save' = [save EXCEPT !.at = "answered", !.answer = stored']
    /\ UNCHANGED <<setup, form, profilePage, profileQuery, upload, locating, ready, typed, rewritten, budget>>

\* The answer goes to the page, the cache and the form; a setup that is complete ends, and
\* another save makes the cache stale and loads the profile again.
SaveArrives ==
    /\ save.at = "answered"
    /\ form' = FormOf(save.answer) /\ rewritten' = TRUE
    /\ ready' = (ready \/ (setup /\ IsProfileReady(save.answer)))
    /\ profilePage' = [profilePage EXCEPT !.has = save.answer, !.cached = setup,
                                             !.view = IF setup THEN @ ELSE "overview"]
    /\ profileQuery' = IF setup THEN profileQuery ELSE Waits(profileQuery, "saved")
    /\ save' = IdleSave
    /\ UNCHANGED <<setup, stored, upload, locating, typed, budget>>

SaveIsRefused ==
    /\ save.at # "none" /\ Spends("refusals")
    /\ save' = IdleSave
    /\ UNCHANGED <<setup, stored, form, profilePage, profileQuery, upload, locating, ready, typed, rewritten>>

-----------------------------------------------------------------------------
(* uploadProfilePhoto: an upload, its registration, and a load.              *)

Uploads ==
    /\ InForm /\ upload = "none" /\ Spends("uploads")
    /\ upload' = "sent"
    /\ UNCHANGED <<setup, stored, form, profilePage, profileQuery, save, locating, ready, typed, rewritten>>

PhotoIsRegistered ==
    /\ upload = "sent"
    /\ stored' = [stored EXCEPT !.photo = TRUE]
    /\ upload' = "registered"
    /\ UNCHANGED <<setup, form, profilePage, profileQuery, save, locating, ready, typed, rewritten, budget>>

UploadArrives ==
    /\ upload = "registered"
    /\ upload' = "loading"
    /\ profilePage' = [profilePage EXCEPT !.cached = FALSE]
    /\ profileQuery' = Waits(profileQuery, "uploaded")
    /\ UNCHANGED <<setup, stored, form, save, locating, ready, typed, rewritten, budget>>

UploadIsRefused ==
    /\ upload \in {"sent", "registered"} /\ Spends("refusals")
    /\ upload' = "none"
    /\ UNCHANGED <<setup, stored, form, profilePage, profileQuery, save, locating, ready, typed, rewritten>>

\* Another device saves the text, or deletes the photo.
ChangesElsewhere ==
    /\ Spends("elsewhere")
    /\ \/ \E w \in Entry \ {stored.text} : stored' = [stored EXCEPT !.text = w]
       \/ stored.photo /\ stored' = [stored EXCEPT !.photo = FALSE]
    /\ UNCHANGED <<setup, form, profilePage, profileQuery, save, upload, locating, ready, typed, rewritten>>

-----------------------------------------------------------------------------
EditorNext ==
    \/ QueryReads \/ QueryArrives \/ QueryFails \/ ProfileReloads
    \/ Edits \/ Previews \/ ClosesEditor \/ Locates \/ Located
    \/ \E field \in {"text", "place"}, w \in Entry : TypesField(field, w)
    \/ Saves \/ SaveWrites \/ SaveArrives \/ SaveIsRefused
    \/ Uploads \/ PhotoIsRegistered \/ UploadArrives \/ UploadIsRefused
    \/ ChangesElsewhere

EditorSpec == EditorInit /\ [][EditorNext]_editorVars

-----------------------------------------------------------------------------
EditorTypeOK ==
    /\ stored \in Profile /\ form \in Fields /\ typed \in Fields
    /\ profilePage.has \in Profile /\ profilePage.view \in {"overview", "edit", "preview"}
    /\ profileQuery.at \in {"none", "sent", "answered"}
    /\ profileQuery.waiting \subseteq {"opening", "saved", "renewed", "uploaded"}
    /\ upload \in {"none", "sent", "registered", "loading"} /\ save.at \in {"none", "sent", "answered"}

\* From when the editor opens, the form holds what the member put into it until a save is
\* answered or the load of a new access token arrives: neither a photo that is uploaded
\* meanwhile, nor a load that fails, nor a change from another device takes typed words away.
TypedWordsStay ==
    profilePage.view = "edit" /\ ~profilePage.loading /\ ~rewritten => form = typed
=============================================================================
