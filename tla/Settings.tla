------------------------------ MODULE Settings ------------------------------
(***************************************************************************)
(* The Settings page (frontend/src/pages/Settings.tsx) and its endpoints   *)
(* (api/settings.py).  A page loads all settings, secrets masked, reloads  *)
(* them silently every minute, and saves the keys of one section at once.  *)
(***************************************************************************)
EXTENDS Naturals

CONSTANTS
    Pages,      \* browsers of administrators
    Section,    \* the keys one Save button sends
    Known,      \* DEFAULTS, the keys the API takes
    Secrets,    \* _SECRET_KEYS, here also _ENCRYPTED_KEYS
    Words,      \* what is typed
    Default,    \* what DEFAULTS holds
    Mask,       \* _MASK
    None        \* no row

\* What is typed is none of what stands for something else.
WordsAssumption ==
    /\ None # Default /\ None # Mask /\ Default # Mask
    /\ {None, Default, Mask} \cap Words = {}
    /\ \A w \in Words : [sealed |-> w] \notin Words \cup {None, Default, Mask}

VARIABLES
    stored,     \* [Section -> value of the row]
    page,       \* [Pages -> state of the component]
    meant       \* history: [Section -> the word the page or the script that wrote it last showed]

vars == <<stored, page, meant>>

Sealed(w) == [sealed |-> w]
Opened(value) == IF value \in {Sealed(w) : w \in Words} THEN CHOOSE w \in Words : value = Sealed(w) ELSE value

Nothing == [k \in Section |-> None]

\* load and silent are the answers on their way.  typed and overtaken are histories: what
\* was typed into the form that is shown, and what of it was typed while a silent reload
\* was on its way or is still there after a load that has failed.
Closed == [at |-> "closed", shows |-> Nothing, load |-> Nothing, silent |-> Nothing,
           dirty |-> FALSE, typed |-> Nothing, overtaken |-> {}]

Init ==
    /\ stored = Nothing
    /\ page = [a \in Pages |-> Closed]
    /\ meant = Nothing

Put(a, changed) == page' = [page EXCEPT ![a] = changed]

-----------------------------------------------------------------------------
(* Server *)

\* _ensure_defaults: INSERT OR IGNORE.
Filled(rows) == [k \in Section |-> IF k \in Known /\ rows[k] = None THEN Default ELSE rows[k]]

\* get_all_settings: a secret that is set is masked.
Answered(rows) == [k \in Section |-> IF k \in Secrets /\ rows[k] \notin {None, Default} THEN Mask ELSE rows[k]]

Kept_Never(k, value) == FALSE

\* The mask that comes back means unchanged.
Kept(k, value) == k \in Secrets /\ value = Mask

Encoded_Plain(k, value) == value

\* _store_value
Encoded(k, value) == IF k \in Secrets /\ value \in Words THEN Sealed(value) ELSE value

\* bulk_update: one unknown key refuses all of them, else one transaction writes them.
Refused(values) == \E k \in Section : values[k] # None /\ k \notin Known

Written(values) ==
    [k \in Section |-> IF values[k] = None \/ Kept(k, values[k]) THEN stored[k] ELSE Encoded(k, values[k])]

-----------------------------------------------------------------------------
(* Page *)

\* load: on opening the page and after a save, when a spinner replaces the form.
Load(a) ==
    /\ page[a].at \in {"closed", "saved"}
    /\ stored' = Filled(stored)
    /\ Put(a, [page[a] EXCEPT !.at = "loading", !.load = Answered(stored')])
    /\ UNCHANGED meant

ShowLoaded(a) ==
    /\ page[a].at = "loading"
    /\ Put(a, [Closed EXCEPT !.at = "ready", !.shows = page[a].load, !.silent = page[a].silent])
    /\ UNCHANGED <<stored, meant>>

\* finally without catch: the form stays as it was and counts as one nobody has typed into.
LoadFails(a) ==
    /\ page[a].at \in {"closed", "saved", "loading"}
    /\ Put(a, [page[a] EXCEPT !.at = "ready", !.load = Nothing, !.dirty = FALSE,
                              !.overtaken = @ \cup {k \in Section : page[a].typed[k] # None}])
    /\ UNCHANGED <<stored, meant>>

Clean_Unchecked(a) == TRUE

\* dirtyRef
Clean(a) == ~page[a].dirty

\* silentLoad, every minute: only on a page nobody has typed into.
LoadSilently(a) ==
    /\ page[a].at # "closed" /\ Clean(a) /\ page[a].silent = Nothing
    /\ stored' = Filled(stored)
    /\ Put(a, [page[a] EXCEPT !.silent = Answered(stored')])
    /\ UNCHANGED meant

\* setSettings of the answer, whatever was typed since it was asked for.
ShowSilently(a) ==
    /\ page[a].silent # Nothing
    /\ Put(a, [page[a] EXCEPT !.silent = Nothing, !.shows = page[a].silent, !.overtaken = {},
                              !.typed = [k \in Section |-> IF k \in page[a].overtaken THEN None ELSE @[k]]])
    /\ UNCHANGED <<stored, meant>>

\* Also while a save is on its way.
Type(a) ==
    /\ page[a].at \in {"ready", "saved"}
    /\ \E k \in Section, w \in Words :
          Put(a, [page[a] EXCEPT !.shows[k] = w, !.dirty = TRUE, !.typed[k] = w,
                                 !.overtaken = IF page[a].silent = Nothing THEN @ \ {k} ELSE @ \cup {k}])
    /\ UNCHANGED <<stored, meant>>

\* Save: the values the page shows, the mask for a secret nobody typed.  When the port
\* cannot be saved, or the answer is lost, nothing is loaded.
Save(a) ==
    /\ page[a].at = "ready"
    /\ LET values == page[a].shows IN
         IF Refused(values) THEN UNCHANGED <<stored, page, meant>>
         ELSE /\ stored' = Written(values)
              /\ meant' = [k \in Section |-> IF values[k] \in {Mask, None} THEN meant[k]
                                            ELSE IF values[k] \in Words THEN values[k] ELSE None]
              /\ Put(a, [page[a] EXCEPT !.at = "saved"]) \/ UNCHANGED page

\* PUT /{key}, a script's way to change one setting.
UpdateSetting ==
    /\ \E k \in Section \cap Known, w \in Words :
          stored' = [stored EXCEPT ![k] = Encoded(k, w)] /\ meant' = [meant EXCEPT ![k] = w]
    /\ UNCHANGED page

Leave(a) ==
    /\ page[a].at # "closed" /\ Put(a, Closed)
    /\ UNCHANGED <<stored, meant>>

Next ==
    \/ UpdateSetting
    \/ \E a \in Pages : \/ Load(a) \/ ShowLoaded(a) \/ LoadFails(a) \/ LoadSilently(a) \/ ShowSilently(a)
                        \/ Type(a) \/ Save(a) \/ Leave(a)

Spec == Init /\ [][Next]_vars

-----------------------------------------------------------------------------
(* Properties *)

\* The types: a row holds a secret sealed only, and no page ever shows one, sealed or not,
\* that was not typed into it.
TypeOK ==
    /\ \A k \in Section :
          stored[k] \in {None, Default} \cup (IF k \in Secrets THEN {Sealed(w) : w \in Words} ELSE Words)
    /\ meant \in [Section -> Words \cup {None}]
    /\ \A a \in Pages :
          /\ page[a].at \in {"closed", "loading", "ready", "saved"}
          /\ page[a].dirty \in BOOLEAN /\ page[a].overtaken \subseteq Section
          /\ page[a].typed \in [Section -> Words \cup {None}]
          /\ \A k \in Section :
                page[a].shows[k] \in {None, Default, Mask} \cup (IF k \in Secrets THEN {page[a].typed[k]} ELSE Words)

\* A setting is what the last page that was saved showed of it, where a secret is shown
\* as unchanged: neither the mask nor the defaults ever take its place.
MeantIsStored == \A k \in Section : meant[k] # None => Opened(stored[k]) = meant[k]

\* A save stores what was typed into the form since it was loaded, whatever reloads
\* meanwhile.  The code loses, and that alone is left out, what was typed while a silent
\* reload was on its way, and what a failed load has left in the form as if it were not
\* typed: the next silent reload takes its place.
TypedIsSaved ==
    [][\A a \in Pages : page[a].at = "ready" /\ page'[a].at = "saved" =>
         \A k \in Section : page[a].typed[k] = None \/ k \in page[a].overtaken
                            \/ Opened(stored'[k]) = page[a].typed[k]]_vars

\* The rows, what the pages show of them, and what was meant.
FormKept == TypeOK /\ MeantIsStored
=============================================================================
