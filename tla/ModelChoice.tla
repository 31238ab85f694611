----------------------------- MODULE ModelChoice -----------------------------
(***************************************************************************)
(* Which provider a job calls, with which key, model and host.  Settings   *)
(* hold one global choice and a key per provider; a subject may have a     *)
(* default of its own, and a template may be pinned.  A job resolves the   *)
(* three while the teacher changes them; the template list shows what a    *)
(* job would use, by code of its own.                                      *)
(*                                                                         *)
(* Sources: providers/settings.py, web/routers/settings.py,                *)
(* web/services/subject_models.py, web/services/assignments.py (the model  *)
(* fields), web/services/setup.py, web/routers/setup.py, the head of       *)
(* worker/mark_job.py, and of the single-page application Settings.tsx,    *)
(* SubjectModels.tsx, AssignmentEditor.tsx and ModelPicker.tsx.            *)
(*                                                                         *)
(* A base URL or a model id is known by the provider it was entered for.   *)
(* All three screens give a newly chosen provider its default model, and   *)
(* leave the reading model as it is: it may be saved with another one.     *)
(* Left out: thresholds, time zones, retention, sessions; the Telegram     *)
(* fields are in NotifyOutbox, the rate limits in CallLimits.              *)
(***************************************************************************)
EXTENDS Naturals, FiniteSets

CONSTANTS
    None,
    Provider, Subject, Template, Client, Worker,
    Picks,         \* what the teacher picks: a provider, a model of it, and what its reading field says then
    Default,       \* the provider the settings row is seeded with
    SubjectOf,     \* [Template -> Subject]
    EnvPassword,   \* was the site deployed with TEACHER_PASSWORD set?
    MaxRestarts

Optional(S) == {{}} \cup {{x} : x \in S}
Picked == [provider : Provider, model : Provider, extractor : Optional(Provider)]

\* The picker gives a newly chosen provider its default model; a model that is typed is called its own.
ASSUME ChoiceAssumption ==
    /\ None \notin Provider \cup Template
    /\ Default \in Provider
    /\ Picks \subseteq Picked /\ \A c \in Picks : c.model = c.provider
    /\ SubjectOf \in [Template -> Subject]
    /\ EnvPassword \in BOOLEAN /\ MaxRestarts \in Nat

VARIABLES
    settings,   \* the settings row: provider, model, extractor model and base URL
    key,        \* provider_keys: none, one that decrypts, or one of an earlier SECRET_KEY
    default,    \* subject_models: {} or what was picked
    pin,        \* assignment_templates' provider, model and extractor model: {} (Auto) or what was picked
    password,   \* how the teacher signs in: not at all yet, by the variable, by the stored hash
    request,    \* [Client -> a request that has made its checks and still has to write]
    call,       \* [Worker -> what a job has read, and the call it makes]
    forced,     \* history: providers whose key went by force and was not saved again
    restarts

choiceVars == <<settings, key, default, pin, password, request, call, forced, restarts>>

Choice  == [provider : Provider, model : Provider, extractor : Optional(Provider), base : Optional(Provider)]
Request == [op : {"idle", "delete", "subject", "template"}, p : Optional(Provider),
            picked : Optional(Picked), of : Subject \cup Template \cup {None}]
Call    == [st : {"idle", "read", "loaded", "called"}, t : Template \cup {None},
            pin : Optional(Picked), s : Choice, key : Optional(Provider)]

ChoiceTypeOK ==
    /\ settings \in Choice
    /\ key \in [Provider -> {"none", "sealed", "foreign"}]
    /\ default \in [Subject -> Optional(Picked)]
    /\ pin \in [Template -> Optional(Picked)]
    /\ password \in {"none", "variable", "website"}
    /\ request \in [Client -> Request]
    /\ call \in [Worker -> Call]
    /\ forced \subseteq Provider
    /\ restarts \in 0 .. MaxRestarts

\* What default_settings() holds of the choice.
Plain(p)  == [provider |-> p, model |-> p, extractor |-> {}, base |-> {}]
NoRequest == [op |-> "idle", p |-> {}, picked |-> {}, of |-> None]
NoCall    == [st |-> "idle", t |-> None, pin |-> {}, s |-> Plain(Default), key |-> {}]

\* ensure_seeded() has run.
ChoiceInit ==
    /\ settings = Plain(Default)
    /\ key = [p \in Provider |-> "none"]
    /\ default = [s \in Subject |-> {}]
    /\ pin = [t \in Template |-> {}]
    /\ password = IF EnvPassword THEN "variable" ELSE "none"
    /\ request = [r \in Client |-> NoRequest]
    /\ call = [w \in Worker |-> NoCall]
    /\ forced = {} /\ restarts = 0

has_key_for(p) == key[p] # "none"
key_for(p)     == IF key[p] = "sealed" THEN {p} ELSE {}
Only(S)         == CHOOSE x \in S : TRUE
Saved(p)       == key' = [key EXCEPT ![p] = "sealed"] /\ forced' = forced \ {p}
Asks(r, q)     == request' = [request EXCEPT ![r] = q]
Free(r)        == request[r].op = "idle"
SignedIn       == password # "none"

-----------------------------------------------------------------------------
(* What a job runs with, and what the list shows *)

\* _overlay(): both models are what was picked, none of them the settings'; their host stays only
\* with their provider.
OverlayKeepsReader(s, c) ==  \* mutant: a blank reading model leaves that of the settings
    [provider |-> c.provider, model |-> c.model,
     extractor |-> IF c.extractor = {} THEN s.extractor ELSE c.extractor,
     base |-> IF c.provider = s.provider THEN s.base ELSE {}]
Overlay(s, c) ==
    [provider |-> c.provider, model |-> c.model, extractor |-> c.extractor,
     base |-> IF c.provider = s.provider THEN s.base ELSE {}]

\* for_template(), after load() gave s: the pin, else the subject's default if its provider has a
\* key row, else the settings.
SkipsForeign(t, pinned) ==  \* mutant: a default whose key does not decrypt is skipped too
    IF t = None THEN {}
    ELSE IF pinned # {} THEN pinned
    ELSE {c \in default[SubjectOf[t]] : key_for(c.provider) # {}}
LaidOver(t, pinned) ==
    IF t = None THEN {}
    ELSE IF pinned # {} THEN pinned
    ELSE {c \in default[SubjectOf[t]] : has_key_for(c.provider)}
for_template(s, t, pinned) ==
    LET over == LaidOver(t, pinned) IN IF over = {} THEN s ELSE Overlay(s, Only(over))

\* _effective_models_by_subject() and _row_to_dict(): the model the template list shows.
Shown(c) == [provider |-> c.provider, model |-> c.model, extractor |-> c.extractor]
EffectiveBySubject(sub) ==
    IF \E c \in default[sub] : has_key_for(c.provider)
    THEN Shown(Only(default[sub])) ELSE Shown(settings)
EffectiveModel(t) ==
    IF pin[t] # {} THEN Shown(Only(pin[t])) ELSE EffectiveBySubject(SubjectOf[t])

-----------------------------------------------------------------------------
(* Setting up and settings *)

\* run_setup(): only while there is no password; everything the row held that the wizard does not
\* ask for stays as it was.
Setup ==
    /\ password = "none"
    /\ password' = "website"
    /\ \/ UNCHANGED <<settings, key, forced>>
       \/ \E p \in Provider :
            /\ settings' = [settings EXCEPT !.provider = p, !.model = p]
            /\ Saved(p) \/ UNCHANGED <<key, forced>>
    /\ UNCHANGED <<default, pin, request, call, restarts>>

\* put_settings(): what was picked, its base URL (which a change of provider empties), perhaps its key.
PutSettings(r) ==
    /\ SignedIn /\ Free(r)
    /\ \E c \in Picks : \E base \in {{}, {c.provider}} :
         /\ settings' = [provider |-> c.provider, model |-> c.model, extractor |-> c.extractor, base |-> base]
         /\ Saved(c.provider) \/ UNCHANGED <<key, forced>>
    /\ UNCHANGED <<default, pin, password, request, call, restarts>>

\* delete_key(): refused while a template or a subject is set to the provider, unless forced.
OfProvider(row, p) == \E c \in row : c.provider = p
InTemplates(p) == \E t \in Template : OfProvider(pin[t], p)  \* mutant: the defaults are not counted
InUse(p)   == (\E t \in Template : OfProvider(pin[t], p)) \/ (\E s \in Subject : OfProvider(default[s], p))
DeleteCheck(r, p, force) ==
    /\ SignedIn /\ Free(r) /\ has_key_for(p)
    /\ InUse(p) => force
    /\ forced' = IF force THEN forced \cup {p} ELSE forced
    /\ Asks(r, [NoRequest EXCEPT !.op = "delete", !.p = {p}])
    /\ UNCHANGED <<settings, key, default, pin, password, call, restarts>>
DeleteKey(r) ==
    /\ request[r].op = "delete"
    /\ key' = [p \in Provider |-> IF p \in request[r].p THEN "none" ELSE key[p]]
    /\ Asks(r, NoRequest)
    /\ UNCHANGED <<settings, default, pin, password, call, forced, restarts>>

\* set_subject_model(): the provider must have a key; clear_subject_model().
SubjectCheck(r, s, c) ==
    /\ SignedIn /\ Free(r) /\ has_key_for(c.provider)
    /\ Asks(r, [NoRequest EXCEPT !.op = "subject", !.picked = {c}, !.of = s])
    /\ UNCHANGED <<settings, key, default, pin, password, call, forced, restarts>>
SetSubject(r) ==
    /\ request[r].op = "subject"
    /\ default' = [default EXCEPT ![request[r].of] = request[r].picked]
    /\ Asks(r, NoRequest)
    /\ UNCHANGED <<settings, key, pin, password, call, forced, restarts>>
ClearSubject(r, s) ==
    /\ SignedIn /\ Free(r) /\ default[s] # {}
    /\ default' = [default EXCEPT ![s] = {}]
    /\ UNCHANGED <<settings, key, pin, password, request, call, forced, restarts>>

\* _validate() and the write of create_template() or update_template().
TemplateCheck(r, t, chosen) ==
    /\ SignedIn /\ Free(r)
    /\ \A c \in chosen : has_key_for(c.provider)
    /\ Asks(r, [NoRequest EXCEPT !.op = "template", !.picked = chosen, !.of = t])
    /\ UNCHANGED <<settings, key, default, pin, password, call, forced, restarts>>
PinTemplate(r) ==
    /\ request[r].op = "template"
    /\ pin' = [pin EXCEPT ![request[r].of] = request[r].picked]
    /\ Asks(r, NoRequest)
    /\ UNCHANGED <<settings, key, default, password, call, forced, restarts>>

\* duplicate_template() copies the choice as it is.
CopyPin(r, t, u) ==
    /\ SignedIn /\ Free(r) /\ t # u
    /\ pin' = [pin EXCEPT ![u] = pin[t]]
    /\ UNCHANGED <<settings, key, default, password, request, call, forced, restarts>>

\* A restart with another SECRET_KEY, or without TEACHER_PASSWORD.  Jobs and requests are gone.
Restart ==
    /\ restarts < MaxRestarts /\ restarts' = restarts + 1
    /\ \/ key' = [p \in Provider |-> IF key[p] = "none" THEN "none" ELSE "foreign"] /\ UNCHANGED password
       \/ password = "variable" /\ password' = "none" /\ UNCHANGED key
    /\ request' = [r \in Client |-> NoRequest]
    /\ call' = [w \in Worker |-> NoCall]
    /\ UNCHANGED <<settings, default, pin, forced>>

-----------------------------------------------------------------------------
(* A job *)

\* get_template(), load(), and the rest of for_template(), each at its own time.
JobReads(w, t) ==
    /\ call[w].st = "idle"
    /\ call' = [call EXCEPT ![w] = [NoCall EXCEPT !.st = "read", !.t = t, !.pin = IF t = None THEN {} ELSE pin[t]]]
    /\ UNCHANGED <<settings, key, default, pin, password, request, forced, restarts>>
JobLoads(w) ==
    /\ call[w].st = "read"
    /\ call' = [call EXCEPT ![w].st = "loaded", ![w].s = settings, ![w].key = key_for(settings.provider)]
    /\ UNCHANGED <<settings, key, default, pin, password, request, forced, restarts>>

\* The settings' own key when nothing is laid over them; without a key the job fails.
JobCalls(w) ==
    /\ call[w].st = "loaded"
    /\ LET c == call[w]  s == for_template(c.s, c.t, c.pin)
           k == IF LaidOver(c.t, c.pin) = {} THEN c.key ELSE key_for(s.provider)
       IN call' = [call EXCEPT ![w] =
              IF k = {} THEN NoCall ELSE [NoCall EXCEPT !.st = "called", !.s = s, !.key = k]]
    /\ UNCHANGED <<settings, key, default, pin, password, request, forced, restarts>>
JobEnds(w) ==
    /\ call[w].st = "called"
    /\ call' = [call EXCEPT ![w] = NoCall]
    /\ UNCHANGED <<settings, key, default, pin, password, request, forced, restarts>>

ChoiceNext ==
    \/ Setup \/ Restart
    \/ \E r \in Client, p \in Provider, force \in BOOLEAN : DeleteCheck(r, p, force)
    \/ \E r \in Client, s \in Subject, c \in Picks : SubjectCheck(r, s, c)
    \/ \E r \in Client, t \in Template, chosen \in Optional(Picks) : TemplateCheck(r, t, chosen)
    \/ \E r \in Client : PutSettings(r) \/ DeleteKey(r) \/ SetSubject(r) \/ PinTemplate(r)
    \/ \E r \in Client, s \in Subject : ClearSubject(r, s)
    \/ \E r \in Client, t, u \in Template : CopyPin(r, t, u)
    \/ \E w \in Worker, t \in Template \cup {None} : JobReads(w, t)
    \/ \E w \in Worker : JobLoads(w) \/ JobCalls(w) \/ JobEnds(w)

ChoiceSpec == ChoiceInit /\ [][ChoiceNext]_choiceVars

-----------------------------------------------------------------------------
(* Properties *)

\* A call carries the key, the model and the base URL of the provider it names, whatever changed between
\* the reads of the job, and its models are one choice that somebody made, whole: a reading model is never
\* the settings' with a pin, nor a pin's with a default. (What the picker left in the reading field when its
\* provider changed is a choice too, and runs as it was saved.)
OneProvider ==
    \A w \in Worker : call[w].st = "called" =>
        LET c == call[w].s
        IN  /\ call[w].key \cup {c.model} \cup c.base = {c.provider}
            /\ Shown(c) \in Picks \cup {Shown(Plain(p)) : p \in Provider}

\* The models the template list shows, for marking and for reading, are those a job would run with, and the
\* two never disagree: also for a default whose key is gone or no longer decrypts.
ShownIsRun ==
    \A t \in Template : EffectiveModel(t) = Shown(for_template(settings, t, pin[t]))

\* A template or a subject is set to a provider without a key only where the key was taken by force.
ChosenHasKey ==
    /\ \A t \in Template : \A c \in pin[t] : has_key_for(c.provider) \/ c.provider \in forced
    /\ \A s \in Subject : \A c \in default[s] : has_key_for(c.provider) \/ c.provider \in forced

\* What the teacher chose is what is shown, what is run, and what there is a key for.
ChoiceIsShown == ShownIsRun /\ ChosenHasKey
=============================================================================
