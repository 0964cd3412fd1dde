------------------------------ MODULE Settings ------------------------------
(***************************************************************************)
(* The two configuration pages of an administrator: the table of SLA       *)
(* thresholds, saved row by row, and the mail account with the name of the *)
(* VP.  Other administrators save meanwhile; calls and answers get lost.   *)
(***************************************************************************)
EXTENDS Naturals, Sequences, FiniteSets

CONSTANTS Stations,    \* the rows (flow, status) of the SLA table are 1 .. Stations
          MostDays,    \* clamp: at most 30
          Host,        \* mail hosts they may type
          Secret,      \* passwords an administrator may type
          Blank,       \* a field left empty
          EnvHost, EnvPass, \* the SMTP_* environment
          MaxTypes,    \* bound: values typed, and calls of other administrators
          MaxBad       \* bound: calls or answers that are lost

ASSUME SettingsAssumption == {Stations, MostDays, MaxTypes, MaxBad} \subseteq Nat

VARIABLES pane,      \* the page that is open
          slaDays,   \* sla_config
          sla,       \* SlaConfigAdmin: rows, edits, queue of its save, error, moved
          tables,    \* its loads: "page" and "save"
          smtp,      \* smtp_config: host, pass, or NoRow
          vpName,    \* app_config
          mail,      \* AdminConfig: its form, its VP box and the name it shows
          forms,     \* its loads
          puts,      \* PUTs of the mail account
          keyed, bad

settingsVars == <<pane, slaDays, sla, tables, smtp, vpName, mail, forms, puts, keyed, bad>>
SlaPane == <<slaDays, sla, tables>>
MailPane == <<smtp, vpName, mail, forms, puts>>

Station == 1 .. Stations
EnvSmtp == [host |-> EnvHost, pass |-> EnvPass]
NoRow == [host |-> Blank, pass |-> Blank]
Unedited == 0
Emptied == MostDays + 1
NoEdits == [k \in Station |-> Unedited]
NoTable == [stage |-> "none", rows |-> [k \in Station |-> 1], moved |-> {}]

NoForms == [stage |-> "none", host |-> Blank, source |-> "env", vp |-> "Andy", behind |-> FALSE]
Unnamed == [name |-> Blank, stored |-> FALSE]

\* moved: thresholds others changed since the table shown was read.
SettingsInit ==
  /\ pane \in {"sla", "mail"}
  /\ slaDays = [k \in Station |-> 1]
  /\ sla = [rows |-> slaDays, edits |-> NoEdits, queue |-> <<>>,
            saving |-> FALSE, error |-> FALSE, moved |-> {}]
  /\ tables = [why \in {"page", "save"} |-> NoTable]
  /\ smtp = NoRow /\ vpName = "Andy" /\ puts = {}
  /\ mail = [host |-> EnvSmtp.host, pass |-> Blank, source |-> "env", saw |-> EnvSmtp.host,
             behind |-> FALSE, vp |-> "Andy", label |-> "Andy", renamed |-> FALSE,
             busy |-> FALSE, error |-> FALSE, naming |-> Unnamed]
  /\ forms = [why \in {"page", "save"} |-> NoForms]
  /\ keyed = 0 /\ bad = 0

Typed == keyed < MaxTypes /\ keyed' = keyed + 1 /\ UNCHANGED <<pane, bad>>
Rival == Typed
CallFails == bad < MaxBad /\ bad' = bad + 1 /\ UNCHANGED <<pane, keyed>>
Works == UNCHANGED <<pane, keyed, bad>>

-----------------------------------------------------------------------------
(***************************************************************************)
(* SlaConfigAdmin                                                          *)
(***************************************************************************)
OnSla == pane = "sla" /\ UNCHANGED MailPane

\* An edit of the value shown is none, and a blank one waits to be left.
Dirty == {k \in Station : sla.edits[k] \notin {Unedited, Emptied, sla.rows[k]}}

\* The fields are not disabled while a save is under way.
setVal(k, n) == /\ OnSla /\ ~sla.error /\ Typed
                /\ sla' = [sla EXCEPT !.edits[k] = n]
                /\ UNCHANGED <<slaDays, tables>>
commitVal(k) == /\ OnSla /\ ~sla.error /\ Works
                /\ sla.edits[k] = Emptied
                /\ sla' = [sla EXCEPT !.edits[k] = sla.rows[k]]
                /\ UNCHANGED <<slaDays, tables>>
revertAll == /\ OnSla /\ ~sla.saving /\ Dirty # {} /\ Works
             /\ sla' = [sla EXCEPT !.edits = NoEdits]
             /\ UNCHANGED <<slaDays, tables>>

\* The edited rows, in the order of the table.
Changed(i) == CHOOSE k \in Dirty : Cardinality({j \in Dirty : j <= k}) = i

\* The save bar stays under the error screen; what is sent is what was typed by now.
saveAll == /\ OnSla /\ ~sla.saving /\ Dirty # {} /\ Works
           /\ sla' = [sla EXCEPT !.saving = TRUE,
                        !.queue = [i \in 1 .. Cardinality(Dirty) |->
                                     [key |-> Changed(i), n |-> sla.edits[Changed(i)],
                                      done |-> FALSE]]]
           /\ UNCHANGED <<slaDays, tables>>

\* A threshold is written while tables are on their way.
Overtaken(k) == [why \in DOMAIN tables |->
                   [tables[why] EXCEPT !.moved = IF tables[why].stage = "read" THEN @ \cup {k} ELSE @]]
upsertSla == /\ OnSla /\ sla.queue # <<>> /\ ~Head(sla.queue).done /\ Works
             /\ LET call == Head(sla.queue)
                IN  slaDays' = [slaDays EXCEPT ![call.key] = call.n] /\ tables' = Overtaken(call.key)
             /\ sla' = [sla EXCEPT !.queue[1].done = TRUE]
RivalSla(k, n) == /\ OnSla /\ Rival
                  /\ slaDays' = [slaDays EXCEPT ![k] = n] /\ tables' = Overtaken(k)
                  /\ sla' = [sla EXCEPT !.moved = @ \cup {k}]

\* load(): the error screen goes away before the answer comes.
Load(why) == tables' = [tables EXCEPT ![why] = [NoTable EXCEPT !.stage = "asked"]]

\* One after the other; the table is loaded when all are answered ...
SavedRow == /\ OnSla /\ sla.queue # <<>> /\ Head(sla.queue).done /\ Works
            /\ sla' = [sla EXCEPT !.queue = Tail(@), !.error = @ /\ Len(sla.queue) > 1]
            /\ IF Len(sla.queue) = 1 THEN Load("save") ELSE UNCHANGED tables
            /\ UNCHANGED slaDays

\* Fault: the rows that were saved are offered again after a failure.
StopOnly == sla' = [sla EXCEPT !.queue = <<>>, !.saving = FALSE] /\ UNCHANGED tables

\* ... or one of them fails, or its answer is lost: "resync from the server".
Resync == sla' = [sla EXCEPT !.queue = <<>>, !.error = FALSE] /\ Load("save")
SaveFails == OnSla /\ sla.queue # <<>> /\ CallFails /\ Resync /\ UNCHANGED slaDays

Retry == /\ OnSla /\ sla.error /\ tables["page"].stage = "none" /\ Works
         /\ sla' = [sla EXCEPT !.error = FALSE] /\ Load("page")
         /\ UNCHANGED slaDays
ReadTable(why) == /\ OnSla /\ tables[why].stage = "asked" /\ Works
                  /\ tables' = [tables EXCEPT ![why] = [stage |-> "read", rows |-> slaDays,
                                                        moved |-> {}]]
                  /\ UNCHANGED <<slaDays, sla>>

\* The answer clears every edit, those typed since the save began with them.
ShowTable(why) == /\ OnSla /\ tables[why].stage = "read" /\ Works
                  /\ sla' = [sla EXCEPT !.rows = tables[why].rows, !.edits = NoEdits,
                                        !.moved = tables[why].moved,
                                        !.saving = @ /\ why # "save"]
                  /\ tables' = [tables EXCEPT ![why] = NoTable]
                  /\ UNCHANGED slaDays
LoadTableFails(why) == /\ OnSla /\ tables[why].stage # "none" /\ CallFails
                       /\ sla' = [sla EXCEPT !.error = TRUE, !.saving = @ /\ why # "save"]
                       /\ tables' = [tables EXCEPT ![why] = NoTable]
                       /\ UNCHANGED slaDays

-----------------------------------------------------------------------------
(***************************************************************************)
(* AdminConfig.  Of the account, the host stands for all but the password. *)
(***************************************************************************)
OnMail == pane = "mail" /\ UNCHANGED SlaPane
Edits(filled) == OnMail /\ mail' = filled
MailServer == <<smtp, vpName, forms, puts>>

\* A row without a host falls back to the environment, for the mailer ...
effective == IF smtp.host # Blank THEN smtp ELSE EnvSmtp

\* ... and for the form, which never learns the password.
Form == [stage |-> "read", host |-> effective.host, vp |-> vpName, behind |-> FALSE,
         source |-> IF smtp.host # Blank THEN "db" ELSE "env"]

Fill(field, v) == /\ ~mail.error /\ mail[field] # v /\ Typed
                  /\ Edits([mail EXCEPT ![field] = v]) /\ UNCHANGED MailServer

\* PUT /admin/smtp sends the whole form; behind: the account changed since it was read.
PutOf(by, host, pass, outdated) ==
  [by |-> by, host |-> host, pass |-> pass, found |-> Blank, stage |-> "asked",
   asLoaded |-> mail.source = "db" /\ host = mail.saw, behind |-> outdated]
SaveMail == /\ ~mail.error /\ ~mail.busy /\ Works
            /\ Edits([mail EXCEPT !.busy = TRUE])
            /\ puts' = puts \cup {PutOf("page", mail.host, mail.pass, mail.behind)}
            /\ UNCHANGED <<smtp, vpName, forms>>
RivalMail(h, s) == /\ OnMail /\ Rival
                   /\ puts' = puts \cup {PutOf("rival", h, s, TRUE)}
                   /\ UNCHANGED <<smtp, vpName, mail, forms>>

\* The stored password is read first ...
ReadPassword(p) == /\ OnMail /\ p.stage = "asked" /\ Works
                   /\ puts' = (puts \ {p}) \cup {[p EXCEPT !.found = smtp.pass, !.stage = "read"]}
                   /\ UNCHANGED <<smtp, vpName, mail, forms>>

\* Fault: a field left empty clears the password.
TypedOnly(p) == p.pass

\* ... "omit/empty to KEEP the stored one": it is written back with the row.
PasswordEnc(p) == IF p.pass # Blank THEN p.pass ELSE p.found
UpsertSmtp(p) ==
  /\ p.stage = "read" /\ Works
  /\ smtp' = [host |-> p.host, pass |-> PasswordEnc(p)]
  /\ puts' = {[q EXCEPT !.behind = TRUE] : q \in puts \ {p}}
             \cup (IF p.by = "page" THEN {[p EXCEPT !.stage = "written"]} ELSE {})
  /\ forms' = [why \in DOMAIN forms |-> [forms[why] EXCEPT !.behind = forms[why].stage = "read"]]
  /\ Edits([mail EXCEPT !.behind = TRUE])
  /\ UNCHANGED vpName

LoadForm(why) == forms' = [forms EXCEPT ![why] = [NoForms EXCEPT !.stage = "asked"]]

\* The form forgets the password, and is loaded.
SmtpSaved(p) == /\ p.stage = "written" /\ Works
                /\ Edits([mail EXCEPT !.pass = Blank, !.error = FALSE])
                /\ puts' = puts \ {p} /\ LoadForm("save")
                /\ UNCHANGED <<smtp, vpName>>
\* Refused, or the answer is lost: what was typed stays in the form.
SmtpFails(p) == /\ p.by = "page" /\ CallFails
                /\ Edits([mail EXCEPT !.busy = FALSE])
                /\ puts' = puts \ {p}
                /\ UNCHANGED <<smtp, vpName, forms>>

RetryMail == /\ mail.error /\ forms["page"].stage = "none" /\ Works
             /\ Edits([mail EXCEPT !.error = FALSE]) /\ LoadForm("page")
             /\ UNCHANGED <<smtp, vpName, puts>>
ReadForm(why) == /\ OnMail /\ forms[why].stage = "asked" /\ Works
                 /\ forms' = [forms EXCEPT ![why] = Form]
                 /\ UNCHANGED <<smtp, vpName, mail, puts>>

\* All that is in the form is replaced, the VP name typed meanwhile with it.
ShowForm(why) == /\ forms[why].stage = "read" /\ Works
                 /\ Edits([mail EXCEPT !.host = forms[why].host, !.saw = forms[why].host,
                              !.source = forms[why].source, !.behind = forms[why].behind,
                              !.pass = Blank, !.vp = forms[why].vp, !.busy = @ /\ why # "save"])
                 /\ forms' = [forms EXCEPT ![why] = NoForms]
                 /\ UNCHANGED <<smtp, vpName, puts>>
LoadFormFails(why) == /\ forms[why].stage # "none" /\ CallFails
                      /\ Edits([mail EXCEPT !.error = TRUE, !.busy = @ /\ why # "save"])
                      /\ forms' = [forms EXCEPT ![why] = NoForms]
                      /\ UNCHANGED <<smtp, vpName, puts>>

SaveVp == /\ ~mail.error /\ mail.naming = Unnamed /\ mail.vp # Blank /\ Works
          /\ Edits([mail EXCEPT !.naming.name = mail.vp]) /\ UNCHANGED MailServer
UpsertVp == /\ mail.naming.name # Blank /\ ~mail.naming.stored /\ Works
            /\ vpName' = mail.naming.name
            /\ Edits([mail EXCEPT !.naming.stored = TRUE, !.renamed = FALSE])
            /\ UNCHANGED <<smtp, forms, puts>>
RivalVp == /\ Rival /\ vpName' = "Binh"
           /\ Edits([mail EXCEPT !.renamed = TRUE]) /\ UNCHANGED <<smtp, forms, puts>>

\* "apply live so labels update without a reload", once it is stored.
VpSaved == /\ mail.naming.stored /\ Works
           /\ Edits([mail EXCEPT !.label = mail.naming.name, !.naming = Unnamed])
           /\ UNCHANGED MailServer
VpFails == /\ mail.naming # Unnamed /\ CallFails
           /\ Edits([mail EXCEPT !.naming = Unnamed, !.renamed = @ \/ mail.naming.stored])
           /\ UNCHANGED MailServer

-----------------------------------------------------------------------------
SettingsNext ==
  \/ \E k \in Station : \/ \E n \in 1 .. MostDays : setVal(k, n) \/ RivalSla(k, n)
                         \/ setVal(k, Emptied) \/ commitVal(k)
  \/ revertAll \/ saveAll \/ upsertSla \/ SavedRow \/ SaveFails \/ Retry
  \/ \E why \in {"page", "save"} :
       \/ ReadTable(why) \/ ShowTable(why) \/ LoadTableFails(why)
       \/ ReadForm(why) \/ ShowForm(why) \/ LoadFormFails(why)
  \/ \E h \in Host \cup {Blank} : Fill("host", h) \/ \E s \in Secret : RivalMail(h, s)
  \/ \E s \in Secret : Fill("pass", s)
  \/ \E v \in {"Khang", Blank} : Fill("vp", v)
  \/ SaveMail \/ \E p \in puts : ReadPassword(p) \/ UpsertSmtp(p) \/ SmtpSaved(p) \/ SmtpFails(p)
  \/ RetryMail \/ SaveVp \/ UpsertVp \/ RivalVp \/ VpSaved \/ VpFails

SettingsSpec == SettingsInit /\ [][SettingsNext]_settingsVars
-----------------------------------------------------------------------------
\* The save bar never offers again what is stored already, not even after a save
\* that failed halfway, unless another administrator stored just that.
DirtyIsUnsaved ==
  ~sla.saving /\ ~sla.error /\ tables["page"].stage = "none" =>
    \A k \in Dirty \ sla.moved : slaDays[k] # sla.edits[k]

\* The labels show the name that is stored, unless another administrator changed it
\* or the answer that it was stored was lost.
LabelTrue == mail.naming = Unnamed /\ ~mail.renamed => mail.label = vpName

\* "Keep" means "don't change": a form saved as it was loaded, with no password,
\* leaves the account of the mailer as it was, unless it changed since the load (it
\* is read before it is written) or the form showed the environment.
KeepMeansKeep ==
  [][\A p \in puts : p.by = "page" /\ p.asLoaded /\ p.pass = Blank /\ ~p.behind
                     /\ p.stage = "read" /\ [p EXCEPT !.stage = "written"] \in puts'
                     => effective' = effective]_settingsVars

SettingsSound == [](DirtyIsUnsaved /\ LabelTrue) /\ KeepMeansKeep
=============================================================================
