-------------------------------- MODULE Web --------------------------------
(***************************************************************************)
(* What people have before them, side by side: the bulk bar of a board,    *)
(* the buttons, dialogs and the number sheet of a board, the lookup of     *)
(* closed tickets, the bell, an applicant's own tickets, the create form,  *)
(* the configuration and list pages of an administrator, and the scripts   *)
(* of the operators.  They share no state, so that interleaving them would *)
(* add states and no behaviour: one of them is in use, from any of its     *)
(* initial states, while the others rest.                                  *)
(***************************************************************************)
EXTENDS Bulk, Lookup, Notices, Backups, Mine, Draft, Settings, Options, Desk

CONSTANT Crowd \* stations of more than one file of a board

VARIABLE page

webVars == <<bulkVars, lookupVars, noticesVars, backupVars, mineVars, draftVars,
             settingsVars, optionsVars, deskVars, page>>

WebInit ==
  /\ page \in {"bulk", "lookup", "bell", "scripts", "mine", "draft", "settings", "options", "desk"}
  /\ BulkInit /\ LookupInit /\ NoticesInit /\ BackupsInit /\ MineInit /\ DraftInit
  /\ SettingsInit /\ OptionsInit /\ DeskInit
  /\ page # "bulk" => desk = "DCC1" /\ \A c, d \in Card : stands[c] = stands[d]
                        /\ stands[c].flow = "Payment"
  /\ page # "lookup" => closedAt = [i \in Ids |-> 0]
  /\ page # "bell" => paper.flow = "General" /\ reader = "DCC1"
  /\ page # "settings" => pane = "sla"
  /\ page # "desk" => \A f \in File : placed[f].status = "Hardcopy"
  /\ page = "desk" => Cardinality({f \in File : placed[f].status \notin Crowd}) <= 1

WebNext ==
  /\ UNCHANGED page
  /\ \/ /\ page = "bulk" /\ BulkNext
        /\ UNCHANGED <<lookupVars, noticesVars, backupVars, mineVars, draftVars,
                        settingsVars, optionsVars, deskVars>>
     \/ /\ page = "lookup" /\ LookupNext
        /\ UNCHANGED <<bulkVars, noticesVars, backupVars, mineVars, draftVars,
                        settingsVars, optionsVars, deskVars>>
     \/ /\ page = "bell" /\ NoticesNext
        /\ UNCHANGED <<bulkVars, lookupVars, backupVars, mineVars, draftVars,
                        settingsVars, optionsVars, deskVars>>
     \/ /\ page = "scripts" /\ BackupsNext
        /\ UNCHANGED <<bulkVars, lookupVars, noticesVars, mineVars, draftVars,
                        settingsVars, optionsVars, deskVars>>
     \/ /\ page = "mine" /\ MineNext
        /\ UNCHANGED <<bulkVars, lookupVars, noticesVars, backupVars, draftVars,
                        settingsVars, optionsVars, deskVars>>
     \/ /\ page = "draft" /\ DraftNext
        /\ UNCHANGED <<bulkVars, lookupVars, noticesVars, backupVars, mineVars,
                        settingsVars, optionsVars, deskVars>>
     \/ /\ page = "settings" /\ SettingsNext
        /\ UNCHANGED <<bulkVars, lookupVars, noticesVars, backupVars, mineVars,
                        draftVars, optionsVars, deskVars>>
     \/ /\ page = "options" /\ OptionsNext
        /\ UNCHANGED <<bulkVars, lookupVars, noticesVars, backupVars, mineVars,
                        draftVars, settingsVars, deskVars>>
     \/ /\ page = "desk" /\ DeskNext
        /\ UNCHANGED <<bulkVars, lookupVars, noticesVars, backupVars, mineVars,
                        draftVars, settingsVars, optionsVars>>

WebSpec == WebInit /\ [][WebNext]_webVars

\* What people type and send from a form, an edit or a draft, is what is stored.
FormsHold == EditsSound /\ DraftSound
=============================================================================
