------------------------------- MODULE DashPages -------------------------------
(***************************************************************************)
(* The dashboard's pages side by side (web/js/app.js).  Rules, policies,   *)
(* clients, the live log and settings keep objects of their own; clients   *)
(* and settings share the dialog and the static modals.  A behaviour       *)
(* exercises one page, chosen at its start, so that TLC explores the sum   *)
(* of the pages' states and not their product.                             *)
(***************************************************************************)
EXTENDS DashRules, DashPolicies, DashClients, DashSettings, DashStream

Pages == {"rules", "policies", "clients", "settings", "stream"}

VARIABLE page           \* the page that is exercised

pagesVars == <<page, rulesVars, policyVars, dialogVars, clientsOnly, settingsOnly, logVars>>

\* A page nobody exercises stays at one of its initial states.
Still(p, first) == page # p => first

PagesInit ==
    /\ page \in Pages
    /\ RulesInit /\ PoliciesInit /\ ClientsInit /\ SettingsInit /\ StreamInit
    /\ Still("rules", server.names = {} /\ \A p \in Presets : ~server.sw[p])
    /\ Still("policies", \A k \in Policies : store[k] = Absent)
    /\ Still("clients", \A c \in Clients : accounts[c] = NoAccount)
    /\ Still("settings", ~totp /\ ~settings.domain)

OnRules    == page = "rules" /\ RulesNext
              /\ UNCHANGED <<page, policyVars, dialogVars, clientsOnly, settingsOnly, logVars>>
OnPolicies == page = "policies" /\ PoliciesNext
              /\ UNCHANGED <<page, rulesVars, dialogVars, clientsOnly, settingsOnly, logVars>>
OnClients  == page = "clients" /\ ClientsNext
              /\ UNCHANGED <<page, rulesVars, policyVars, settingsOnly, logVars>>
OnSettings == page = "settings" /\ SettingsNext
              /\ UNCHANGED <<page, rulesVars, policyVars, clientsOnly, logVars>>
OnStream   == page = "stream" /\ StreamNext
              /\ UNCHANGED <<page, rulesVars, policyVars, dialogVars, clientsOnly, settingsOnly>>

PagesNext ==
    \/ OnRules
    \/ OnPolicies
    \/ OnClients
    \/ OnSettings
    \/ OnStream

PagesSpec == PagesInit /\ [][PagesNext]_pagesVars

PagesTypeOK ==
    /\ RulesTypeOK /\ PoliciesTypeOK /\ DialogsTypeOK /\ ClientsTypeOK /\ SettingsTypeOK /\ StreamTypeOK
=============================================================================
