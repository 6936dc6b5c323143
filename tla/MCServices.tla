----------------------------- MODULE MCServices -----------------------------
(***************************************************************************)
(* The files beside the running program: configuration, recordings, REST   *)
(* sessions and firmware. They share no state: each behaviour runs one.    *)
(* Without the rescue file only the pages are at work: REST and power cuts *)
(* do not depend on it.                                                    *)
(***************************************************************************)
EXTENDS ConfigFile, Recordings, Sessions, FirmwareInstall

VARIABLE part
servicesVars == <<part, configVars, recVars, sessionVars, fwVars>>
First == [stream |-> "s1", net |-> "n1"]

ServicesInit ==
  /\ part \in {"config", "recordings", "sessions", "firmware"}
  /\ ConfigInit /\ RecInit /\ SessionInit /\ FwInit
  /\ part # "config" => rescue

Only(p)     == part = p /\ UNCHANGED part
PagesAlone  == rescue \/ (requests'[Rest] = 0 /\ crashes' = 0)
Config(A)   == Only("config") /\ A /\ PagesAlone /\ UNCHANGED <<recVars, sessionVars, fwVars>>
Session(A)  == Only("sessions") /\ A /\ UNCHANGED <<configVars, recVars, fwVars>>
Recording   == Only("recordings") /\ RecNext /\ UNCHANGED <<configVars, sessionVars, fwVars>>
Firmware    == Only("firmware") /\ FwNext /\ UNCHANGED <<configVars, recVars, sessionVars>>

\* Every process that can run does; nothing makes a user, a client or the
\* power do anything.
ServicesSpec ==
  /\ ServicesInit
  /\ [][Config(ConfigNext) \/ Session(SessionNext) \/ Recording \/ Firmware]_servicesVars
  /\ WF_servicesVars(Config(RestStep)) /\ WF_servicesVars(Config(Unit))
  /\ \A p \in Pages : WF_servicesVars(Config(PageStep(p)))
  /\ WF_servicesVars(Session(SessionCleaner))
=============================================================================
