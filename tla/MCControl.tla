----------------------------- MODULE MCControl -----------------------------
(***************************************************************************)
(* What happens beside the pictures: the ports the streams get, the clients*)
(* that come and go, and three loops that steer the cameras. They share no *)
(* state: each behaviour runs one of them.                                 *)
(***************************************************************************)
EXTENDS ViewerCount, SeamTrigger, BrightTuner, CtrlMailbox, StreamPorts

VARIABLE part
clientVars  == vars
controlVars == <<part, clientVars, leadVars, tunerVars, mailVars, portVars>>
TuneSteps == [n \in 1 .. 10 |-> n]
AnyRate == -1 .. 2
TwoFamilies == <<1, 8>>
TwoAndOne == <<2, 1>>

ControlInit ==
  /\ part \in {"clients", "lead", "tuner", "mailbox", "ports"}
  /\ Init /\ TriggerInit /\ TunerInit /\ MailboxInit /\ PortsInit
  /\ part # "lead" => seam_rate = 1

Only(p)        == part = p /\ UNCHANGED part
ClientsOnly(A) == Only("clients") /\ A /\ UNCHANGED <<leadVars, tunerVars, mailVars, portVars>>
Lead    == Only("lead") /\ TriggerNext /\ UNCHANGED <<clientVars, tunerVars, mailVars, portVars>>
Tuner   == Only("tuner") /\ TunerNext /\ UNCHANGED <<clientVars, leadVars, mailVars, portVars>>
Mailbox == Only("mailbox") /\ MailboxNext /\ UNCHANGED <<clientVars, leadVars, tunerVars, portVars>>
Ports   == Only("ports") /\ PortsNext /\ UNCHANGED <<clientVars, leadVars, tunerVars, mailVars>>

ControlSpec ==
  /\ ControlInit /\ [][ClientsOnly(Next) \/ Lead \/ Tuner \/ Mailbox \/ Ports]_controlVars
  /\ WF_controlVars(Tuner)
  /\ WF_controlVars(ClientsOnly(ClientThread))
  /\ \A s \in Streams :
       WF_controlVars(ClientsOnly(MediaUncount(s))) /\ WF_controlVars(ClientsOnly(MediaForgotten(s)))
=============================================================================
