----------------------------- MODULE MCServices -----------------------------
(***************************************************************************)
(* The services that stand around the job services, which share no state      *)
(* with each other: the run checks each of them by itself. The variable       *)
(* subject names the one that a behaviour is about; the others stay in one    *)
(* initial state.                                                            *)
(***************************************************************************)
EXTENDS RateLimiter, IrcQueues, CacheMirror, HttpGateway, EditFeeder, IssueAgents, ServiceControl

VARIABLE subject

Subject == {"limiter", "irc", "mirror", "gateway", "feeder", "agents", "control"}

vars == <<limiterVars, ircVars, mirrorVars, gatewayVars, feederVars, agentVars, controlVars,
          subject>>

\* One of the initial states of the services with several.
AtRest(s) ==
  CASE s = "feeder" -> /\ kind = [m \in Change |-> "edit"]
                       /\ target = [m \in Change |-> [exists |-> FALSE, markers |-> 0]]
    [] s = "irc" -> store = FALSE /\ snapshot = FALSE
    [] s = "mirror" -> wiki = [t \in Title |-> Gone]
    [] s = "agents" -> autonomous = TRUE
    [] s = "control" -> /\ programs = [p \in Program |-> "stopped"]
                        /\ configFile = CHOOSE u \in Url : TRUE
    [] OTHER -> TRUE

Init ==
  /\ LimiterInit /\ IrcInit /\ MirrorInit /\ GatewayInit /\ FeederInit /\ AgentsInit
  /\ ControlInit
  /\ subject \in Subject
  /\ \A s \in Subject \ {subject} : AtRest(s)

LimiterSteps ==
  /\ subject = "limiter" /\ LimiterNext
  /\ UNCHANGED <<ircVars, mirrorVars, gatewayVars, feederVars, agentVars, controlVars, subject>>
InIrc(step) ==
  /\ subject = "irc" /\ step
  /\ UNCHANGED <<limiterVars, mirrorVars, gatewayVars, feederVars, agentVars, controlVars, subject>>
IrcSteps == InIrc(IrcNext)
MirrorSteps ==
  /\ subject = "mirror" /\ MirrorNext
  /\ UNCHANGED <<limiterVars, ircVars, gatewayVars, feederVars, agentVars, controlVars, subject>>
GatewaySteps ==
  /\ subject = "gateway" /\ GatewayNext
  /\ UNCHANGED <<limiterVars, ircVars, mirrorVars, feederVars, agentVars, controlVars, subject>>
FeederSteps ==
  /\ subject = "feeder" /\ FeederNext
  /\ UNCHANGED <<limiterVars, ircVars, mirrorVars, gatewayVars, agentVars, controlVars, subject>>
InAgents(step) ==
  /\ subject = "agents" /\ step
  /\ UNCHANGED <<limiterVars, ircVars, mirrorVars, gatewayVars, feederVars, controlVars, subject>>
AgentSteps == InAgents(AgentsNext)
ControlSteps ==
  /\ subject = "control" /\ ControlNext
  /\ UNCHANGED <<limiterVars, ircVars, mirrorVars, gatewayVars, feederVars, agentVars, subject>>

Next ==
  \/ LimiterSteps \/ IrcSteps \/ MirrorSteps \/ GatewaySteps \/ FeederSteps \/ AgentSteps
  \/ ControlSteps

\* The threads of the listener go on working, and the fix agent's workflow goes on being
\* started and running.
Fairness ==
  /\ \A w \in Worker : WF_vars(InIrc(Work(w)))
  /\ WF_vars(InAgents(DispatchRuns))

Spec == Init /\ [][Next]_vars

FairSpec == Spec /\ Fairness
=============================================================================
