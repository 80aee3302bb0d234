------------------------- MODULE ProxyConfigService -------------------------
(***************************************************************************)
(* extra/proxy_config_service.cc: how the proxy configuration, which Java  *)
(* knows, reaches the network stack.                                       *)
(*                                                                         *)
(* The one service is made on the IO thread with the shared proxy service, *)
(* when the first network context is made (GetProxyService).  Its          *)
(* constructor asks Java synchronously; changes are pushed by Java on the  *)
(* UI thread and posted to the IO thread.  The two ways are not ordered.   *)
(***************************************************************************)
EXTENDS IoThread

CONSTANTS
  Configs,      \* the VALID configurations
  NoConfig,     \* PENDING: Java does not know yet; latest_ is NULL
  MaxTasks      \* bound of the model: tasks in the queue when Java pushes a change

ASSUME ProxyConstants == NoConfig \notin Configs /\ MaxTasks \in Nat

VARIABLES
  javaConfig,   \* Java: the configuration of the device
  unsent,       \* Java: it has changed since it was last pushed
  service,      \* how far the constructor of the service is
  answer,       \* what Java has answered to the constructor, while it runs
  latest_,      \* the configuration in force
  crashed       \* the process has ended

proxyVars == <<javaConfig, unsent, service, answer, latest_, crashed>>

\* What Java may know of the device's configuration, and push.
States == Configs \cup {NoConfig}

ProxyTask(c) == [task |-> "SetAllConfigsOnNetworkThread", config |-> c]

ProxyTypeOK ==
  /\ javaConfig \in States
  /\ unsent \in BOOLEAN
  /\ service \in {"none", "asking", "answered", "ready"}
  /\ answer \in States
  /\ latest_ \in States
  /\ crashed \in BOOLEAN

ProxyInit ==
  /\ javaConfig \in States
  /\ unsent = FALSE
  /\ service = "none"
  /\ answer = NoConfig
  /\ latest_ = NoConfig
  /\ crashed = FALSE

\* The IO thread is not inside the constructor.
ProxyIdle == service \in {"none", "ready"}

\* The device's configuration changes, or is not known any more.
ChangeProxy(c) ==
  /\ c # javaConfig
  /\ javaConfig' = c
  /\ unsent' = TRUE
  /\ UNCHANGED <<service, answer, latest_, crashed>>

\* PROXY_CONFIG_CHANGED: SetConfig posts the configuration to the IO thread.
SetConfig ==
  /\ unsent
  /\ Len(io) < MaxTasks
  /\ unsent' = FALSE
  /\ Post(ProxyTask(javaConfig))
  /\ UNCHANGED <<javaConfig, service, answer, latest_, crashed>>

\* Mutant: an answer that is not VALID is stored.
SetConfigOnNetworkThreadMutAny(c) == latest_' = [state |-> c]

\* A configuration that is not VALID leaves latest_ as it is.
SetConfigOnNetworkThread(c) == latest_' = IF c = NoConfig THEN latest_ ELSE c

\* The constructor registers the service in all_configs_ and asks Java.
BeginService ==
  /\ service = "none"
  /\ service' = "asking"
  /\ UNCHANGED <<javaConfig, unsent, answer, latest_, crashed>>

\* PROXY_CONFIG_REQUEST, on the IO thread, while the UI thread goes on.
AnswerProxyRequest ==
  /\ service = "asking"
  /\ service' = "answered"
  /\ answer' = javaConfig
  /\ UNCHANGED <<javaConfig, unsent, latest_, crashed>>

\* Mutant: the answer goes the way of the changes and is overtaken by them.
FinishServiceMutPosts ==
  /\ service = "answered"
  /\ service' = "ready"
  /\ Post(ProxyTask(answer))
  /\ answer' = NoConfig
  /\ UNCHANGED <<javaConfig, unsent, latest_, crashed>>

\* The rest of the constructor: the answer is applied at once.  Nobody observes the
\* service yet.
FinishService ==
  /\ service = "answered"
  /\ service' = "ready"
  /\ SetConfigOnNetworkThread(answer)
  /\ answer' = NoConfig
  /\ UNCHANGED <<io, javaConfig, unsent, crashed>>

\* A posted configuration is applied to the services that are registered, and their
\* observers are given it: `*pc`, of a null pointer when it is not VALID.  The network
\* stack ignores such a notification, or ends the process.
SetAllConfigsOnNetworkThread(c) ==
  /\ Runs(ProxyTask(c))
  /\ IF service = "ready" THEN SetConfigOnNetworkThread(c) ELSE UNCHANGED latest_
  /\ crashed' \in {FALSE, service = "ready" /\ c = NoConfig}
  /\ UNCHANGED <<javaConfig, unsent, service, answer>>

-----------------------------------------------------------------------------
(* Property *)

\* Whatever way the configurations take and however old they are when they are
\* applied: once nothing is on the way, the network uses the device's configuration,
\* if the device has one.
ConfigSettles ==
  service = "ready" /\ javaConfig # NoConfig /\ ~unsent =>
    (\E c \in States, i \in DOMAIN io : io[i] = ProxyTask(c)) \/ latest_ = javaConfig
=============================================================================
