------------------------------ MODULE MCRpcServer ------------------------------
(* Instances of RpcServer for TLC. *)
EXTENDS RpcServer, TLC

Workers == Permutations(Coroutine)

\* A new coroutine takes the first free one in a fixed order, and so does a new
\* connection with the descriptors, as the kernel does it.  Free coroutines are
\* interchangeable, because creation sets everything of a coroutine that is read later,
\* and free descriptors are; the properties name none.  So every behaviour is an ordered
\* one up to the names, its liveness included, where SYMMETRY would not be sound.
InOrder ==
  /\ \A d \in Coroutine : pc[d] = "none" /\ pc'[d] # "none" =>
       d = CHOOSE e \in Coroutine : pc[e] = "none"
  /\ \A f \in Conn : holder[f] = Null /\ holder'[f] # Null =>
       f = CHOOSE g \in Conn : holder[g] = Null

OrderedSpec ==
  /\ ServerInit
  /\ [][ServerNext /\ InOrder]_allVars
  /\ WF_allVars(Scheduler /\ UNCHANGED serverVars)
  /\ WF_allVars(\E c \in Coroutine : (Listener(c) \/ Handler(c)) /\ InOrder)
===============================================================================
