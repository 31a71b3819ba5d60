--------------------------- MODULE MCRunLifecycle ---------------------------
\* Two variations of B1, one of them edited while a run starts, and a third
\* text that no run may start with.
EXTENDS RunLifecycle

CONSTANTS a, a2, b, bad

MCTexts == {a, a2, b, bad}
MCVariation == [t \in MCTexts |-> IF t = b THEN "v2" ELSE "v1"]

\* The other agents are on, off or unheard of together.
MCConsoles ==
    {[agents |-> [k \in AgentKeys |-> IF k = Extraction THEN own ELSE others],
      images |-> images] :
        own \in {a, a2, Off, Missing}, others \in {a, bad, Off, Missing},
        images \in [1 .. MaxImages -> {a, b, Off, Missing}]}
=============================================================================
