--------------------------- MODULE MCEngineMemory ---------------------------
EXTENDS EngineMemory

CONSTANTS rime, basic

MemoryRegistered == <<basic, rime>>
MemoryConfigs ==
    {[default |-> rime, voice |-> NoEngine, order |-> <<>>, prefs |-> p] :
        p \in BOOLEAN}

\* The applications are alike
AppsSymmetry == Permutations(Apps)
=============================================================================
