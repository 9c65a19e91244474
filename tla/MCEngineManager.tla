--------------------------- MODULE MCEngineManager ---------------------------
EXTENDS EngineManager

CONSTANTS rime, mozc, basic, broken, whisper

ManagerRegistered == <<basic, whisper, rime, mozc, broken>>
ManagerConfigs ==
    {[default |-> rime, voice |-> whisper, order |-> <<mozc, whisper, rime, mozc>>,
      prefs |-> TRUE]}
=============================================================================
