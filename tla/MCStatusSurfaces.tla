-------------------------- MODULE MCStatusSurfaces --------------------------
EXTENDS StatusSurfaces

CONSTANTS rime, basic, whisper

SurfacesRegistered == <<basic, whisper, rime>>
SurfacesConfigs ==
    {[default |-> NoEngine, voice |-> NoEngine, order |-> <<>>, prefs |-> FALSE]}
=============================================================================
