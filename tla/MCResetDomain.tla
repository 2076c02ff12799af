--------------------------- MODULE MCResetDomain ---------------------------
EXTENDS ResetDomain

CONSTANT t1

\* Off; reporting only; supervising with a window; and feeding rules left on in
\* a disabled watchdog.  The interrupt enables only gate outputs.
MCModes ==
  { {}, {"ENABLE"},
    {"ENABLE", "RESET_ENABLE", "WINDOW_ENABLE", "HEARTBEAT_ENABLE"},
    {"RESET_ENABLE", "WINDOW_ENABLE", "HEARTBEAT_ENABLE"} }

MCAcks == { {"EXPIRED"}, StatusBits }
=============================================================================
