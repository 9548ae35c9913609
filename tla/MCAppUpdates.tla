---------------------------- MODULE MCAppUpdates ----------------------------
EXTENDS AppUpdates
MCReleases == 1..3
MCShips    == <<{"data"}, {"data", "config", "added"}, {"data", "added"}>>
MCNameOf   == <<"app", "app", "app3">>
MCLabelOf  == <<"v1", "v2", "v3">>
=============================================================================
