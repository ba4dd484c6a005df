---- MODULE MCAssetBuild ----
EXTENDS AssetBuild
MCEntrypoints == <<"hangover", "hangover_fallback", "tipsy">>
====
