----------------------------- MODULE MCPlugins -----------------------------
EXTENDS Plugins
=============================================================================
