-------------------------- MODULE MCPluginMonitor --------------------------
EXTENDS PluginMonitor

=============================================================================
