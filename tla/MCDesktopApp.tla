---------------------------- MODULE MCDesktopApp ----------------------------
EXTENDS DesktopApp

Everything == AllKinds
=============================================================================
