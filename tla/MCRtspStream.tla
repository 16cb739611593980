---------------------------- MODULE MCRtspStream ----------------------------
\* RtspStream for TLC.
EXTENDS RtspStream
=============================================================================
