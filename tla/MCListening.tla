---------------------------- MODULE MCListening ----------------------------
EXTENDS Listening, TLC
CONSTANTS en, hi, bn, fr
MCOrder == <<en, bn, hi>>
MCNamings == {{bn, hi}, {en, hi}}
=============================================================================
