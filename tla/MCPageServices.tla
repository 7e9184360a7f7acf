--------------------------- MODULE MCPageServices ---------------------------
\* Two composers, two files, a dialog that is given up after two attempts, and one timer
\* too many; one place in a channel, two arrivals, a title that counts to one.
EXTENDS PageServices
=============================================================================
