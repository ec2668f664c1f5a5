------------------------------ MODULE MCInbox ------------------------------
EXTENDS Inbox, TLC

CONSTANTS a, b

\* A webhook without messages, and one with two, the second of a type that the
\* column does not know.
AllBatches == {<<>>, <<a, b>>}

AllMixes ==
  {{"send", "configure"}, {"contacts"}, {"chat"}, {"notes"}}

OneBatch == {<<a>>, <<b>>}
NoMix == {{}}
=============================================================================
