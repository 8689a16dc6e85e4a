-------------------------------- MODULE MCQuotes --------------------------------
\* Instances of Quotes.
EXTENDS Quotes

\* The first versions ask for payment, the later ones do not.
FirstVersions == Quotes \X {1}
================================================================================
