----------------------------- MODULE MCContacts -----------------------------
EXTENDS Contacts

CONSTANTS ann, ben
=============================================================================
