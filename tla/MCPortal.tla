------------------------------ MODULE MCPortal ------------------------------
\* The shell of the browser client with five views and two sessions, the
\* first of an admin.
EXTENDS Portal
MCRoutes == {"browse", "dashboard", "trends", "lifecycle", "audit"}
=============================================================================
