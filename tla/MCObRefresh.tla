---- MODULE MCObRefresh ----
EXTENDS ObRefresh
CONSTANTS tf1, tf2
TimeframeOrder == <<tf1, tf2>>
====
