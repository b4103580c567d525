----------------------------- MODULE MCRowScan -----------------------------
EXTENDS RowScan

AnyRow == RowType
=============================================================================
